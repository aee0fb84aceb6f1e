--------------------------- MODULE AdmissionPromise ---------------------------
(***************************************************************************)
(* What admission promises a caller (admission/router.py): an attempt      *)
(* takes one path, one that its envelope names without doubt, and an       *)
(* attempt that is rejected has taken none.  An attempt may be lost with   *)
(* its process and be made again.                                          *)
(***************************************************************************)
CONSTANTS Clients, Paths, NoPath

VARIABLES
  choices,  \* client -> the paths its envelope allows, fixed from the start
  answer,   \* client -> what it was told
  taken     \* client -> the path whose dispatcher its attempt reached

promiseVars == <<choices, answer, taken>>

Init == /\ choices \in [Clients -> SUBSET Paths]
        /\ answer = [c \in Clients |-> "none"]
        /\ taken = [c \in Clients |-> NoPath]

Take(c) == /\ answer[c] = "none" /\ taken[c] = NoPath
           /\ \E p \in choices[c] : taken' = [taken EXCEPT ![c] = p]
           /\ UNCHANGED <<choices, answer>>

Reject(c) == /\ answer[c] = "none" /\ taken[c] = NoPath
             /\ answer' = [answer EXCEPT ![c] = "rejected"]
             /\ UNCHANGED <<choices, taken>>

Finish(c) == /\ answer[c] = "none" /\ taken[c] # NoPath
             /\ \E a \in {"accepted", "raised"} : answer' = [answer EXCEPT ![c] = a]
             /\ UNCHANGED <<choices, taken>>

\* A crash takes every attempt under way with it.
Crash == /\ answer' = [c \in Clients |-> IF answer[c] = "none" /\ taken[c] # NoPath
                                         THEN "lost" ELSE answer[c]]
         /\ UNCHANGED <<choices, taken>>

Again(c) == /\ answer[c] # "none"
            /\ answer' = [answer EXCEPT ![c] = "none"]
            /\ taken' = [taken EXCEPT ![c] = NoPath]
            /\ UNCHANGED choices

Next == Crash \/ \E c \in Clients : Take(c) \/ Reject(c) \/ Finish(c) \/ Again(c)

Spec == Init /\ [][Next]_promiseVars
================================================================================
