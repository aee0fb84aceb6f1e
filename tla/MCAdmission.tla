----------------------------- MODULE MCAdmission -----------------------------
(* Two callers, one profile with two versions, two task functions, one of     *)
(* them with two definitions, and restarts that may come up with the other    *)
(* definition.                                                                *)
EXTENDS Admission

CONSTANTS m1, m2, v1, adapter, reader, classify, summarize, d1, d2, d3,
          c1, c2, j1, j2, i1, i2, p1, p2, p3,
          profile, plain, frozen

MCSettings == [m \in {m1, m2} |->
  [wellFormed |-> TRUE, versions |-> {v1}, adapter |-> adapter,
   credential |-> reader,
   bindings |-> IF m = m1 THEN classify :> d1 @@ summarize :> d3
                ELSE classify :> d2 @@ summarize :> NoDefinition]]
MCFunctionOf == d1 :> classify @@ d2 :> classify @@ d3 :> summarize
MCTaskOf == p1 :> [function |-> classify, requested |-> NoDefinition]
         @@ p2 :> [function |-> summarize, requested |-> d3]
         @@ p3 :> [function |-> classify, requested |-> d2]
MCEvidence == {[adapter |-> adapter, cases |-> {"typed", "commit"}, passed |-> TRUE],
               [adapter |-> adapter, cases |-> {"typed"}, passed |-> TRUE]}
MCGrants   == {{"select"}, {"select", "update"}}
MCSeedings == {{d1, d3}, {d2, d3}}
MCInitialVersions == {}
MCCaseKinds == {"typed", "commit"}
MCOperations == {"select", "update"}
MCMutations == {"update"}

R(m) == [profile |-> profile, digest |-> m]
Envelope(payloads, discriminator, deadline, m, job, is, payload) ==
  [payloads |-> payloads, discriminator |-> discriminator, deadline |-> deadline,
   reference |-> R(m), job |-> job, items |-> is, payload |-> payload]

TwoItems(m) == Envelope({"bulk"}, NoPath, FALSE, m, j1, <<i1, i2>>, p1)

\* The first caller has a job of two items, interactive work, or both payloads and
\* no discriminator.  The second has the same job, also under another version and,
\* in part, with a payload asking for a definition that is not bound; a job of the
\* other function; or interactive work without a deadline.
MCRequests ==
  c1 :> {TwoItems(m1),
         Envelope(Paths, "interactive", TRUE, m1, j1, <<i1, i2>>, p1),
         Envelope(Paths, NoPath, TRUE, m1, j1, <<i1, i2>>, p1)}
  @@
  c2 :> {TwoItems(m1),
         Envelope(Paths, "bulk", FALSE, m2, j1, <<i1, i2>>, p1),
         Envelope({"bulk"}, NoPath, FALSE, m1, j1, <<i2>>, p3),
         Envelope({"bulk"}, NoPath, FALSE, m1, j2, <<i1>>, p2),
         Envelope({"interactive"}, NoPath, FALSE, m1, j1, <<i1, i2>>, p1)}
================================================================================
