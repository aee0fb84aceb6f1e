-------------------------- MODULE MCModelDisclosure --------------------------
(* One call; plans and policies registered while it runs.                     *)
EXTENDS ModelDisclosure

CONSTANTS call1, reader, writer, q1, q2, s1

Leaf(kind)      == [kind |-> kind, children |-> <<>>]
Node(kind, kids) == [kind |-> kind, children |-> kids]
Term(column, direction, nulls) ==
  [column |-> column, direction |-> direction, nulls |-> nulls]
MCOrder == <<Term("rank", "descending", "last"), Term("id", "ascending", "last")>>
Plan(tree, order) ==
  [operation |-> tree, order |-> order, intrinsic |-> FALSE, capabilities |-> {"order"},
   parameters |-> [n \in {"p"} |-> [type |-> "decimal", required |-> TRUE, nullable |-> FALSE]]]

Select  == Node("select", <<Leaf("filter")>>)
Update  == Node("select", <<Leaf("filter"), Node("join", <<Leaf("update")>>)>>)
Unknown == Node("select", <<Leaf("unknown")>>)
MCOperationNodes ==
  {Leaf(k) : k \in {"select", "filter", "sort", "update", "unknown"}}
  \cup {Select, Node("join", <<Leaf("update")>>), Update, Unknown}
MCPlans ==
  {Plan(Select, MCOrder),
   Plan(Leaf("select"), <<Term("rank", "descending", "first")>>),
   Plan(Update, MCOrder),
   Plan(Unknown, MCOrder),
   Plan(Leaf("sort"), MCOrder),
   Plan(Select, <<>>),
   Plan(Select, <<Term("absent", "ascending", "last")>>)}

Request(reference, credential, given) ==
  [reference |-> reference, credential |-> credential, path |-> "interactive",
   parameters |-> [n \in {"p"} |-> given]]
MCRequests == {Request(q1, reader, "integer"), Request(q1, NoCredential, "integer"),
               Request(q1, reader, "null")}
MCContract == {"order", "select", "filter", "join", "sort", "update", "unknown"}
MCAdapter  == {"order", "select", "filter", "join", "update", "unknown"}
MCDecisions ==
  {[allowed |-> TRUE, credential |-> reader, identified |-> TRUE, encrypted |-> e] : e \in BOOLEAN}
  \cup {[allowed |-> TRUE, credential |-> writer, identified |-> TRUE, encrypted |-> TRUE]}

Columns(names) == [i \in DOMAIN names |-> [name |-> names[i], nullable |-> TRUE]]
Values == {1, 2} \X {1, 2, Null}
MCRawResults ==
  {[columns |-> Columns(<<"id", "rank">>), rows |-> rows] :
     rows \in UNION {[1..n -> Values] : n \in {0, 2, 3}}}
  \cup {[columns |-> Columns(<<"id", "id">>), rows |-> <<>>],
        [columns |-> Columns(<<"id", "rank">>), rows |-> <<<<1, Other>>>>],
        [columns |-> Columns(<<"id", "rank">>), rows |-> <<<<2, 1>>, <<1, 3>>>>]}
MCUnfreezable == {3}

Policy(decision, providers, sensitive) ==
  [available |-> TRUE, valid |-> TRUE, decision |-> decision, providers |-> providers,
   classes |-> {}, sensitive |-> sensitive, encrypted |-> TRUE]
MCPolicies ==
  {Policy("allow", {"provider"}, {<<"rank">>, <<"id">>}),
   Policy("allow", {"provider"}, {<<"score">>}),
   Policy("allow", {"provider"}, {<<"rows", "source", "score">>}),
   Policy("allow", {"provider"}, {<<"rows">>}),
   Policy("indeterminate", {"provider"}, {}),
   Policy("allow", {}, {})}
Operation(mapping) == [version |-> s1, provider |-> "provider", classes |-> {}, mapping |-> mapping]
\* A task whose one field is taken from a column of another name, and plain work.
MCOperations ==
  {Operation([identifier |-> "id", fields |-> [f \in {"score"} |-> "rank"]]),
   Operation(NoMapping)}
MCAuthentications == {[authenticated |-> TRUE, same |-> s] : s \in BOOLEAN}
================================================================================
