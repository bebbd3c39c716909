------------------------------ MODULE MCEngine -------------------------------
(* Bounds for Engine: documents of one or two policies, one of them empty, *)
(* of one or two statements; pairs of documents that one edit turns into   *)
(* each other with another answer; each kind of fault once, after a sound  *)
(* policy; two tenants, two operations, two rows.  Compile is called until *)
(* MaxClones slices are cloned.                                            *)
EXTENDS Engine

MCUuidOf == [t \in {"t1", "t2"} |-> t]
NoTable == [v \in {} |-> 0]

Write(effect, action, path) ==
  [sid |-> "", effect |-> effect, actions |-> <<action>>,
   resources |-> <<<<"crn", "aic", "", "file", "", "*", path>>>>,
   conditions |-> NoConditions]

Get == <<"file", "get">>
Put == <<"file", "put">>

Block(op, key) == [o \in {op} |-> [k \in {key} |-> {"true"}]]

Unsound ==
  { [Write("allow", Get, <<"a">>) EXCEPT !.effect = "Allow"],
    Write("deny", <<"get">>, <<"a">>),
    [Write("deny", Get, <<"a">>) EXCEPT !.resources[1][2] = "*"],
    [Write("deny", <<"get">>, <<"a">>) EXCEPT !.conditions =
       Block([kind |-> "Bool", test |-> "Equals", not |-> TRUE, ifExists |-> FALSE], "mfa")] }

MCSources ==
  { <<<<Write("allow", Get, <<"**">>)>>>>,
    <<<<Write("allow", Put, <<"**">>)>>>>,
    <<<<Write("allow", <<"*">>, <<"**">>), Write("deny", Get, <<"b">>)>>>>,
    <<<<>>, <<Write("allow", Get, <<"**">>), Write("deny", Put, <<"a">>)>>>>,
    <<<<Write("allow", Get, <<"**">>), Write("deny", Put, <<"a">>)>>>>,
    <<<<Write("allow", Get, <<"**">>), Write("deny", <<"get">>, <<"a">>)>>>> }
    \cup { <<<<Write("allow", Get, <<"**">>)>>, <<st>>>> : st \in Unsound }

Resource(tenant, path) ==
  [tenant |-> tenant, scope |-> "", service |-> "file",
   region |-> "", type |-> "object", resource |-> path]

Nothing == [k \in {} |-> ""]

MCRequests ==
  { [action |-> Get, resource |-> Resource(t, p), tenant |-> "t1",
     published |-> FALSE, context |-> Nothing] :
       t \in {"t1", "t2"}, p \in {<<"a">>, <<"b">>} }

MCQueries == { [action |-> Get, tenant |-> "t1", context |-> Nothing] }

MCRows ==
  { [resource |-> Resource(t, p), attributes |-> Nothing] :
       t \in {"t1", "t2"}, p \in {<<"a">>, <<"b">>} }
=============================================================================
