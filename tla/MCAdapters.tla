----------------------------- MODULE MCAdapters -----------------------------
(* Both sides of the adapters in one service: its list endpoints, with the *)
(* bounds of MCListing, and WithPostgresPathConditions as two concurrent   *)
(* callers run it.  Listing takes a call of the helper as one value, so    *)
(* the calls step while no list is under way, with nothing compiled.       *)
(* The constraints of the callers are over the first segment, one that the *)
(* service has mapped itself, the last index that fits, for which it       *)
(* forbids every operator, and the first that does not fit.                *)
EXTENDS MCListing, PostgresPath

StringLike == [StringEquals EXCEPT !.test = "Like"]
MCOtherOperators == {StringLike}

MCSharedMapping ==
  [conditions |-> [key \in {PathKey(1), "status"} |-> Column(key)],
   operators |-> [key \in {PathKey(1), PathKey(2)} |-> IF key = PathKey(1) THEN {StringEquals} ELSE {}]]

Over(S) == [conditions |-> Pins([key \in S |-> {"a"}])]

MCConstraintLists ==
  {NoConstraint,
   [allow |-> <<Over({PathKey(0), PathKey(1)})>>, deny |-> <<Over({PathKey(2)})>>],
   [allow |-> <<Over({"status"}), Over({PathKey(0)})>>, deny |-> <<Over({PathKey(2), PathKey(3)})>>]}

MCStoredRows ==
  {[resource |-> [resource |-> path], attributes |-> Nothing] :
     path \in {<<"">>, <<"a">>, <<"", "b">>, <<"a", "b", "c">>}}

AdaptersInit == ListInit /\ MapInit

ListStep == (\A c \in Callers : at[c] = "idle") /\ ListNext /\ UNCHANGED mapVars

MapStep == statements = <<>> /\ pc = "idle" /\ MapNext /\ UNCHANGED listVars

AdaptersSpec == AdaptersInit /\ [][ListStep \/ MapStep]_<<listVars, mapVars>>
=============================================================================
