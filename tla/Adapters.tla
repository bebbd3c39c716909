------------------------------ MODULE Adapters -------------------------------
(* What the list adapters have in common (adapter/sqlfilter,               *)
(* adapter/pathfilter).                                                    *)
EXTENDS Crn, Conditions

CONSTANT Starred  \* texts that contain a "*"

ASSUME StarredAssumption == {Wildcard, DeepWildcard} \subseteq Starred

StringEquals == [kind |-> "String", test |-> "Equals", not |-> FALSE, ifExists |-> FALSE]
=============================================================================
