------------------------------ MODULE MCLikeSql ------------------------------
(* Bounds for LikeMatcher and LikeSql: policy values of up to four runes   *)
(* over a wildcard and two plain runes, and of up to three over the        *)
(* wildcards of both languages, the escape rune and a plain one, against   *)
(* texts of up to three runes, "*" and "/" among them.                     *)
EXTENDS LikeSql

UpTo(n, S) == UNION { [1..k -> S] : k \in 0..n }

MCPatterns ==
  UpTo(4, {"a", "b", "*"}) \cup UpTo(3, {"a", "b", "?", "*"})
    \cup UpTo(3, {"*", "?", "%", "\\"}) \cup UpTo(2, {"a", "_", "\\"})
MCTexts ==
  UpTo(3, {"a", "b", "*"}) \cup UpTo(3, {"a", "%", "\\"}) \cup UpTo(2, {"a", "_", "%", "\\", "/"})
=============================================================================
