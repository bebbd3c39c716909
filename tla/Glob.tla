-------------------------------- MODULE Glob --------------------------------
(***************************************************************************)
(* What it means for a glob to match a sequence, independent of any        *)
(* algorithm.  A glob is a sequence of tokens.  With the wildcards w, the  *)
(* token w.many stands for any run of symbols, the empty one included; the *)
(* token w.one for exactly one symbol; every other token for itself.       *)
(*                                                                         *)
(* crn.matchPath decides this relation with "*" and "**" over the segments *)
(* of a path; engine.wildcardMatch is meant to decide it with "?" and "*"  *)
(* over the characters of a string.                                        *)
(***************************************************************************)
EXTENDS Integers, Sequences

(* The token tok accounts for the symbols seg[from+1], ..., seg[to].       *)
Consumes(w, tok, seg, from, to) ==
  \/ tok = w.many /\ from <= to
  \/ tok # w.many /\ to = from + 1 /\ tok \in {w.one, seg[to]}

(* The first m tokens of glob account for exactly the first n symbols: a   *)
(* cut a splits the symbols among the tokens.                              *)
PrefixMatches(w, glob, seg, m, n) ==
  \E a \in [0..m -> 0..Len(seg)] :
    /\ a[0] = 0 /\ a[m] = n
    /\ \A k \in 1..m : Consumes(w, glob[k], seg, a[k-1], a[k])

(* The tokens of glob after the first m account for exactly the symbols    *)
(* after the first n.                                                      *)
SuffixMatches(w, glob, seg, m, n) ==
  \E a \in [m..Len(glob) -> 0..Len(seg)] :
    /\ a[m] = n /\ a[Len(glob)] = Len(seg)
    /\ \A k \in (m+1)..Len(glob) : Consumes(w, glob[k], seg, a[k-1], a[k])

Matches(w, glob, seg) == SuffixMatches(w, glob, seg, 0, 0)
=============================================================================
