----------------------------- MODULE LikeMatcher -----------------------------
(***************************************************************************)
(* engine.wildcardMatch (engine/conditions.go): the loop behind StringLike *)
(* and StringNotLike, over the runes of a policy value and of an actual    *)
(* value.  Like crn.matchPath it keeps only the last multi-symbol wildcard,*)
(* but it tries the literal case BEFORE the wildcard case.                 *)
(*                                                                         *)
(* Positions are 0-based as in the code: its p[px] is pat[px + 1] here.    *)
(***************************************************************************)
EXTENDS Glob

CONSTANTS Patterns,   \* the policy values considered, as rune sequences
          Texts       \* the actual values considered

ASSUME RuneAssumption ==
  Patterns \subseteq Seq(STRING) /\ Texts \subseteq Seq(STRING)

LikeWildcards == [one |-> "?", many |-> "*"]

NoStar == -1

VARIABLES pat, text,        \* the arguments
          pc,               \* "scan": first loop, "trail": second loop, "done"
          px, sx,           \* next token and next rune to match
          starPx, starSx,   \* the last "*" met and the runes it has so far
          result

vars == <<pat, text, pc, px, sx, starPx, starSx, result>>

Init ==
  /\ pat \in Patterns /\ text \in Texts
  /\ pc = "scan"
  /\ px = 0 /\ sx = 0
  /\ starPx = NoStar /\ starSx = NoStar
  /\ result = FALSE
-----------------------------------------------------------------------------
AtMatch == px < Len(pat) /\ pat[px + 1] \in {"?", text[sx + 1]}

(* Mutant: "?" also matches nothing at the end of the text.                *)
AtStarOrAny == px < Len(pat) /\ pat[px + 1] \in {"*", "?"}

AtStar == px < Len(pat) /\ pat[px + 1] = "*"

(* case "?" or an equal rune: both advance.                                *)
MatchRune ==
  /\ pc = "scan" /\ sx < Len(text) /\ AtMatch
  /\ px' = px + 1 /\ sx' = sx + 1
  /\ UNCHANGED <<pat, text, pc, starPx, starSx, result>>

(* Mutant: px not advanced.                                                *)
RecordStarInPlace ==
  /\ pc = "scan" /\ sx < Len(text) /\ ~AtMatch /\ AtStar
  /\ starPx' = px /\ starSx' = sx
  /\ UNCHANGED <<pat, text, pc, px, sx, result>>

(* case "*": remember the wildcard, try it with no rune.                   *)
RecordStar ==
  /\ pc = "scan" /\ sx < Len(text) /\ ~AtMatch /\ AtStar
  /\ starPx' = px /\ starSx' = sx /\ px' = px + 1
  /\ UNCHANGED <<pat, text, pc, sx, result>>

(* Mutants of the backtracking case: the star takes the rune after the one *)
(* the scan stopped at, and the star takes nothing more.                   *)
BacktrackToScan ==
  /\ pc = "scan" /\ sx < Len(text) /\ ~AtMatch /\ ~AtStar /\ starPx # NoStar
  /\ px' = starPx + 1 /\ starSx' = sx + 1 /\ sx' = sx + 1
  /\ UNCHANGED <<pat, text, pc, starPx, result>>

BacktrackStuck ==
  /\ pc = "scan" /\ sx < Len(text) /\ ~AtMatch /\ ~AtStar /\ starPx # NoStar
  /\ px' = starPx + 1 /\ sx' = starSx
  /\ UNCHANGED <<pat, text, pc, starPx, starSx, result>>

(* case starPx != -1: let the last "*" take one more rune.                 *)
Backtrack ==
  /\ pc = "scan" /\ sx < Len(text) /\ ~AtMatch /\ ~AtStar /\ starPx # NoStar
  /\ px' = starPx + 1 /\ starSx' = starSx + 1 /\ sx' = starSx + 1
  /\ UNCHANGED <<pat, text, pc, starPx, result>>

(* default: return false.                                                  *)
Mismatch ==
  /\ pc = "scan" /\ sx < Len(text) /\ ~AtMatch /\ ~AtStar /\ starPx = NoStar
  /\ pc' = "done" /\ result' = FALSE
  /\ UNCHANGED <<pat, text, px, sx, starPx, starSx>>

(* The condition of the first loop is false.                               *)
TextExhausted ==
  /\ pc = "scan" /\ sx >= Len(text)
  /\ pc' = "trail"
  /\ UNCHANGED <<pat, text, px, sx, starPx, starSx, result>>

(* The second loop: trailing "*" match nothing.                            *)
SkipTrailing ==
  /\ pc = "trail" /\ AtStar
  /\ px' = px + 1
  /\ UNCHANGED <<pat, text, pc, sx, starPx, starSx, result>>

(* return px == len(p)                                                     *)
Finish ==
  /\ pc = "trail" /\ ~AtStar
  /\ pc' = "done" /\ result' = (px = Len(pat))
  /\ UNCHANGED <<pat, text, px, sx, starPx, starSx>>

Next ==
  \/ MatchRune \/ RecordStar \/ Backtrack \/ Mismatch
  \/ TextExhausted \/ SkipTrailing \/ Finish

(* The loop is sequential code: it keeps running until it returns.         *)
Spec == Init /\ [][Next]_vars /\ WF_vars(Next)
-----------------------------------------------------------------------------
(* The positions stay inside the two slices, and starPx is either -1 or    *)
(* the position of a "*" before px.                                        *)
TypeOK ==
  /\ pat \in Patterns /\ text \in Texts
  /\ pc \in {"scan", "trail", "done"}
  /\ px \in 0..Len(pat) /\ sx \in 0..Len(text)
  /\ \/ starPx = NoStar /\ starSx = NoStar
     \/ /\ starPx \in 0..(px - 1) /\ starSx \in 0..sx
        /\ pat[starPx + 1] = "*"
  /\ result \in BOOLEAN

Plain(t) == \A i \in 1..Len(t) : t[i] # "*"

(* wildcardMatch never reports a match that is not one, for any text.      *)
NoFalseMatch == pc = "done" /\ result => Matches(LikeWildcards, pat, text)

(* wildcardMatch reports every match of a text without the rune "*": the   *)
(* greedy choice of keeping only the last "*" of the pattern loses none.   *)
FindsPlainMatch ==
  pc = "done" /\ Plain(text) /\ Matches(LikeWildcards, pat, text) => result

(* Every iteration moves forward: to a later "*", or to one more rune for  *)
(* the same "*", or to the next token.                                     *)
Advances ==
  [][ \/ starPx' > starPx
      \/ starPx' = starPx /\ starSx' > starSx
      \/ starPx' = starPx /\ starSx' = starSx /\ px' > px
      \/ pc' # pc ]_vars

(* wildcardMatch always returns.                                           *)
Terminates == <>(pc = "done")

(* engine/conditions.go:362: StringLike's "*" stands for "any sequence".   *)
(* A text that contains the rune "*" refutes it: that rune equals the      *)
(* wildcard, which is then consumed as a literal and never remembered.     *)
FindsEveryMatch == pc = "done" /\ Matches(LikeWildcards, pat, text) => result
=============================================================================
