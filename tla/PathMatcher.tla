----------------------------- MODULE PathMatcher -----------------------------
(***************************************************************************)
(* crn.matchPath (crn/crn.go): the loop that decides whether the segments  *)
(* of a concrete resource path match the segments of a pattern.  One step  *)
(* of the specification is one iteration of one of the two loops; the      *)
(* guards follow the order of the cases of the switch.                     *)
(*                                                                         *)
(* The positions px, sx, starPx and starSx are 0-based as in the code, so  *)
(* the code's pat[px] is pat[px + 1] here.                                 *)
(***************************************************************************)
EXTENDS Crn

CONSTANTS Patterns,   \* the segmented patterns considered
          Paths       \* the segmented concrete paths considered

(* strings.Split never returns an empty slice.                             *)
ASSUME SplitAssumption ==
  /\ Patterns \subseteq Seq(STRING) \ {<<>>}
  /\ Paths \subseteq Seq(STRING) \ {<<>>}

NoStar == -1

VARIABLES pat, seg,         \* the arguments
          pc,               \* "scan": first loop, "trail": second loop, "done"
          px, sx,           \* next token and next segment to match
          starPx, starSx,   \* the last "**" met and the segments it has so far
          result

vars == <<pat, seg, pc, px, sx, starPx, starSx, result>>

Init ==
  /\ pat \in Patterns /\ seg \in Paths
  /\ pc = "scan"
  /\ px = 0 /\ sx = 0
  /\ starPx = NoStar /\ starSx = NoStar
  /\ result = FALSE
-----------------------------------------------------------------------------
AtDeep == px < Len(pat) /\ pat[px + 1] = DeepWildcard
AtMatch == px < Len(pat) /\ pat[px + 1] \in {Wildcard, seg[sx + 1]}

(* Mutants: the wildcard case tried after the literal one, so that a       *)
(* segment that is itself "**" hides the wildcard; and px not advanced.    *)
RecordDeepInPlace ==
  /\ pc = "scan" /\ sx < Len(seg) /\ AtDeep
  /\ starPx' = px /\ starSx' = sx
  /\ UNCHANGED <<pat, seg, pc, px, sx, result>>

RecordDeepLiteralFirst ==
  /\ pc = "scan" /\ sx < Len(seg) /\ AtDeep
  /\ IF AtMatch THEN sx' = sx + 1 /\ UNCHANGED <<starPx, starSx>>
                ELSE starPx' = px /\ starSx' = sx /\ UNCHANGED sx
  /\ px' = px + 1
  /\ UNCHANGED <<pat, seg, pc, result>>

(* case pat[px] == "**": remember the wildcard, try it with no segment.    *)
RecordDeep ==
  /\ pc = "scan" /\ sx < Len(seg) /\ AtDeep
  /\ starPx' = px /\ starSx' = sx /\ px' = px + 1
  /\ UNCHANGED <<pat, seg, pc, sx, result>>

(* case "*" or an equal segment: both advance.                             *)
MatchSegment ==
  /\ pc = "scan" /\ sx < Len(seg) /\ ~AtDeep /\ AtMatch
  /\ px' = px + 1 /\ sx' = sx + 1
  /\ UNCHANGED <<pat, seg, pc, starPx, starSx, result>>

(* Mutant: the last "**" never takes another segment.                      *)
BacktrackStuck ==
  /\ pc = "scan" /\ sx < Len(seg) /\ ~AtDeep /\ ~AtMatch /\ starPx # NoStar
  /\ px' = starPx + 1 /\ sx' = starSx
  /\ UNCHANGED <<pat, seg, pc, starPx, starSx, result>>

(* case starPx != -1: let the last "**" take one more segment.             *)
Backtrack ==
  /\ pc = "scan" /\ sx < Len(seg) /\ ~AtDeep /\ ~AtMatch /\ starPx # NoStar
  /\ px' = starPx + 1 /\ starSx' = starSx + 1 /\ sx' = starSx + 1
  /\ UNCHANGED <<pat, seg, pc, starPx, result>>

(* default: return false.                                                  *)
Mismatch ==
  /\ pc = "scan" /\ sx < Len(seg) /\ ~AtDeep /\ ~AtMatch /\ starPx = NoStar
  /\ pc' = "done" /\ result' = FALSE
  /\ UNCHANGED <<pat, seg, px, sx, starPx, starSx>>

(* The condition of the first loop is false.                               *)
PathExhausted ==
  /\ pc = "scan" /\ sx >= Len(seg)
  /\ pc' = "trail"
  /\ UNCHANGED <<pat, seg, px, sx, starPx, starSx, result>>

(* The second loop: trailing "**" tokens match nothing.                    *)
SkipTrailing ==
  /\ pc = "trail" /\ AtDeep
  /\ px' = px + 1
  /\ UNCHANGED <<pat, seg, pc, sx, starPx, starSx, result>>

(* return px == len(pat)                                                   *)
Finish ==
  /\ pc = "trail" /\ ~AtDeep
  /\ pc' = "done" /\ result' = (px = Len(pat))
  /\ UNCHANGED <<pat, seg, px, sx, starPx, starSx>>

Next ==
  \/ RecordDeep \/ MatchSegment \/ Backtrack \/ Mismatch
  \/ PathExhausted \/ SkipTrailing \/ Finish

(* The loop is sequential code: it keeps running until it returns.         *)
Spec == Init /\ [][Next]_vars /\ WF_vars(Next)
-----------------------------------------------------------------------------
(* The positions stay inside the two slices, so no index is out of range,  *)
(* and starPx is either -1 or the position of a "**" token before px.      *)
TypeOK ==
  /\ pat \in Patterns /\ seg \in Paths
  /\ pc \in {"scan", "trail", "done"}
  /\ px \in 0..Len(pat) /\ sx \in 0..Len(seg)
  /\ \/ starPx = NoStar /\ starSx = NoStar
     \/ /\ starPx \in 0..(px - 1) /\ starSx \in 0..sx
        /\ pat[starPx + 1] = DeepWildcard
  /\ result \in BOOLEAN

(* matchPath returns true exactly for the paths its pattern denotes: the   *)
(* greedy choice of keeping only the last "**" loses no match, however     *)
(* many "**" the pattern has and whatever the segments contain, a segment  *)
(* that is literally "*" or "**" included.                                 *)
ReturnsMatch == pc = "done" => (result <=> MatchPath(pat, seg))

(* Every iteration moves forward lexicographically: to a later "**", or to *)
(* one more segment for the same "**", or to the next token.  This is why  *)
(* the loop stops although sx moves back.                                  *)
Advances ==
  [][ \/ starPx' > starPx
      \/ starPx' = starPx /\ starSx' > starSx
      \/ starPx' = starPx /\ starSx' = starSx /\ px' > px
      \/ pc' # pc ]_vars

(* matchPath always returns.                                               *)
Terminates == <>(pc = "done")
=============================================================================
