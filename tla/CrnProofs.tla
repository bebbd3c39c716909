------------------------------ MODULE CrnProofs ------------------------------
(***************************************************************************)
(* crn.matchPath decides glob matching, for all patterns and all paths;    *)
(* names and condition keys survive the text they are written as.          *)
(***************************************************************************)
EXTENDS PathMatcher, Identifiers, SharedLemmas

W == PathWildcards

(* What is already matched: the tokens before px account for the segments  *)
(* before sx, and those up to the last "**" for the segments before        *)
(* starSx.                                                                 *)
Sound ==
  /\ pc \in {"scan", "trail"} => PrefixMatches(W, pat, seg, px, sx)
  /\ pc = "scan" /\ starPx # NoStar =>
        PrefixMatches(W, pat, seg, starPx + 1, starSx)
  /\ pc = "trail" => sx = Len(seg)

(* Since the last "**" the scan has consumed one segment per token, and    *)
(* has lost nothing by it: if the tokens after the "**" match from segment *)
(* n, then those after px match from as many segments further.             *)
Lead == px - (starPx + 1)

InStep ==
  pc = "scan" /\ starPx # NoStar =>
    /\ sx = starSx + Lead
    /\ \A n \in 0..Len(seg) :
         SuffixMatches(W, pat, seg, starPx + 1, n) =>
           /\ n + Lead <= Len(seg)
           /\ SuffixMatches(W, pat, seg, px, n + Lead)

(* What is still to be matched: if the path matches at all, then the rest  *)
(* of it matches the rest of the pattern, from sx when no "**" was met and *)
(* from some segment not before starSx otherwise.                          *)
Complete ==
  Matches(W, pat, seg) =>
    /\ pc = "scan" /\ starPx = NoStar => SuffixMatches(W, pat, seg, px, sx)
    /\ pc = "scan" /\ starPx # NoStar =>
         \E n \in starSx..Len(seg) : SuffixMatches(W, pat, seg, starPx + 1, n)
    /\ pc = "trail" => SuffixMatches(W, pat, seg, px, sx)

IInv == TypeOK /\ Sound /\ InStep /\ Complete /\ ReturnsMatch

-----------------------------------------------------------------------------
LEMMA Typing ==
  ASSUME TypeOK
  PROVE  pat \in Seq(STRING) /\ seg \in Seq(STRING)
BY SplitAssumption DEF TypeOK

(* Where no case of the switch but the backtracking one or the default     *)
(* applies, the rest of the path does not match from sx.                   *)
LEMMA Stuck ==
  ASSUME TypeOK, sx < Len(seg), ~AtDeep, ~AtMatch
  PROVE  ~SuffixMatches(W, pat, seg, px, sx)
<1> SUFFICES ASSUME SuffixMatches(W, pat, seg, px, sx) PROVE FALSE
  OBVIOUS
<1> USE Typing
<1>1. px # Len(pat)
  BY SuffixEnd
<1>2. px \in 0..(Len(pat)-1)
  BY <1>1 DEF TypeOK
<1>3. PICK p \in 0..Len(seg) : Consumes(W, pat[px+1], seg, sx, p)
  BY <1>2, SuffixStep
<1>4. QED
  BY <1>2, <1>3 DEF Consumes, AtDeep, AtMatch, W, PathWildcards, TypeOK

LEMMA InitTypeOK == Init => TypeOK
<1> SUFFICES ASSUME Init PROVE TypeOK
  OBVIOUS
<1>1. pat \in Seq(STRING) /\ seg \in Seq(STRING)
  BY SplitAssumption DEF Init
<1>2. Len(pat) \in Nat /\ Len(seg) \in Nat
  BY <1>1
<1>3. px \in 0..Len(pat) /\ sx \in 0..Len(seg)
  BY <1>2 DEF Init
<1>4. QED
  BY <1>3 DEF Init, TypeOK

LEMMA StepTypeOK == TypeOK /\ [Next]_vars => TypeOK'
<1> SUFFICES ASSUME TypeOK, [Next]_vars PROVE TypeOK'
  OBVIOUS
<1> USE Typing DEF TypeOK, NoStar
<1>1. CASE RecordDeep
  BY <1>1 DEF RecordDeep, AtDeep
<1>2. CASE MatchSegment
  BY <1>2 DEF MatchSegment, AtMatch
<1>3. CASE Backtrack
  BY <1>3 DEF Backtrack
<1>4. CASE Mismatch
  BY <1>4 DEF Mismatch
<1>5. CASE PathExhausted
  BY <1>5 DEF PathExhausted
<1>6. CASE SkipTrailing
  BY <1>6 DEF SkipTrailing, AtDeep
<1>7. CASE Finish
  BY <1>7 DEF Finish
<1>8. CASE UNCHANGED vars
  BY <1>8 DEF vars
<1>9. QED
  BY <1>1, <1>2, <1>3, <1>4, <1>5, <1>6, <1>7, <1>8 DEF Next

(* The indices of crn.matchPath stay inside its two slices.                *)
THEOREM TypeCorrect == Spec => []TypeOK
<1>1. QED
  BY InitTypeOK, StepTypeOK, PTL DEF Spec

(* One step of the loop keeps the three parts of the invariant.            *)
LEMMA SoundStep ==
  ASSUME TypeOK, TypeOK', Sound, InStep, Next
  PROVE  Sound'
<1> USE Typing DEF TypeOK, NoStar
<1>1. CASE RecordDeep
  <2>1. /\ pat' = pat /\ seg' = seg /\ pc' = "scan" /\ sx' = sx
        /\ px' = px + 1 /\ starPx' = px /\ starSx' = sx
        /\ pc = "scan" /\ px \in Nat
    BY <1>1 DEF RecordDeep
  <2>2. Consumes(W, pat[px+1], seg, sx, sx)
    BY <1>1 DEF RecordDeep, AtDeep, Consumes, W, PathWildcards
  <2>3. PrefixMatches(W, pat, seg, px + 1, sx)
    BY <2>1, <2>2, PrefixExtend DEF Sound
  <2>4. QED
    BY <2>1, <2>3 DEF Sound
<1>2. CASE MatchSegment
  <2>1. /\ pat' = pat /\ seg' = seg /\ pc' = "scan" /\ sx' = sx + 1
        /\ px' = px + 1 /\ starPx' = starPx /\ starSx' = starSx
        /\ pc = "scan" /\ px \in Nat
    BY <1>2 DEF MatchSegment
  <2>2. Consumes(W, pat[px+1], seg, sx, sx + 1) /\ sx + 1 \in 0..Len(seg)
    BY <1>2 DEF MatchSegment, AtDeep, AtMatch, Consumes, W, PathWildcards
  <2>3. PrefixMatches(W, pat, seg, px + 1, sx + 1)
    BY <2>1, <2>2, PrefixExtend DEF Sound
  <2>4. QED
    BY <2>1, <2>3 DEF Sound
<1>3. CASE Backtrack
  <2>1. /\ pat' = pat /\ seg' = seg /\ pc' = "scan" /\ sx' = starSx + 1
        /\ px' = starPx + 1 /\ starPx' = starPx /\ starSx' = starSx + 1
        /\ pc = "scan" /\ starPx # NoStar
    BY <1>3 DEF Backtrack
  <2>2. /\ starPx \in Nat /\ starSx \in 0..Len(seg)
        /\ starSx + 1 \in starSx..Len(seg)
        /\ pat[starPx + 1] = W.many
    BY <1>3 DEF Backtrack, W, PathWildcards
  <2>3. PrefixMatches(W, pat, seg, starPx + 1, starSx + 1)
    BY <2>1, <2>2, PrefixWiden DEF Sound
  <2>4. QED
    BY <2>1, <2>3 DEF Sound
<1>4. CASE Mismatch
  BY <1>4 DEF Mismatch, Sound
<1>5. CASE PathExhausted
  BY <1>5 DEF PathExhausted, Sound
<1>6. CASE SkipTrailing
  <2>1. /\ pat' = pat /\ seg' = seg /\ pc' = "trail" /\ sx' = sx
        /\ px' = px + 1 /\ pc = "trail" /\ px \in Nat
    BY <1>6 DEF SkipTrailing
  <2>2. Consumes(W, pat[px+1], seg, sx, sx)
    BY <1>6 DEF SkipTrailing, AtDeep, Consumes, W, PathWildcards
  <2>3. PrefixMatches(W, pat, seg, px + 1, sx)
    BY <2>1, <2>2, PrefixExtend DEF Sound
  <2>4. QED
    BY <2>1, <2>3 DEF Sound
<1>7. CASE Finish
  BY <1>7 DEF Finish, Sound
<1>8. QED
  BY <1>1, <1>2, <1>3, <1>4, <1>5, <1>6, <1>7 DEF Next

LEMMA InStepStep ==
  ASSUME TypeOK, TypeOK', InStep, Next
  PROVE  InStep'
<1> USE Typing DEF TypeOK, NoStar
<1>1. CASE RecordDeep
  <2>1. Lead' = 0 /\ px' = starPx' + 1 /\ sx' = starSx' /\ starSx' \in Nat
    BY <1>1 DEF RecordDeep, Lead
  <2>2. ASSUME NEW n \in 0..Len(seg'),
               SuffixMatches(W, pat', seg', starPx' + 1, n)
        PROVE  /\ n + Lead' <= Len(seg')
               /\ SuffixMatches(W, pat', seg', px', n + Lead')
    <3>1. n + Lead' = n /\ n <= Len(seg')
      BY <2>1
    <3>2. QED
      BY <2>1, <2>2, <3>1
  <2>3. sx' = starSx' + Lead'
    <3>1. \A k \in Nat : k + 0 = k
      OBVIOUS
    <3>2. QED
      BY <2>1, <3>1, Zenon
  <2>4. QED
    BY <2>2, <2>3 DEF InStep
<1>2. CASE MatchSegment
  <2>1. /\ pat' = pat /\ seg' = seg /\ sx' = sx + 1 /\ pc = "scan"
        /\ px' = px + 1 /\ starPx' = starPx /\ starSx' = starSx
        /\ px \in 0..(Len(pat)-1) /\ pat[px+1] # W.many
    BY <1>2 DEF MatchSegment, AtDeep, AtMatch, W, PathWildcards
  <2> SUFFICES ASSUME starPx # NoStar
               PROVE  /\ sx' = starSx + Lead'
                      /\ \A n \in 0..Len(seg) :
                           SuffixMatches(W, pat, seg, starPx + 1, n) =>
                             /\ n + Lead' <= Len(seg)
                             /\ SuffixMatches(W, pat, seg, px', n + Lead')
    BY <2>1 DEF InStep
  <2>2. Lead' = Lead + 1 /\ Lead \in Nat
    <3>1. starPx \in 0..(px-1) /\ px \in Nat
      BY <2>1
    <3>2. QED
      BY <2>1, <3>1 DEF Lead
  <2>3. sx' = starSx + Lead'
    BY <2>1, <2>2 DEF InStep
  <2>4. ASSUME NEW n \in 0..Len(seg), SuffixMatches(W, pat, seg, starPx + 1, n)
        PROVE  /\ n + Lead' <= Len(seg)
               /\ SuffixMatches(W, pat, seg, px', n + Lead')
    <3>1. SuffixMatches(W, pat, seg, px, n + Lead)
      BY <2>1, <2>4 DEF InStep
    <3>2. PICK p \in 0..Len(seg) :
             /\ Consumes(W, pat[px+1], seg, n + Lead, p)
             /\ SuffixMatches(W, pat, seg, px + 1, p)
      BY <2>1, <3>1, SuffixStep
    <3>3. p = n + Lead + 1
      BY <2>1, <3>2 DEF Consumes
    <3>4. QED
      BY <2>1, <2>2, <3>2, <3>3
  <2>5. QED
    BY <2>3, <2>4
<1>3. CASE Backtrack
  <2>1. Lead' = 0 /\ px' = starPx' + 1 /\ sx' = starSx' /\ starSx' \in Nat
    BY <1>3 DEF Backtrack, Lead
  <2>2. ASSUME NEW n \in 0..Len(seg'),
               SuffixMatches(W, pat', seg', starPx' + 1, n)
        PROVE  /\ n + Lead' <= Len(seg')
               /\ SuffixMatches(W, pat', seg', px', n + Lead')
    <3>1. n + Lead' = n /\ n <= Len(seg')
      BY <2>1
    <3>2. QED
      BY <2>1, <2>2, <3>1
  <2>3. sx' = starSx' + Lead'
    <3>1. \A k \in Nat : k + 0 = k
      OBVIOUS
    <3>2. QED
      BY <2>1, <3>1, Zenon
  <2>4. QED
    BY <2>2, <2>3 DEF InStep
<1>4. CASE pc' # "scan"
  BY <1>4 DEF InStep
<1>5. QED
  BY <1>1, <1>2, <1>3, <1>4 DEF Next, Mismatch, PathExhausted, SkipTrailing, Finish

LEMMA CompleteStep ==
  ASSUME TypeOK, TypeOK', Sound, InStep, Complete, Next
  PROVE  Complete'
<1> USE Typing DEF TypeOK, NoStar
<1>0. pat' = pat /\ seg' = seg
  BY DEF Next, RecordDeep, MatchSegment, Backtrack, Mismatch, PathExhausted,
         SkipTrailing, Finish
<1> SUFFICES ASSUME Matches(W, pat, seg)
             PROVE  /\ pc' = "scan" /\ starPx' = NoStar =>
                          SuffixMatches(W, pat, seg, px', sx')
                    /\ pc' = "scan" /\ starPx' # NoStar =>
                          \E n \in starSx'..Len(seg) :
                            SuffixMatches(W, pat, seg, starPx' + 1, n)
                    /\ pc' = "trail" => SuffixMatches(W, pat, seg, px', sx')
  BY <1>0 DEF Complete
<1>1. CASE RecordDeep
  <2>1. /\ pc = "scan" /\ pc' = "scan" /\ starPx' = px /\ starSx' = sx
        /\ px \in 0..(Len(pat)-1) /\ pat[px+1] = W.many
    BY <1>1 DEF RecordDeep, AtDeep, W, PathWildcards
  <2>2. PICK n \in sx..Len(seg) : SuffixMatches(W, pat, seg, px, n)
    <3>1. CASE starPx = NoStar
      BY <2>1, <3>1 DEF Complete
    <3>2. CASE starPx # NoStar
      <4>1. PICK m \in starSx..Len(seg) :
               SuffixMatches(W, pat, seg, starPx + 1, m)
        BY <2>1, <3>2 DEF Complete
      <4>2. /\ m + Lead <= Len(seg) /\ sx = starSx + Lead
            /\ SuffixMatches(W, pat, seg, px, m + Lead)
        BY <2>1, <3>2, <4>1 DEF InStep
      <4>3. starSx \in Nat /\ Len(seg) \in Nat /\ starPx \in Int
        BY <3>2
      <4>4. m \in Nat
        BY <4>1, <4>3
      <4>5. Lead \in Int
        BY <4>3 DEF Lead
      <4>6. m + Lead \in sx..Len(seg)
        BY <4>1, <4>2, <4>3, <4>4, <4>5
      <4>7. QED
        BY <4>2, <4>6
    <3>3. QED
      BY <3>1, <3>2
  <2>3. PICK p \in 0..Len(seg) : /\ Consumes(W, pat[px+1], seg, n, p)
                                 /\ SuffixMatches(W, pat, seg, px + 1, p)
    BY <2>1, <2>2, SuffixStep
  <2>4. p \in sx..Len(seg)
    BY <2>1, <2>3 DEF Consumes
  <2>5. starPx' # NoStar /\ pc' # "trail"
    BY <2>1
  <2>6. \E k \in starSx'..Len(seg) : SuffixMatches(W, pat, seg, starPx' + 1, k)
    BY <2>1, <2>3, <2>4
  <2>7. QED
    BY <2>5, <2>6
<1>2. CASE MatchSegment
  <2>1. /\ pc = "scan" /\ pc' = "scan" /\ px' = px + 1 /\ sx' = sx + 1
        /\ starPx' = starPx /\ starSx' = starSx
        /\ px \in 0..(Len(pat)-1) /\ pat[px+1] # W.many
    BY <1>2 DEF MatchSegment, AtDeep, AtMatch, W, PathWildcards
  <2>2. CASE starPx = NoStar
    <3>1. PICK p \in 0..Len(seg) : /\ Consumes(W, pat[px+1], seg, sx, p)
                                   /\ SuffixMatches(W, pat, seg, px + 1, p)
      BY <2>1, <2>2, SuffixStep DEF Complete
    <3>2. p = sx + 1
      BY <2>1, <3>1 DEF Consumes
    <3>3. QED
      BY <2>1, <2>2, <3>1, <3>2
  <2>3. CASE starPx # NoStar
    BY <2>1, <2>3 DEF Complete
  <2>4. QED
    BY <2>2, <2>3
<1>3. CASE Backtrack
  <2>1. /\ pc = "scan" /\ pc' = "scan" /\ starPx # NoStar
        /\ starPx' = starPx /\ starSx' = starSx + 1
        /\ sx < Len(seg) /\ ~AtDeep /\ ~AtMatch
    BY <1>3 DEF Backtrack
  <2>2. PICK n \in starSx..Len(seg) : SuffixMatches(W, pat, seg, starPx + 1, n)
    BY <2>1 DEF Complete
  <2>3. n # starSx
    <3> SUFFICES ASSUME n = starSx PROVE FALSE
      OBVIOUS
    <3>1. SuffixMatches(W, pat, seg, px, starSx + Lead) /\ sx = starSx + Lead
      BY <2>1, <2>2 DEF InStep
    <3>2. QED
      BY <2>1, <3>1, Stuck
  <2>4. n \in starSx'..Len(seg)
    <3>1. starSx \in Nat
      BY <2>1
    <3>2. QED
      BY <2>1, <2>3, <3>1
  <2>5. \E k \in starSx'..Len(seg) : SuffixMatches(W, pat, seg, starPx' + 1, k)
    BY <2>1, <2>2, <2>4
  <2>6. starPx' # NoStar /\ pc' # "trail"
    BY <2>1
  <2>7. QED
    BY <2>5, <2>6
<1>4. CASE Mismatch
  BY <1>4 DEF Mismatch
<1>5. CASE PathExhausted
  <2>1. pc = "scan" /\ pc' = "trail" /\ px' = px /\ sx' = sx /\ sx = Len(seg)
    BY <1>5 DEF PathExhausted
  <2>2. CASE starPx = NoStar
    BY <2>1, <2>2 DEF Complete
  <2>3. CASE starPx # NoStar
    <3>1. PICK n \in starSx..Len(seg) : SuffixMatches(W, pat, seg, starPx + 1, n)
      BY <2>1, <2>3 DEF Complete
    <3>2. /\ n + Lead <= Len(seg) /\ sx = starSx + Lead
          /\ SuffixMatches(W, pat, seg, px, n + Lead)
      BY <2>1, <2>3, <3>1 DEF InStep
    <3>3. n = starSx
      BY <2>1, <2>3, <3>1, <3>2 DEF Lead
    <3>4. QED
      BY <2>1, <3>2, <3>3
  <2>4. QED
    BY <2>2, <2>3
<1>6. CASE SkipTrailing
  <2>1. /\ pc = "trail" /\ pc' = "trail" /\ px' = px + 1 /\ sx' = sx
        /\ px \in 0..(Len(pat)-1) /\ pat[px+1] = W.many
    BY <1>6 DEF SkipTrailing, AtDeep, W, PathWildcards
  <2>2. sx = Len(seg)
    BY <2>1 DEF Sound
  <2>3. SuffixMatches(W, pat, seg, px, sx)
    BY <2>1 DEF Complete
  <2>4. PICK p \in 0..Len(seg) : /\ Consumes(W, pat[px+1], seg, sx, p)
                                 /\ SuffixMatches(W, pat, seg, px + 1, p)
    BY <2>1, <2>3, SuffixStep
  <2>5. p = sx /\ sx' = sx
    BY <2>1, <2>2, <2>4 DEF Consumes
  <2>6. QED
    BY <2>1, <2>4, <2>5
<1>7. CASE Finish
  BY <1>7 DEF Finish
<1>8. QED
  BY <1>1, <1>2, <1>3, <1>4, <1>5, <1>6, <1>7 DEF Next
-----------------------------------------------------------------------------
LEMMA InvInit == Init => IInv
<1> SUFFICES ASSUME Init PROVE IInv
  OBVIOUS
<1>1. TypeOK
  BY InitTypeOK
<1> USE <1>1, Typing
<1>2. Sound
  BY PrefixEmpty DEF Init, Sound
<1>3. InStep
  BY DEF Init, InStep
<1>4. Complete
  BY DEF Init, Complete, Matches
<1>5. ReturnsMatch
  BY DEF Init, ReturnsMatch
<1>6. QED
  BY <1>2, <1>3, <1>4, <1>5 DEF IInv

(* What the loop returns is what the invariant says about the end of it.   *)
LEMMA ReturnStep ==
  ASSUME TypeOK, Sound, InStep, Complete, ReturnsMatch, Next
  PROVE  ReturnsMatch'
<1> USE Typing DEF TypeOK, NoStar
<1>0. pat' = pat /\ seg' = seg
  BY DEF Next, RecordDeep, MatchSegment, Backtrack, Mismatch, PathExhausted,
         SkipTrailing, Finish
<1>1. CASE Mismatch
  <2>1. ~SuffixMatches(W, pat, seg, px, sx)
    BY <1>1, Stuck DEF Mismatch
  <2>2. ~Matches(W, pat, seg)
    BY <1>1, <2>1 DEF Mismatch, Complete
  <2>3. QED
    BY <1>0, <1>1, <2>2 DEF Mismatch, ReturnsMatch, MatchPath, W
<1>2. CASE Finish
  <2>1. sx = Len(seg) /\ PrefixMatches(W, pat, seg, px, sx)
    BY <1>2 DEF Finish, Sound
  <2>2. px = Len(pat) => Matches(W, pat, seg)
    BY <2>1, PrefixTotal
  <2>3. ASSUME px # Len(pat), Matches(W, pat, seg) PROVE FALSE
    <3>1. px \in 0..(Len(pat)-1) /\ pat[px+1] # W.many
      BY <1>2, <2>3 DEF Finish, AtDeep, W, PathWildcards
    <3>2. SuffixMatches(W, pat, seg, px, sx)
      BY <1>2, <2>3 DEF Finish, Complete
    <3>3. PICK p \in 0..Len(seg) : Consumes(W, pat[px+1], seg, sx, p)
      BY <3>1, <3>2, SuffixStep
    <3>4. QED
      BY <2>1, <3>1, <3>3 DEF Consumes
  <2>4. QED
    BY <1>0, <1>2, <2>2, <2>3 DEF Finish, ReturnsMatch, MatchPath, W
<1>3. CASE pc' # "done"
  BY <1>3 DEF ReturnsMatch
<1>4. QED
  BY <1>1, <1>2, <1>3 DEF Next, RecordDeep, MatchSegment, Backtrack,
                          PathExhausted, SkipTrailing

LEMMA InvNext == IInv /\ [Next]_vars => IInv'
<1> SUFFICES ASSUME IInv, [Next]_vars PROVE IInv'
  OBVIOUS
<1>1. TypeOK'
  BY StepTypeOK DEF IInv
<1>2. CASE Next
  BY <1>1, <1>2, SoundStep, InStepStep, CompleteStep, ReturnStep DEF IInv
<1>3. CASE UNCHANGED vars
  BY <1>1, <1>3 DEF IInv, vars, Sound, InStep, Lead, Complete, ReturnsMatch
<1>4. QED
  BY <1>2, <1>3

(* crn.matchPath returns true exactly for the paths its pattern denotes,   *)
(* whatever the number of "**" in it and whatever the segments contain.    *)
THEOREM MatchPathCorrect == Spec => []ReturnsMatch
<1>1. IInv => ReturnsMatch
  BY DEF IInv
<1>2. QED
  BY <1>1, InvInit, InvNext, PTL DEF Spec

(* Every iteration of crn.matchPath moves forward: to a later "**", to one *)
(* more segment for the same "**", or to the next token.                   *)
THEOREM MatchPathAdvances == Spec => Advances
<1>1. TypeOK /\ [Next]_vars =>
        [ \/ starPx' > starPx
          \/ starPx' = starPx /\ starSx' > starSx
          \/ starPx' = starPx /\ starSx' = starSx /\ px' > px
          \/ pc' # pc ]_vars
  BY DEF TypeOK, NoStar, Next, RecordDeep, MatchSegment, Backtrack, Mismatch,
         PathExhausted, SkipTrailing, Finish
<1>2. QED
  BY <1>1, TypeCorrect, PTL DEF Spec, Advances
-----------------------------------------------------------------------------
(* The strings of a path or of a key; the provers know of no literal that  *)
(* it is one.                                                              *)
Strings == STRING \cup {"", ":"}

LEMMA AreStrings ==
  ASSUME NEW r \in Seq(STRING)
  PROVE  r \in Seq(Strings)
<1>1. STRING \subseteq Strings
  BY DEF Strings
<1>2. r \in [1..Len(r) -> STRING] /\ Len(r) \in Nat
  OBVIOUS
<1>3. r \in [1..Len(r) -> Strings]
  BY <1>1, <1>2
<1> HIDE DEF Strings
<1> QED
  BY <1>2, <1>3

(* A name in normal form: nothing of it can be taken for another part of   *)
(* its text.                                                               *)
Normal(c) ==
  /\ c = Name(c.tenant, c.scope, c.service, c.region, c.type, c.resource)
  /\ c.tenant \in DOMAIN UuidOf /\ UuidOf[c.tenant] = c.tenant
  /\ \A f \in FlatFields \cup {"tenant"} : c[f] \notin DOMAIN PartsOf
  /\ c.resource \in Seq(Strings) \ {<<>>}
  /\ ~LeadingSlash(c.resource) /\ ~TrailingSlash(c.resource)

NormalName(n) == n = <<n[1]>> /\ Normal(n[1])

LEMMA Alone == \A x : <<x>>[1] = x /\ <<x>> # <<>>
OBVIOUS

(* strings.Trim leaves a path that neither begins nor ends with a slash.   *)
LEMMA Trimmed ==
  ASSUME NEW r \in Seq(Strings) \ {<<>>}
  PROVE  /\ TrimSlashes(r) \in Seq(Strings) \ {<<>>}
         /\ ~LeadingSlash(TrimSlashes(r)) /\ ~TrailingSlash(TrimSlashes(r))
<1> DEFINE filled == {k \in DOMAIN r : r[k] # ""}
<1>1. r \in Seq(Strings) /\ Len(r) \in Nat /\ DOMAIN r = 1..Len(r)
  OBVIOUS
<1>2. CASE filled = {}
  <2>1. TrimSlashes(r) = <<"">>
    BY <1>2 DEF TrimSlashes
  <2>2. \A x \in Strings : <<x>> \in Seq(Strings) \ {<<>>} /\ Len(<<x>>) = 1
    OBVIOUS
  <2>3. "" \in Strings
    BY DEF Strings
  <2>4. <<"">> \in Seq(Strings) \ {<<>>} /\ Len(<<"">>) = 1
    BY <2>2, <2>3
  <2>5. ASSUME NEW r1, Len(r1) = 1
        PROVE  ~LeadingSlash(r1) /\ ~TrailingSlash(r1)
    BY <2>5 DEF LeadingSlash, TrailingSlash
  <2> QED
    BY <2>1, <2>4, <2>5, Zenon
<1>3. CASE filled # {}
  <2> DEFINE lo == Min(filled)
             hi == Max(filled)
             t == SubSeq(r, lo, hi)
  <2>1. filled \subseteq 1..Len(r)
    BY <1>1
  <2>2. TrimSlashes(r) = t
    BY <1>3 DEF TrimSlashes
  <2>3. \A k \in filled : r[k] # ""
    OBVIOUS
  <2> HIDE DEF filled
  <2> filled \subseteq Nat
    BY <1>1, <2>1
  <2>4. hi \in filled /\ \A k \in filled : hi >= k
    BY <1>1, <1>3, <2>1, MaxIsLast
  <2>5. lo \in filled
    <3>1. PICK x \in filled : \A y \in filled : x <= y
      BY <1>3, <2>1, FirstPosition
    <3> QED
      BY <2>1, <3>1, MinIsFirst
  <2>6. lo \in 1..Len(r) /\ hi \in 1..Len(r) /\ lo <= hi
    BY <2>1, <2>4, <2>5, Zenon
  <2>7. r[lo] # "" /\ r[hi] # ""
    BY <2>3, <2>4, <2>5
  <2> HIDE DEF lo, hi
  <2>8. /\ t \in Seq(Strings) /\ Len(t) = hi - lo + 1
        /\ t[1] = r[lo] /\ t[hi - lo + 1] = r[hi]
    BY <1>1, <2>6
  <2> HIDE DEF t
  <2>9. hi - lo + 1 \in Nat \ {0}
    BY <2>6
  <2>10. t # <<>> /\ t[1] # "" /\ t[Len(t)] # ""
    BY <2>7, <2>8, <2>9
  <2>11. ~LeadingSlash(t) /\ ~TrailingSlash(t)
    BY <2>10 DEF LeadingSlash, TrailingSlash
  <2> QED
    BY <2>2, <2>8, <2>10, <2>11
<1> QED
  BY <1>2, <1>3

(* What normalizeTenant accepts of a name is a canonical tenant.           *)
LEMMA CanonicalTenant ==
  ASSUME NEW t, NormalizeTenant(t, FALSE) # Rejected
  PROVE  LET u == NormalizeTenant(t, FALSE)[1] IN
           /\ u \in DOMAIN UuidOf /\ UuidOf[u] = u /\ u \notin DOMAIN PartsOf
<1>1. t # PlatformTenant /\ t \in DOMAIN UuidOf
  BY DEF NormalizeTenant
<1>2. NormalizeTenant(t, FALSE) = <<UuidOf[t]>>
  BY <1>1 DEF NormalizeTenant, Accepted
<1> DEFINE u == UuidOf[t]
<1> HIDE DEF u
<1>3. <<u>>[1] = u
  OBVIOUS
<1>4. NormalizeTenant(t, FALSE)[1] = u
  BY <1>2, <1>3 DEF u
<1> QED
  BY <1>1, <1>4, UuidAssumption DEF u

(* The fields of a name.                                                   *)
LEMMA NameParts ==
  ASSUME NEW a1, NEW a2, NEW a3, NEW a4, NEW a5, NEW a6
  PROVE  LET c == Name(a1, a2, a3, a4, a5, a6) IN
           /\ c.tenant = a1 /\ c.scope = a2 /\ c.service = a3
           /\ c.region = a4 /\ c.type = a5 /\ c.resource = a6
BY DEF Name

LEMMA NameIsNormal ==
  ASSUME NEW a1, NEW a2, NEW a3, NEW a4, NEW a5, NEW a6,
         a1 \in DOMAIN UuidOf, UuidOf[a1] = a1,
         {a1, a2, a3, a4, a5} \cap DOMAIN PartsOf = {},
         a6 \in Seq(Strings) \ {<<>>}, ~LeadingSlash(a6), ~TrailingSlash(a6)
  PROVE  Normal(Name(a1, a2, a3, a4, a5, a6))
<1> DEFINE c == Name(a1, a2, a3, a4, a5, a6)
<1>1. /\ c.tenant = a1 /\ c.scope = a2 /\ c.service = a3
      /\ c.region = a4 /\ c.type = a5 /\ c.resource = a6
  BY NameParts
<1>2. c = Name(c.tenant, c.scope, c.service, c.region, c.type, c.resource)
  BY <1>1
<1> HIDE DEF c
<1>3. \A f \in FlatFields \cup {"tenant"} : c[f] \notin DOMAIN PartsOf
  BY <1>1 DEF FlatFields
<1>4. Normal(c)
  BY <1>1, <1>2, <1>3 DEF Normal
<1> QED
  BY <1>4 DEF c

(* Build and Parse return names in normal form, or an error.               *)
LEMMA BuildIsNormal ==
  ASSUME NEW a \in BuildArgs,
         NEW n, n = Build(a.tenant, a.scope, a.service, a.region, a.type, a.resource),
         n # <<>>
  PROVE  NormalName(n)
<1> DEFINE t == NormalizeTenant(a.tenant, FALSE)
           r == TrimSlashes(a.resource)
           c == Name(t[1], a.scope, a.service, a.region, a.type, r)
<1>1. /\ t # Rejected
      /\ {a.scope, a.service, a.region, a.type} \cap DOMAIN PartsOf = {}
      /\ n = <<c>>
  BY DEF Build, Rejected, Accepted
<1>2. t[1] \in DOMAIN UuidOf /\ UuidOf[t[1]] = t[1] /\ t[1] \notin DOMAIN PartsOf
  BY <1>1, CanonicalTenant
<1>3. r \in Seq(Strings) \ {<<>>} /\ ~LeadingSlash(r) /\ ~TrailingSlash(r)
  BY TextAssumption, AreStrings, Trimmed
<1> HIDE DEF t, r
<1>4. Normal(c)
  BY <1>1, <1>2, <1>3, NameIsNormal
<1> HIDE DEF c
<1> QED
  BY <1>1, <1>4, Alone, Zenon DEF NormalName

LEMMA ParseIsNormal ==
  ASSUME NEW t \in Texts, Parse(t) # <<>>
  PROVE  NormalName(Parse(t))
<1> DEFINE u == NormalizeTenant(t[2], FALSE)
           c == Name(u[1], t[3], t[4], t[5], t[6], t[7])
<1>1. /\ Len(t) = 7 /\ u # Rejected
      /\ ~LeadingSlash(t[7]) /\ ~TrailingSlash(t[7])
      /\ Parse(t) = <<c>>
  BY DEF Parse, ParseAs, Rejected, Accepted
<1>2. u[1] \in DOMAIN UuidOf /\ UuidOf[u[1]] = u[1] /\ u[1] \notin DOMAIN PartsOf
  BY <1>1, CanonicalTenant
<1>3. /\ {t[3], t[4], t[5], t[6]} \cap DOMAIN PartsOf = {}
      /\ t[7] \in Seq(Strings) \ {<<>>}
  BY <1>1, TextAssumption, AreStrings
<1> HIDE DEF u
<1>4. Normal(c)
  BY <1>1, <1>2, <1>3, NameIsNormal
<1> HIDE DEF c
<1> QED
  BY <1>1, <1>4, Alone, Zenon DEF NormalName
-----------------------------------------------------------------------------
(* The text of a name in normal form has its seven parts in their places.  *)
LEMMA TextOfNormal ==
  ASSUME NEW c, Normal(c)
  PROVE  LET t == String(c) IN
           /\ Len(t) = 7 /\ t[1] = "crn" /\ t[2] = c.tenant /\ t[3] = c.scope
           /\ t[4] = c.service /\ t[5] = c.region /\ t[6] = c.type
           /\ t[7] = c.resource
<1> DEFINE T == {"crn", c.tenant, c.scope, c.service, c.region, c.type, c.resource}
           s1 == <<"crn">>
           s2 == s1 \o <<c.tenant>>
           s3 == s2 \o <<c.scope>>
           s4 == s3 \o <<c.service>>
           s5 == s4 \o <<c.region>>
           s6 == s5 \o <<c.type>>
           s7 == s6 \o <<c.resource>>
<1>1. /\ Parts(c.tenant) = <<c.tenant>> /\ Parts(c.scope) = <<c.scope>>
      /\ Parts(c.service) = <<c.service>> /\ Parts(c.region) = <<c.region>>
      /\ Parts(c.type) = <<c.type>>
  BY DEF Normal, Parts, FlatFields
<1>2. String(c) = SubSeq(s6, 1, 6) \o <<SubSeq(s6, 7, Len(s6)) \o c.resource>>
  BY <1>1, Zenon DEF String
<1>3. /\ c.tenant \in T /\ c.scope \in T /\ c.service \in T
      /\ c.region \in T /\ c.type \in T /\ c.resource \in T
  OBVIOUS
<1>4. s1 \in Seq(T) /\ Len(s1) = 1 /\ s1[1] = "crn"
  <2>1. "crn" \in T
    OBVIOUS
  <2> HIDE DEF T
  <2> QED
    BY <2>1
<1> HIDE DEF T, s1
<1>5. /\ s2 \in Seq(T) /\ Len(s2) = 2 /\ s2[2] = c.tenant
      /\ \A k \in 1..1 : s2[k] = s1[k]
  <2>1. Follows(s2, T, s1, c.tenant)
    BY <1>3, <1>4, AtTheEnd, Zenon DEF s2
  <2> HIDE DEF s2
  <2> QED
    BY <1>4, <2>1 DEF Follows
<1> HIDE DEF s2
<1>6. /\ s3 \in Seq(T) /\ Len(s3) = 3 /\ s3[3] = c.scope
      /\ \A k \in 1..2 : s3[k] = s2[k]
  <2>1. Follows(s3, T, s2, c.scope)
    BY <1>3, <1>5, AtTheEnd, Zenon DEF s3
  <2> HIDE DEF s3
  <2> QED
    BY <1>5, <2>1 DEF Follows
<1> HIDE DEF s3
<1>7. /\ s4 \in Seq(T) /\ Len(s4) = 4 /\ s4[4] = c.service
      /\ \A k \in 1..3 : s4[k] = s3[k]
  <2>1. Follows(s4, T, s3, c.service)
    BY <1>3, <1>6, AtTheEnd, Zenon DEF s4
  <2> HIDE DEF s4
  <2> QED
    BY <1>6, <2>1 DEF Follows
<1> HIDE DEF s4
<1>8. /\ s5 \in Seq(T) /\ Len(s5) = 5 /\ s5[5] = c.region
      /\ \A k \in 1..4 : s5[k] = s4[k]
  <2>1. Follows(s5, T, s4, c.region)
    BY <1>3, <1>7, AtTheEnd, Zenon DEF s5
  <2> HIDE DEF s5
  <2> QED
    BY <1>7, <2>1 DEF Follows
<1> HIDE DEF s5
<1>9. /\ s6 \in Seq(T) /\ Len(s6) = 6 /\ s6[6] = c.type
      /\ \A k \in 1..5 : s6[k] = s5[k]
  <2>1. Follows(s6, T, s5, c.type)
    BY <1>3, <1>8, AtTheEnd, Zenon DEF s6
  <2> HIDE DEF s6
  <2> QED
    BY <1>8, <2>1 DEF Follows
<1> HIDE DEF s6
<1>10. /\ s7 \in Seq(T) /\ Len(s7) = 7 /\ s7[7] = c.resource
      /\ \A k \in 1..6 : s7[k] = s6[k]
  <2>1. Follows(s7, T, s6, c.resource)
    BY <1>3, <1>9, AtTheEnd, Zenon DEF s7
  <2> HIDE DEF s7
  <2> QED
    BY <1>9, <2>1 DEF Follows
<1>11. SubSeq(s6, 1, 6) = s6 /\ SubSeq(s6, 7, Len(s6)) = <<>>
  BY <1>9, WholeSequence
<1>12. <<>> \o c.resource = c.resource
  BY DEF Normal
<1>13. String(c) = s7
  BY <1>2, <1>11, <1>12, Zenon DEF s7
<1> HIDE DEF s7
<1>14. /\ s7[1] = "crn" /\ s7[2] = c.tenant /\ s7[3] = c.scope
       /\ s7[4] = c.service /\ s7[5] = c.region /\ s7[6] = c.type
  BY <1>4, <1>5, <1>6, <1>7, <1>8, <1>9, <1>10
<1> QED
  BY <1>10, <1>13, <1>14

(* Read again, it is the name it was, as a name and as a pattern.          *)
LEMMA ReadsBack ==
  ASSUME NEW c, Normal(c)
  PROVE  /\ Parse(String(c)) = <<c>>
         /\ ParsePattern(String(c)) # <<>> => ParsePattern(String(c)) = <<c>>
<1> DEFINE t == String(c)
<1>1. /\ Len(t) = 7 /\ t[1] = "crn" /\ t[2] = c.tenant /\ t[3] = c.scope
      /\ t[4] = c.service /\ t[5] = c.region /\ t[6] = c.type
      /\ t[7] = c.resource
  BY TextOfNormal
<1> HIDE DEF t
<1>2. ASSUME NEW allowToken
      PROVE  NormalizeTenant(c.tenant, allowToken) = <<c.tenant>>
  <2>1. c.tenant \in DOMAIN UuidOf /\ UuidOf[c.tenant] = c.tenant
    BY DEF Normal
  <2>2. c.tenant # PlatformTenant
    BY <2>1, UuidAssumption
  <2> QED
    BY <2>1, <2>2 DEF NormalizeTenant, Accepted
<1>3. \A x : <<x>> # <<>> /\ <<x>>[1] = x
  OBVIOUS
<1>4. ASSUME NEW allowToken
      PROVE  ParseAs(t, allowToken) = <<c>>
  <2>1. /\ NormalizeTenant(t[2], allowToken) # Rejected
        /\ NormalizeTenant(t[2], allowToken)[1] = c.tenant
    BY <1>1, <1>2, <1>3 DEF Rejected
  <2>2. ~LeadingSlash(t[7]) /\ ~TrailingSlash(t[7])
    BY <1>1 DEF Normal
  <2>3. c = Name(c.tenant, c.scope, c.service, c.region, c.type, c.resource)
    BY DEF Normal
  <2> QED
    BY <1>1, <2>1, <2>2, <2>3 DEF ParseAs, Accepted
<1> QED
  BY <1>4 DEF t, Parse, ParsePattern, Rejected

(* Read as a pattern, a path selects itself, whatever wildcards it holds:  *)
(* each token accounts for the segment it is.                              *)
LEMMA PathSelectsItself ==
  ASSUME NEW S, NEW r \in Seq(S)
  PROVE  MatchPath(r, r)
<1> DEFINE a == [k \in 0..Len(r) |-> k]
<1>1. Len(r) \in Nat
  OBVIOUS
<1>2. a \in [0..Len(r) -> 0..Len(r)] /\ a[0] = 0 /\ a[Len(r)] = Len(r)
  BY <1>1
<1>3. ASSUME NEW k \in 1..Len(r)
      PROVE  Consumes(PathWildcards, r[k], r, a[k-1], a[k])
  <2>1. a[k-1] = k - 1 /\ a[k] = k /\ k = (k - 1) + 1 /\ k - 1 <= k
    BY <1>1
  <2> QED
    BY <2>1 DEF Consumes
<1> HIDE DEF a
<1>4. \A k \in (0+1)..Len(r) : Consumes(PathWildcards, r[k], r, a[k-1], a[k])
  BY <1>3
<1>5. SuffixMatches(PathWildcards, r, r, 0, 0)
  BY <1>2, <1>4 DEF SuffixMatches
<1> QED
  BY <1>5 DEF MatchPath, Matches

LEMMA SelectsItself ==
  ASSUME NEW c, Normal(c)
  PROVE  PatternMatches(c, c, c.tenant)
<1>1. MatchPath(c.resource, c.resource)
  BY PathSelectsItself DEF Normal
<1>2. MatchTenant(c.tenant, c.tenant, c.tenant)
  BY DEF MatchTenant
<1>3. \A f \in FlatFields : MatchField(c[f], c[f])
  BY DEF MatchField
<1> QED
  BY <1>1, <1>2, <1>3 DEF PatternMatches
-----------------------------------------------------------------------------
(* The least position, as the instance has it.                             *)
LEMMA KeysMin == \A S : Keys!Min(S) = Min(S)
BY DEF Keys!Min, Min

(* A key in normal form: its namespace is made of words, so the first      *)
(* colon of its text ends it.                                              *)
NormalKey(k) ==
  /\ k = [service |-> k.service, name |-> k.name]
  /\ k.service \in Seq(Strings) \ {<<>>} /\ k.name \in Seq(Strings) \ {<<>>}
  /\ \A n \in 1..Len(k.service) : k.service[n] \in Words

LEMMA ValidatedIsNormal ==
  ASSUME NEW service \in Seq(Strings), NEW local \in Seq(Strings),
         Keys!Validated(service, local) # <<>>
  PROVE  \E k : /\ NormalKey(k) /\ Keys!Validated(service, local) = <<k>>
                /\ k.service = service /\ k.name = local
<1> DEFINE k == [service |-> service, name |-> local]
<1>1. /\ service # <<>> /\ Keys!ValidService(service) /\ local # <<>>
      /\ Keys!Validated(service, local) = <<k>>
  BY DEF Keys!Validated
<1>2. \A n \in 1..Len(service) : service[n] \in Words
  BY <1>1 DEF Keys!ValidService, Keys!Range
<1>3. k.service = service /\ k.name = local
  OBVIOUS
<1>4. k = [service |-> k.service, name |-> k.name]
  BY <1>3
<1> HIDE DEF k
<1>5. NormalKey(k)
  BY <1>1, <1>2, <1>3, <1>4 DEF NormalKey
<1> QED
  BY <1>1, <1>3, <1>5

LEMMA NormalIsValidated ==
  ASSUME NEW k, NormalKey(k)
  PROVE  Keys!Validated(k.service, k.name) = <<k>>
<1>1. Keys!ValidService(k.service)
  BY DEF NormalKey, Keys!ValidService, Keys!Range
<1> QED
  BY <1>1 DEF NormalKey, Keys!Validated

(* Where the text of a key is cut.                                         *)
LEMMA KeyText ==
  ASSUME NEW k, NormalKey(k)
  PROVE  /\ Keys!String(k) \in Seq(Strings)
         /\ Len(Keys!String(k)) = Len(k.service) + 1 + Len(k.name)
         /\ \A n \in 1..Len(k.service) : Keys!String(k)[n] = k.service[n]
         /\ Keys!String(k)[Len(k.service) + 1] = ":"
         /\ SubSeq(Keys!String(k), 1, Len(k.service)) = k.service
         /\ SubSeq(Keys!String(k), Len(k.service) + 2, Len(Keys!String(k))) = k.name
<1>1. k.service \in Seq(Strings) /\ k.name \in Seq(Strings) /\ ":" \in Strings
  BY DEF NormalKey, Strings
<1>2. Keys!String(k) = k.service \o <<":">> \o k.name
  BY DEF Keys!String
<1> DEFINE a == k.service
           b == k.name
           t == Keys!String(k)
<1> HIDE DEF a, b, t
<1>3. /\ t \in Seq(Strings) /\ Len(t) = Len(a) + 1 + Len(b)
      /\ \A n \in 1..Len(a) : t[n] = a[n]
      /\ t[Len(a) + 1] = ":"
      /\ SubSeq(t, 1, Len(a)) = a
      /\ SubSeq(t, Len(a) + 2, Len(t)) = b
  <2>1. a \in Seq(Strings) /\ b \in Seq(Strings) /\ t = a \o <<":">> \o b
    BY <1>1, <1>2, Zenon DEF a, b, t
  <2> QED
    BY <1>1, <2>1, CutAtSymbol
<1> QED
  BY <1>3, Zenon DEF a, b, t

LEMMA KeyReadsBack ==
  ASSUME NEW k, NormalKey(k)
  PROVE  Keys!Parse(Keys!String(k)) = <<k>>
<1> DEFINE t == Keys!String(k)
           p == Len(k.service) + 1
           colons == {n \in DOMAIN t : t[n] = ":"}
<1>1. Len(k.service) \in Nat /\ Len(k.name) \in Nat
  BY DEF NormalKey
<1>2. /\ \A n \in 1..Len(k.service) : t[n] = k.service[n]
      /\ t[p] = ":"
      /\ SubSeq(t, 1, Len(k.service)) = k.service
      /\ SubSeq(t, Len(k.service) + 2, Len(t)) = k.name
  BY KeyText, Zenon
<1>3. t \in Seq(Strings) /\ Len(t) = Len(k.service) + 1 + Len(k.name)
  BY KeyText, Zenon
<1>4. Keys!Parse(t) = IF colons = {} THEN <<>>
        ELSE Keys!Validated(SubSeq(t, 1, Min(colons) - 1),
                            SubSeq(t, Min(colons) + 1, Len(t)))
  BY KeysMin, Zenon DEF Keys!Parse
<1> HIDE DEF t
<1>5. \A n \in 1..Len(k.service) : t[n] # ":"
  BY <1>2, SymbolAssumption DEF NormalKey
<1>6. DOMAIN t = 1..Len(t) /\ Len(t) \in Nat
  <2>1. t \in Seq(Strings)
    BY <1>3
  <2> QED
    BY <2>1
<1>7. p \in 1..Len(t)
  <2>1. \A x, y, z \in Nat : z = x + 1 + y => x + 1 \in 1..z
    OBVIOUS
  <2> QED
    BY <1>1, <1>3, <1>6, <2>1
<1>8. p \in colons /\ colons \subseteq 1..Len(t)
  BY <1>2, <1>6, <1>7
<1>9. \A q \in 1..(p-1) : q \notin colons
  BY <1>1, <1>5
<1> HIDE DEF colons
<1>10. Min(colons) = p /\ colons # {}
  BY <1>6, <1>8, <1>9, FirstIn
<1>11. p - 1 = Len(k.service) /\ p + 1 = Len(k.service) + 2
  BY <1>1
<1> HIDE DEF p
<1>12. Keys!Parse(t) = Keys!Validated(k.service, k.name)
  BY <1>2, <1>4, <1>10, <1>11
<1> QED
  BY <1>12, NormalIsValidated DEF t

(* What parses is written as it was.                                       *)
LEMMA ParsedKey ==
  ASSUME NEW t \in Seq(Strings), Keys!Parse(t) # <<>>
  PROVE  \E k : NormalKey(k) /\ Keys!Parse(t) = <<k>> /\ Keys!String(k) = t
<1> DEFINE colons == {n \in DOMAIN t : t[n] = ":"}
           m == Min(colons)
           a == SubSeq(t, 1, m - 1)
           b == SubSeq(t, m + 1, Len(t))
<1>1. colons # {} /\ Keys!Parse(t) = Keys!Validated(a, b)
  <2>1. Keys!Parse(t) = IF colons = {} THEN <<>> ELSE Keys!Validated(a, b)
    BY KeysMin, Zenon DEF Keys!Parse
  <2> HIDE DEF colons, a, b
  <2> QED
    BY <2>1
<1>2. /\ Len(t) \in Nat /\ DOMAIN t = 1..Len(t)
      /\ \A n \in colons : n \in 1..Len(t) /\ t[n] = ":"
  OBVIOUS
<1>3. colons \subseteq Nat
  BY <1>2
<1> HIDE DEF colons
<1>4. m \in colons
  <2>1. PICK x \in colons : \A y \in colons : x <= y
    BY <1>1, <1>3, FirstPosition
  <2> QED
    BY <1>3, <2>1, MinIsFirst
<1>5. m \in 1..Len(t) /\ t[m] = ":"
  BY <1>2, <1>4
<1> HIDE DEF m
<1>6. a \o <<":">> \o b = t
  BY <1>5, JoinedAtSymbol
<1>7. a \in Seq(Strings) /\ b \in Seq(Strings)
  BY <1>5
<1> HIDE DEF a, b
<1>8. PICK k : /\ NormalKey(k) /\ Keys!Validated(a, b) = <<k>>
               /\ k.service = a /\ k.name = b
  BY <1>1, <1>7, ValidatedIsNormal
<1>9. Keys!String(k) = t
  BY <1>6, <1>8 DEF Keys!String
<1> QED
  BY <1>1, <1>8, <1>9

LEMMA KeyCompiles ==
  ASSUME NEW k, NormalKey(k)
  PROVE  Keys!Compiles(Keys!String(k)) /\ ~Keys!Reserved(Keys!String(k))
<1> DEFINE t == Keys!String(k)
           n == Len(k.service)
<1>1. /\ n \in Nat \ {0} /\ Len(k.name) \in Nat
      /\ \A m \in 1..n : k.service[m] \in Words
  BY DEF NormalKey
<1>2. /\ \A m \in 1..n : t[m] = k.service[m]
      /\ t[n + 1] = ":"
  BY KeyText, Zenon
<1>3. t \in Seq(Strings) /\ Len(t) = n + 1 + Len(k.name)
  BY KeyText, Zenon
<1>4. Keys!Parse(t) = <<k>>
  BY KeyReadsBack
<1> HIDE DEF t, n
<1>5. t[2] # "."
  <2>1. CASE n = 1
    BY <1>2, <2>1
  <2>2. CASE n # 1
    <3>1. 2 \in 1..n
      BY <1>1, <2>2
    <3> QED
      BY <1>1, <1>2, <3>1, SymbolAssumption
  <2> QED
    BY <2>1, <2>2
<1>6. ~Keys!Reserved(t)
  <2>1. SUFFICES ASSUME Keys!Reserved(t)
                 PROVE  FALSE
    OBVIOUS
  <2> DEFINE r == <<"resource", ".">>
  <2>2. r \in Seq({"resource", "."}) /\ Len(r) = 2 /\ r[2] = "."
    OBVIOUS
  <2>3. Len(r) <= Len(t) /\ SubSeq(r, 1, Len(r)) = SubSeq(t, 1, Len(r))
    BY <2>1 DEF Keys!Reserved, Keys!IsPrefix
  <2> HIDE DEF r
  <2>4. SubSeq(r, 1, 2)[2] = r[2] /\ SubSeq(t, 1, 2)[2] = t[2]
    BY <1>3, <2>2, <2>3
  <2> QED
    BY <1>5, <2>2, <2>3, <2>4
<1>7. t # <<>>
  <2> DEFINE l == Len(k.name)
  <2>1. l \in Nat /\ Len(t) = n + 1 + l
    BY <1>1, <1>3
  <2> HIDE DEF l
  <2>2. Len(t) # 0
    BY <1>1, <2>1
  <2> QED
    BY <2>2
<1>8. Keys!Parse(t) # <<>>
  BY <1>4
<1>9. Keys!Compiles(t)
  BY <1>6, <1>7, <1>8 DEF Keys!Compiles
<1> QED
  BY <1>6, <1>9 DEF t
-----------------------------------------------------------------------------
(* The name in hand is in normal form, the stored text is that of the name *)
(* remembered, and the pattern is what is read of the text.                *)
NamesKept ==
  /\ name # <<>> => NormalName(name)
  /\ text # <<>> => NormalName(origin) /\ text = <<String(origin[1])>>
  /\ pattern # <<>> => text # <<>> /\ pattern = ParsePattern(text[1])

(* The same for keys; a key that was parsed still has the text it was      *)
(* parsed from.                                                            *)
NormalKeyIn(k) == k = <<k[1]>> /\ NormalKey(k[1])

KeysKept ==
  /\ key # <<>> => NormalKeyIn(key)
  /\ key # <<>> /\ keyText = <<>> /\ source # <<>> =>
       source = <<Keys!String(key[1])>>
  /\ keyText # <<>> => NormalKeyIn(keyOrigin) /\ keyText = <<Keys!String(keyOrigin[1])>>
  /\ keyText # <<>> /\ source # <<>> => source = keyText

IdInv == NamesKept /\ KeysKept

LEMMA InitKept == IdInit => IdInv
BY DEF IdInit, NameInit, Keys!Init, IdInv, NamesKept, KeysKept

LEMMA NamesKeptStep ==
  ASSUME NamesKept, [NameNext]_nameVars
  PROVE  NamesKept'
<1>1. CASE BuildName
  <2>1. /\ name = <<>> /\ text = <<>>
        /\ text' = text /\ pattern' = pattern /\ origin' = origin
    BY <1>1 DEF BuildName, Empty
  <2>2. PICK a \in BuildArgs :
          name' = Build(a.tenant, a.scope, a.service, a.region, a.type, a.resource)
    BY <1>1 DEF BuildName
  <2>3. name' # <<>> => NormalName(name')
    BY <2>2, BuildIsNormal
  <2> QED
    BY <2>1, <2>3 DEF NamesKept
<1>2. CASE ParseName
  <2>1. /\ name = <<>> /\ text = <<>>
        /\ text' = text /\ pattern' = pattern /\ origin' = origin
    BY <1>2 DEF ParseName, Empty
  <2>2. PICK t \in Texts : name' = Parse(t)
    BY <1>2 DEF ParseName
  <2>3. name' # <<>> => NormalName(name')
    BY <2>2, ParseIsNormal
  <2> QED
    BY <2>1, <2>3 DEF NamesKept
<1>3. CASE Store
  <2>1. /\ name # <<>> /\ text = <<>> /\ text' = <<String(name[1])>>
        /\ origin' = name /\ name' = <<>> /\ pattern' = pattern
    BY <1>3 DEF Store, Accepted
  <2>2. NormalName(name) /\ pattern = <<>>
    BY <2>1 DEF NamesKept
  <2> QED
    BY <2>1, <2>2 DEF NamesKept
<1>4. CASE Load
  <2>1. /\ text # <<>> /\ name' = Parse(text[1])
        /\ text' = text /\ pattern' = pattern /\ origin' = origin
    BY <1>4 DEF Load
  <2>2. NormalName(origin) /\ text = <<String(origin[1])>>
    BY <2>1 DEF NamesKept
  <2>3. name' = <<origin[1]>>
    BY <2>1, <2>2, Alone, ReadsBack DEF NormalName
  <2>4. name' = origin
    BY <2>2, <2>3, Zenon DEF NormalName
  <2> QED
    BY <2>1, <2>2, <2>4 DEF NamesKept
<1>5. CASE LoadPattern
  <2>1. /\ text # <<>> /\ pattern' = ParsePattern(text[1])
        /\ name' = name /\ text' = text /\ origin' = origin
    BY <1>5 DEF LoadPattern
  <2> QED
    BY <2>1 DEF NamesKept
<1>6. CASE Forget
  BY <1>6 DEF Forget, NamesKept
<1>7. CASE UNCHANGED nameVars
  BY <1>7 DEF nameVars, NamesKept
<1> QED
  BY <1>1, <1>2, <1>3, <1>4, <1>5, <1>6, <1>7 DEF NameNext

LEMMA KeysKeptStep ==
  ASSUME KeysKept, Keys!Next \/ UNCHANGED keyVars
  PROVE  KeysKept'
<1>1. CASE Keys!BuildKey
  <2>1. /\ key = <<>> /\ keyText = <<>> /\ source' = <<>>
        /\ keyText' = keyText /\ keyOrigin' = keyOrigin
    BY <1>1 DEF Keys!BuildKey, Keys!Empty
  <2>2. PICK service, local \in KeyTexts : key' = Keys!Validated(service, local)
    BY <1>1 DEF Keys!BuildKey, Keys!Build
  <2>3. service \in Seq(Strings) /\ local \in Seq(Strings)
    BY SymbolAssumption, AreStrings
  <2>4. key' # <<>> => NormalKeyIn(key')
    BY <2>2, <2>3, ValidatedIsNormal, Alone DEF NormalKeyIn
  <2> QED
    BY <2>1, <2>4 DEF KeysKept
<1>2. CASE Keys!ParseKey
  <2>1. /\ key = <<>> /\ keyText = <<>>
        /\ keyText' = keyText /\ keyOrigin' = keyOrigin
    BY <1>2 DEF Keys!ParseKey, Keys!Empty
  <2>2. PICK t \in KeyTexts : /\ key' = Keys!Parse(t)
                              /\ source' = IF key' = <<>> THEN <<>> ELSE <<t>>
    BY <1>2 DEF Keys!ParseKey
  <2>3. t \in Seq(Strings)
    BY SymbolAssumption, AreStrings
  <2>4. ASSUME key' # <<>>
        PROVE  NormalKeyIn(key') /\ source' = <<Keys!String(key'[1])>>
    <3>1. PICK k : NormalKey(k) /\ Keys!Parse(t) = <<k>> /\ Keys!String(k) = t
      BY <2>2, <2>3, <2>4, ParsedKey
    <3>2. key' = <<k>> /\ key'[1] = k
      BY <2>2, <3>1, Alone
    <3>3. source' = <<t>>
      BY <2>2, <2>4
    <3> QED
      BY <3>1, <3>2, <3>3, Zenon DEF NormalKeyIn
  <2> QED
    BY <2>1, <2>4 DEF KeysKept
<1>3. CASE Keys!Write
  <2>1. /\ key # <<>> /\ keyText = <<>> /\ keyText' = <<Keys!String(key[1])>>
        /\ keyOrigin' = key /\ key' = <<>> /\ source' = source
    BY <1>3 DEF Keys!Write
  <2>2. /\ NormalKeyIn(key)
        /\ source # <<>> => source = <<Keys!String(key[1])>>
    BY <2>1 DEF KeysKept
  <2> QED
    BY <2>1, <2>2 DEF KeysKept
<1>4. CASE Keys!Load
  <2>1. /\ keyText # <<>> /\ key' = Keys!Parse(keyText[1])
        /\ keyText' = keyText /\ source' = source /\ keyOrigin' = keyOrigin
    BY <1>4 DEF Keys!Load
  <2>2. NormalKeyIn(keyOrigin) /\ keyText = <<Keys!String(keyOrigin[1])>>
    BY <2>1 DEF KeysKept
  <2>3. key' = <<keyOrigin[1]>>
    BY <2>1, <2>2, Alone, KeyReadsBack DEF NormalKeyIn
  <2>4. key' = keyOrigin
    BY <2>2, <2>3, Zenon DEF NormalKeyIn
  <2> QED
    BY <2>1, <2>2, <2>4 DEF KeysKept
<1>5. CASE Keys!Forget
  BY <1>5 DEF Keys!Forget, KeysKept
<1>6. CASE UNCHANGED keyVars
  BY <1>6 DEF keyVars, KeysKept
<1> QED
  BY <1>1, <1>2, <1>3, <1>4, <1>5, <1>6 DEF Keys!Next

(* What a service holds, stores and reads back is in normal form.          *)
LEMMA Kept == IdSpec => []IdInv
<1>1. IdInv /\ [IdNext]_<<nameVars, keyVars>> => IdInv'
  <2> SUFFICES ASSUME IdInv, [IdNext]_<<nameVars, keyVars>>
               PROVE  IdInv'
    OBVIOUS
  <2>1. [NameNext]_nameVars /\ (Keys!Next \/ UNCHANGED keyVars)
    BY DEF IdNext, NameStep, KeyStep
  <2> QED
    BY <2>1, NamesKeptStep, KeysKeptStep DEF IdInv
<1> QED
  BY <1>1, InitKept, PTL DEF IdSpec

(* Whatever crn.Parse or crn.Build returns parses again from its text, to  *)
(* the very same name.                                                     *)
THEOREM NamesRoundTrip == IdSpec => []RoundTrip
<1>1. IdInv => RoundTrip
  <2> SUFFICES ASSUME IdInv, text # <<>>
               PROVE  Parse(text[1]) = origin
    BY DEF RoundTrip
  <2>1. origin = <<origin[1]>> /\ Normal(origin[1]) /\ text = <<String(origin[1])>>
    BY DEF IdInv, NamesKept, NormalName
  <2>2. text[1] = String(origin[1])
    BY <2>1, Alone
  <2> QED
    BY <2>1, <2>2, ReadsBack, Zenon
<1> QED
  BY <1>1, Kept, PTL

(* The text of a name, read as a pattern by crn.ParsePattern, selects that *)
(* name in Pattern.Matches for whoever asks.                               *)
THEOREM NamesSelectThemselves == IdSpec => []NameSelectsItself
<1>1. IdInv => NameSelectsItself
  <2> SUFFICES ASSUME IdInv, pattern # <<>>
               PROVE  PatternMatches(pattern[1], origin[1], origin[1].tenant)
    BY DEF NameSelectsItself
  <2>1. /\ Normal(origin[1]) /\ text = <<String(origin[1])>>
        /\ pattern = ParsePattern(text[1])
    BY DEF IdInv, NamesKept, NormalName
  <2>2. text[1] = String(origin[1])
    BY <2>1, Alone
  <2>3. pattern = <<origin[1]>>
    BY <2>1, <2>2, ReadsBack
  <2>4. pattern[1] = origin[1]
    BY <2>3, Alone
  <2> QED
    BY <2>1, <2>4, SelectsItself, Zenon
<1> QED
  BY <1>1, Kept, PTL

(* A key of conditionkey parses from its text to itself, whatever colons   *)
(* its name holds.                                                         *)
THEOREM KeysRoundTrip == IdSpec => []KeyRoundTrip
<1>1. IdInv => KeyRoundTrip
  <2> SUFFICES ASSUME IdInv, keyText # <<>>
               PROVE  Keys!Parse(keyText[1]) = keyOrigin
    BY DEF KeyRoundTrip, Keys!RoundTrip
  <2>1. /\ keyOrigin = <<keyOrigin[1]>> /\ NormalKey(keyOrigin[1])
        /\ keyText = <<Keys!String(keyOrigin[1])>>
    BY DEF IdInv, KeysKept, NormalKeyIn
  <2>2. keyText[1] = Keys!String(keyOrigin[1])
    BY <2>1, Alone
  <2> QED
    BY <2>1, <2>2, KeyReadsBack, Zenon
<1> QED
  BY <1>1, Kept, PTL

(* A key that conditionkey.Parse accepted is written as it was read.       *)
THEOREM KeysParsedAsWritten == IdSpec => []ParsedAsWritten
<1>1. IdInv => ParsedAsWritten
  BY DEF IdInv, KeysKept, ParsedAsWritten, Keys!ParsedAsWritten
<1> QED
  BY <1>1, Kept, PTL

(* A key that conditionkey accepted is accepted by validateConditions, and *)
(* not as a key of the "resource." namespace.                              *)
THEOREM BuiltKeysAccepted == IdSpec => []BuiltKeysCompile
<1>1. IdInv => BuiltKeysCompile
  <2> SUFFICES ASSUME IdInv, keyText # <<>>
               PROVE  Keys!Compiles(keyText[1]) /\ ~Keys!Reserved(keyText[1])
    BY DEF BuiltKeysCompile, Keys!BuiltKeysCompile
  <2>1. /\ NormalKey(keyOrigin[1])
        /\ keyText = <<Keys!String(keyOrigin[1])>>
    BY DEF IdInv, KeysKept, NormalKeyIn
  <2>2. keyText[1] = Keys!String(keyOrigin[1])
    BY <2>1, Alone
  <2> QED
    BY <2>1, <2>2, KeyCompiles, Zenon
<1> QED
  BY <1>1, Kept, PTL
=============================================================================
