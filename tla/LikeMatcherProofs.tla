-------------------------- MODULE LikeMatcherProofs --------------------------
(***************************************************************************)
(* engine.wildcardMatch reports no false match, and no match is lost in a  *)
(* text without the rune "*", for all patterns and all texts; and the LIKE *)
(* patterns of sqlfilter.go, escaped rune by rune, select what it accepts. *)
(***************************************************************************)
EXTENDS LikeSql, SharedLemmas

W == LikeWildcards

(* What is already matched: the tokens before px account for the runes     *)
(* before sx, and those up to the last "*" for the runes before            *)
(* starSx.                                                                 *)
Sound ==
  /\ pc \in {"scan", "trail"} => PrefixMatches(W, pat, text, px, sx)
  /\ pc = "scan" /\ starPx # NoStar =>
        PrefixMatches(W, pat, text, starPx + 1, starSx)
  /\ pc = "trail" => sx = Len(text)

(* In a plain text the scan has consumed one rune per token since the last *)
(* "*", and has lost nothing by it: if the tokens after the "*" match from *)
(* rune n, then those after px match from as many runes further.           *)
Lead == px - (starPx + 1)

InStep ==
  Plain(text) /\ pc = "scan" /\ starPx # NoStar =>
    /\ sx = starSx + Lead
    /\ \A n \in 0..Len(text) :
         SuffixMatches(W, pat, text, starPx + 1, n) =>
           /\ n + Lead <= Len(text)
           /\ SuffixMatches(W, pat, text, px, n + Lead)

(* What is still to be matched: if a plain text matches at all, then the   *)
(* rest of it matches the rest of the pattern, from sx when no "*" was met *)
(* and from some rune not before starSx otherwise.                         *)
Complete ==
  Plain(text) /\ Matches(W, pat, text) =>
    /\ pc = "scan" /\ starPx = NoStar => SuffixMatches(W, pat, text, px, sx)
    /\ pc = "scan" /\ starPx # NoStar =>
         \E n \in starSx..Len(text) : SuffixMatches(W, pat, text, starPx + 1, n)
    /\ pc = "trail" => SuffixMatches(W, pat, text, px, sx)

IInv == TypeOK /\ Sound /\ InStep /\ Complete
        /\ NoFalseMatch /\ FindsPlainMatch

-----------------------------------------------------------------------------
LEMMA Typing ==
  ASSUME TypeOK
  PROVE  pat \in Seq(STRING) /\ text \in Seq(STRING)
BY RuneAssumption DEF TypeOK

(* Where no case of the switch but the backtracking one or the default     *)
(* applies, the rest of the text does not match from sx.                   *)
LEMMA Stuck ==
  ASSUME TypeOK, sx < Len(text), ~AtStar, ~AtMatch
  PROVE  ~SuffixMatches(W, pat, text, px, sx)
<1> SUFFICES ASSUME SuffixMatches(W, pat, text, px, sx) PROVE FALSE
  OBVIOUS
<1> USE Typing
<1>1. px # Len(pat)
  BY SuffixEnd
<1>2. px \in 0..(Len(pat)-1)
  BY <1>1 DEF TypeOK
<1>3. PICK p \in 0..Len(text) : Consumes(W, pat[px+1], text, sx, p)
  BY <1>2, SuffixStep
<1>4. QED
  BY <1>2, <1>3 DEF Consumes, AtStar, AtMatch, W, LikeWildcards, TypeOK

LEMMA InitTypeOK == Init => TypeOK
<1> SUFFICES ASSUME Init PROVE TypeOK
  OBVIOUS
<1>1. pat \in Seq(STRING) /\ text \in Seq(STRING)
  BY RuneAssumption DEF Init
<1>2. Len(pat) \in Nat /\ Len(text) \in Nat
  BY <1>1
<1>3. px \in 0..Len(pat) /\ sx \in 0..Len(text)
  BY <1>2 DEF Init
<1>4. QED
  BY <1>3 DEF Init, TypeOK

LEMMA StepTypeOK == TypeOK /\ [Next]_vars => TypeOK'
<1> SUFFICES ASSUME TypeOK, [Next]_vars PROVE TypeOK'
  OBVIOUS
<1> USE Typing DEF TypeOK, NoStar
<1>1. CASE RecordStar
  BY <1>1 DEF RecordStar, AtStar
<1>2. CASE MatchRune
  BY <1>2 DEF MatchRune, AtMatch
<1>3. CASE Backtrack
  BY <1>3 DEF Backtrack
<1>4. CASE Mismatch
  BY <1>4 DEF Mismatch
<1>5. CASE TextExhausted
  BY <1>5 DEF TextExhausted
<1>6. CASE SkipTrailing
  BY <1>6 DEF SkipTrailing, AtStar
<1>7. CASE Finish
  BY <1>7 DEF Finish
<1>8. CASE UNCHANGED vars
  BY <1>8 DEF vars
<1>9. QED
  BY <1>1, <1>2, <1>3, <1>4, <1>5, <1>6, <1>7, <1>8 DEF Next

(* The indices of wildcardMatch stay inside its two slices.                *)
THEOREM TypeCorrect == Spec => []TypeOK
<1>1. QED
  BY InitTypeOK, StepTypeOK, PTL DEF Spec

(* One step of the loop keeps the three parts of the invariant.            *)
LEMMA SoundStep ==
  ASSUME TypeOK, TypeOK', Sound, InStep, Next
  PROVE  Sound'
<1> USE Typing DEF TypeOK, NoStar
<1>1. CASE RecordStar
  <2>1. /\ pat' = pat /\ text' = text /\ pc' = "scan" /\ sx' = sx
        /\ px' = px + 1 /\ starPx' = px /\ starSx' = sx
        /\ pc = "scan" /\ px \in Nat
    BY <1>1 DEF RecordStar
  <2>2. Consumes(W, pat[px+1], text, sx, sx)
    BY <1>1 DEF RecordStar, AtStar, Consumes, W, LikeWildcards
  <2>3. PrefixMatches(W, pat, text, px + 1, sx)
    BY <2>1, <2>2, PrefixExtend DEF Sound
  <2>4. QED
    BY <2>1, <2>3 DEF Sound
<1>2. CASE MatchRune
  <2>1. /\ pat' = pat /\ text' = text /\ pc' = "scan" /\ sx' = sx + 1
        /\ px' = px + 1 /\ starPx' = starPx /\ starSx' = starSx
        /\ pc = "scan" /\ px \in Nat
    BY <1>2 DEF MatchRune
  <2>2. Consumes(W, pat[px+1], text, sx, sx + 1) /\ sx + 1 \in 0..Len(text)
    BY <1>2 DEF MatchRune, AtStar, AtMatch, Consumes, W, LikeWildcards
  <2>3. PrefixMatches(W, pat, text, px + 1, sx + 1)
    BY <2>1, <2>2, PrefixExtend DEF Sound
  <2>4. QED
    BY <2>1, <2>3 DEF Sound
<1>3. CASE Backtrack
  <2>1. /\ pat' = pat /\ text' = text /\ pc' = "scan" /\ sx' = starSx + 1
        /\ px' = starPx + 1 /\ starPx' = starPx /\ starSx' = starSx + 1
        /\ pc = "scan" /\ starPx # NoStar
    BY <1>3 DEF Backtrack
  <2>2. /\ starPx \in Nat /\ starSx \in 0..Len(text)
        /\ starSx + 1 \in starSx..Len(text)
        /\ pat[starPx + 1] = W.many
    BY <1>3 DEF Backtrack, W, LikeWildcards
  <2>3. PrefixMatches(W, pat, text, starPx + 1, starSx + 1)
    BY <2>1, <2>2, PrefixWiden DEF Sound
  <2>4. QED
    BY <2>1, <2>3 DEF Sound
<1>4. CASE Mismatch
  BY <1>4 DEF Mismatch, Sound
<1>5. CASE TextExhausted
  BY <1>5 DEF TextExhausted, Sound
<1>6. CASE SkipTrailing
  <2>1. /\ pat' = pat /\ text' = text /\ pc' = "trail" /\ sx' = sx
        /\ px' = px + 1 /\ pc = "trail" /\ px \in Nat
    BY <1>6 DEF SkipTrailing
  <2>2. Consumes(W, pat[px+1], text, sx, sx)
    BY <1>6 DEF SkipTrailing, AtStar, Consumes, W, LikeWildcards
  <2>3. PrefixMatches(W, pat, text, px + 1, sx)
    BY <2>1, <2>2, PrefixExtend DEF Sound
  <2>4. QED
    BY <2>1, <2>3 DEF Sound
<1>7. CASE Finish
  BY <1>7 DEF Finish, Sound
<1>8. QED
  BY <1>1, <1>2, <1>3, <1>4, <1>5, <1>6, <1>7 DEF Next

LEMMA InStepStep ==
  ASSUME TypeOK, TypeOK', InStep, Next, Plain(text)
  PROVE  InStep'
<1> USE Typing DEF TypeOK, NoStar
<1>1. CASE RecordStar
  <2>1. Lead' = 0 /\ px' = starPx' + 1 /\ sx' = starSx' /\ starSx' \in Nat
    BY <1>1 DEF RecordStar, Lead
  <2>2. ASSUME NEW n \in 0..Len(text'),
               SuffixMatches(W, pat', text', starPx' + 1, n)
        PROVE  /\ n + Lead' <= Len(text')
               /\ SuffixMatches(W, pat', text', px', n + Lead')
    <3>1. n + Lead' = n /\ n <= Len(text')
      BY <2>1
    <3>2. QED
      BY <2>1, <2>2, <3>1
  <2>3. sx' = starSx' + Lead'
    <3>1. \A k \in Nat : k + 0 = k
      OBVIOUS
    <3>2. QED
      BY <2>1, <3>1, Zenon
  <2>4. QED
    BY <2>2, <2>3 DEF InStep
<1>2. CASE MatchRune
  <2>1. /\ pat' = pat /\ text' = text /\ sx' = sx + 1 /\ pc = "scan"
        /\ px' = px + 1 /\ starPx' = starPx /\ starSx' = starSx
        /\ px \in 0..(Len(pat)-1) /\ pat[px+1] # W.many
    BY <1>2 DEF MatchRune, AtMatch, Plain, W, LikeWildcards
  <2> SUFFICES ASSUME starPx # NoStar
               PROVE  /\ sx' = starSx + Lead'
                      /\ \A n \in 0..Len(text) :
                           SuffixMatches(W, pat, text, starPx + 1, n) =>
                             /\ n + Lead' <= Len(text)
                             /\ SuffixMatches(W, pat, text, px', n + Lead')
    BY <2>1 DEF InStep
  <2>2. Lead' = Lead + 1 /\ Lead \in Nat
    <3>1. starPx \in 0..(px-1) /\ px \in Nat
      BY <2>1
    <3>2. QED
      BY <2>1, <3>1 DEF Lead
  <2>3. sx' = starSx + Lead'
    BY <2>1, <2>2 DEF InStep
  <2>4. ASSUME NEW n \in 0..Len(text), SuffixMatches(W, pat, text, starPx + 1, n)
        PROVE  /\ n + Lead' <= Len(text)
               /\ SuffixMatches(W, pat, text, px', n + Lead')
    <3>1. SuffixMatches(W, pat, text, px, n + Lead)
      BY <2>1, <2>4 DEF InStep
    <3>2. PICK p \in 0..Len(text) :
             /\ Consumes(W, pat[px+1], text, n + Lead, p)
             /\ SuffixMatches(W, pat, text, px + 1, p)
      BY <2>1, <3>1, SuffixStep
    <3>3. p = n + Lead + 1
      BY <2>1, <3>2 DEF Consumes
    <3>4. QED
      BY <2>1, <2>2, <3>2, <3>3
  <2>5. QED
    BY <2>3, <2>4
<1>3. CASE Backtrack
  <2>1. Lead' = 0 /\ px' = starPx' + 1 /\ sx' = starSx' /\ starSx' \in Nat
    BY <1>3 DEF Backtrack, Lead
  <2>2. ASSUME NEW n \in 0..Len(text'),
               SuffixMatches(W, pat', text', starPx' + 1, n)
        PROVE  /\ n + Lead' <= Len(text')
               /\ SuffixMatches(W, pat', text', px', n + Lead')
    <3>1. n + Lead' = n /\ n <= Len(text')
      BY <2>1
    <3>2. QED
      BY <2>1, <2>2, <3>1
  <2>3. sx' = starSx' + Lead'
    <3>1. \A k \in Nat : k + 0 = k
      OBVIOUS
    <3>2. QED
      BY <2>1, <3>1, Zenon
  <2>4. QED
    BY <2>2, <2>3 DEF InStep
<1>4. CASE pc' # "scan"
  BY <1>4 DEF InStep
<1>5. QED
  BY <1>1, <1>2, <1>3, <1>4 DEF Next, Mismatch, TextExhausted, SkipTrailing, Finish

LEMMA CompleteStep ==
  ASSUME TypeOK, TypeOK', Sound, InStep, Complete, Next, Plain(text)
  PROVE  Complete'
<1> USE Typing DEF TypeOK, NoStar
<1>0. pat' = pat /\ text' = text
  BY DEF Next, RecordStar, MatchRune, Backtrack, Mismatch, TextExhausted,
         SkipTrailing, Finish
<1> SUFFICES ASSUME Matches(W, pat, text)
             PROVE  /\ pc' = "scan" /\ starPx' = NoStar =>
                          SuffixMatches(W, pat, text, px', sx')
                    /\ pc' = "scan" /\ starPx' # NoStar =>
                          \E n \in starSx'..Len(text) :
                            SuffixMatches(W, pat, text, starPx' + 1, n)
                    /\ pc' = "trail" => SuffixMatches(W, pat, text, px', sx')
  BY <1>0 DEF Complete
<1>1. CASE RecordStar
  <2>1. /\ pc = "scan" /\ pc' = "scan" /\ starPx' = px /\ starSx' = sx
        /\ px \in 0..(Len(pat)-1) /\ pat[px+1] = W.many
    BY <1>1 DEF RecordStar, AtStar, W, LikeWildcards
  <2>2. PICK n \in sx..Len(text) : SuffixMatches(W, pat, text, px, n)
    <3>1. CASE starPx = NoStar
      BY <2>1, <3>1 DEF Complete
    <3>2. CASE starPx # NoStar
      <4>1. PICK m \in starSx..Len(text) :
               SuffixMatches(W, pat, text, starPx + 1, m)
        BY <2>1, <3>2 DEF Complete
      <4>2. /\ m + Lead <= Len(text) /\ sx = starSx + Lead
            /\ SuffixMatches(W, pat, text, px, m + Lead)
        BY <2>1, <3>2, <4>1 DEF InStep
      <4>3. starSx \in Nat /\ Len(text) \in Nat /\ starPx \in Int
        BY <3>2
      <4>4. m \in Nat
        BY <4>1, <4>3
      <4>5. Lead \in Int
        BY <4>3 DEF Lead
      <4>6. m + Lead \in sx..Len(text)
        BY <4>1, <4>2, <4>3, <4>4, <4>5
      <4>7. QED
        BY <4>2, <4>6
    <3>3. QED
      BY <3>1, <3>2
  <2>3. PICK p \in 0..Len(text) : /\ Consumes(W, pat[px+1], text, n, p)
                                 /\ SuffixMatches(W, pat, text, px + 1, p)
    BY <2>1, <2>2, SuffixStep
  <2>4. p \in sx..Len(text)
    BY <2>1, <2>3 DEF Consumes
  <2>5. starPx' # NoStar /\ pc' # "trail"
    BY <2>1
  <2>6. \E k \in starSx'..Len(text) : SuffixMatches(W, pat, text, starPx' + 1, k)
    BY <2>1, <2>3, <2>4
  <2>7. QED
    BY <2>5, <2>6
<1>2. CASE MatchRune
  <2>1. /\ pc = "scan" /\ pc' = "scan" /\ px' = px + 1 /\ sx' = sx + 1
        /\ starPx' = starPx /\ starSx' = starSx
        /\ px \in 0..(Len(pat)-1) /\ pat[px+1] # W.many
    BY <1>2 DEF MatchRune, AtMatch, Plain, W, LikeWildcards
  <2>2. CASE starPx = NoStar
    <3>1. PICK p \in 0..Len(text) : /\ Consumes(W, pat[px+1], text, sx, p)
                                   /\ SuffixMatches(W, pat, text, px + 1, p)
      BY <2>1, <2>2, SuffixStep DEF Complete
    <3>2. p = sx + 1
      BY <2>1, <3>1 DEF Consumes
    <3>3. QED
      BY <2>1, <2>2, <3>1, <3>2
  <2>3. CASE starPx # NoStar
    BY <2>1, <2>3 DEF Complete
  <2>4. QED
    BY <2>2, <2>3
<1>3. CASE Backtrack
  <2>1. /\ pc = "scan" /\ pc' = "scan" /\ starPx # NoStar
        /\ starPx' = starPx /\ starSx' = starSx + 1
        /\ sx < Len(text) /\ ~AtStar /\ ~AtMatch
    BY <1>3 DEF Backtrack
  <2>2. PICK n \in starSx..Len(text) : SuffixMatches(W, pat, text, starPx + 1, n)
    BY <2>1 DEF Complete
  <2>3. n # starSx
    <3> SUFFICES ASSUME n = starSx PROVE FALSE
      OBVIOUS
    <3>1. SuffixMatches(W, pat, text, px, starSx + Lead) /\ sx = starSx + Lead
      BY <2>1, <2>2 DEF InStep
    <3>2. QED
      BY <2>1, <3>1, Stuck
  <2>4. n \in starSx'..Len(text)
    <3>1. starSx \in Nat
      BY <2>1
    <3>2. QED
      BY <2>1, <2>3, <3>1
  <2>5. \E k \in starSx'..Len(text) : SuffixMatches(W, pat, text, starPx' + 1, k)
    BY <2>1, <2>2, <2>4
  <2>6. starPx' # NoStar /\ pc' # "trail"
    BY <2>1
  <2>7. QED
    BY <2>5, <2>6
<1>4. CASE Mismatch
  BY <1>4 DEF Mismatch
<1>5. CASE TextExhausted
  <2>1. pc = "scan" /\ pc' = "trail" /\ px' = px /\ sx' = sx /\ sx = Len(text)
    BY <1>5 DEF TextExhausted
  <2>2. CASE starPx = NoStar
    BY <2>1, <2>2 DEF Complete
  <2>3. CASE starPx # NoStar
    <3>1. PICK n \in starSx..Len(text) : SuffixMatches(W, pat, text, starPx + 1, n)
      BY <2>1, <2>3 DEF Complete
    <3>2. /\ n + Lead <= Len(text) /\ sx = starSx + Lead
          /\ SuffixMatches(W, pat, text, px, n + Lead)
      BY <2>1, <2>3, <3>1 DEF InStep
    <3>3. n = starSx
      BY <2>1, <2>3, <3>1, <3>2 DEF Lead
    <3>4. QED
      BY <2>1, <3>2, <3>3
  <2>4. QED
    BY <2>2, <2>3
<1>6. CASE SkipTrailing
  <2>1. /\ pc = "trail" /\ pc' = "trail" /\ px' = px + 1 /\ sx' = sx
        /\ px \in 0..(Len(pat)-1) /\ pat[px+1] = W.many
    BY <1>6 DEF SkipTrailing, AtStar, W, LikeWildcards
  <2>2. sx = Len(text)
    BY <2>1 DEF Sound
  <2>3. SuffixMatches(W, pat, text, px, sx)
    BY <2>1 DEF Complete
  <2>4. PICK p \in 0..Len(text) : /\ Consumes(W, pat[px+1], text, sx, p)
                                 /\ SuffixMatches(W, pat, text, px + 1, p)
    BY <2>1, <2>3, SuffixStep
  <2>5. p = sx /\ sx' = sx
    BY <2>1, <2>2, <2>4 DEF Consumes
  <2>6. QED
    BY <2>1, <2>4, <2>5
<1>7. CASE Finish
  BY <1>7 DEF Finish
<1>8. QED
  BY <1>1, <1>2, <1>3, <1>4, <1>5, <1>6, <1>7 DEF Next
-----------------------------------------------------------------------------
LEMMA InvInit == Init => IInv
<1> SUFFICES ASSUME Init PROVE IInv
  OBVIOUS
<1>1. TypeOK
  BY InitTypeOK
<1> USE <1>1, Typing
<1>2. Sound
  BY PrefixEmpty DEF Init, Sound
<1>3. InStep
  BY DEF Init, InStep
<1>4. Complete
  BY DEF Init, Complete, Matches
<1>5. NoFalseMatch /\ FindsPlainMatch
  BY DEF Init, NoFalseMatch, FindsPlainMatch
<1>6. QED
  BY <1>2, <1>3, <1>4, <1>5 DEF IInv

(* What the loop returns is what the invariant says about the end of it.   *)
LEMMA SoundReturn ==
  ASSUME TypeOK, Sound, NoFalseMatch, Next
  PROVE  NoFalseMatch'
<1> USE Typing DEF TypeOK, NoStar
<1>1. CASE Finish
  <2>1. /\ sx = Len(text) /\ PrefixMatches(W, pat, text, px, sx)
        /\ pat' = pat /\ text' = text /\ result' = (px = Len(pat))
    BY <1>1 DEF Finish, Sound
  <2>2. px = Len(pat) => Matches(W, pat, text)
    BY <2>1, PrefixTotal
  <2>3. QED
    BY <2>1, <2>2 DEF NoFalseMatch, W
<1>2. CASE ~(pc' = "done" /\ result')
  BY <1>2 DEF NoFalseMatch
<1>3. QED
  BY <1>1, <1>2 DEF Next, MatchRune, RecordStar, Backtrack, Mismatch,
                    TextExhausted, SkipTrailing

LEMMA CompleteReturn ==
  ASSUME TypeOK, Sound, Complete, FindsPlainMatch, Next, Plain(text)
  PROVE  FindsPlainMatch'
<1> USE Typing DEF TypeOK, NoStar
<1>0. pat' = pat /\ text' = text
  BY DEF Next, RecordStar, MatchRune, Backtrack, Mismatch, TextExhausted,
         SkipTrailing, Finish
<1>1. CASE Mismatch
  <2>1. ~SuffixMatches(W, pat, text, px, sx)
    BY <1>1, Stuck DEF Mismatch
  <2>2. ~Matches(W, pat, text)
    BY <1>1, <2>1 DEF Mismatch, Complete
  <2>3. QED
    BY <1>0, <2>2 DEF FindsPlainMatch, W
<1>2. CASE Finish
  <2>1. ASSUME px # Len(pat), Matches(W, pat, text) PROVE FALSE
    <3>1. px \in 0..(Len(pat)-1) /\ pat[px+1] # W.many /\ sx = Len(text)
      BY <1>2, <2>1 DEF Finish, AtStar, Sound, W, LikeWildcards
    <3>2. SuffixMatches(W, pat, text, px, sx)
      BY <1>2, <2>1 DEF Finish, Complete
    <3>3. PICK p \in 0..Len(text) : Consumes(W, pat[px+1], text, sx, p)
      BY <3>1, <3>2, SuffixStep
    <3>4. QED
      BY <3>1, <3>3 DEF Consumes
  <2>2. QED
    BY <1>0, <1>2, <2>1 DEF Finish, FindsPlainMatch, W
<1>3. CASE pc' # "done"
  BY <1>3 DEF FindsPlainMatch
<1>4. QED
  BY <1>1, <1>2, <1>3 DEF Next, MatchRune, RecordStar, Backtrack,
                          TextExhausted, SkipTrailing

LEMMA InvNext == IInv /\ [Next]_vars => IInv'
<1> SUFFICES ASSUME IInv, [Next]_vars PROVE IInv'
  OBVIOUS
<1>1. TypeOK'
  BY StepTypeOK DEF IInv
<1>2. CASE Next
  <2>1. text' = text
    BY <1>2 DEF Next, RecordStar, MatchRune, Backtrack, Mismatch,
                TextExhausted, SkipTrailing, Finish
  <2>2. Sound' /\ NoFalseMatch'
    BY <1>1, <1>2, SoundStep, SoundReturn DEF IInv
  <2>3. CASE Plain(text)
    BY <1>1, <1>2, <2>2, <2>3, InStepStep, CompleteStep, CompleteReturn DEF IInv
  <2>4. CASE ~Plain(text)
    BY <1>1, <2>1, <2>2, <2>4 DEF IInv, InStep, Complete, FindsPlainMatch
  <2>5. QED
    BY <2>3, <2>4
<1>3. CASE UNCHANGED vars
  BY <1>1, <1>3 DEF IInv, vars, Sound, InStep, Lead, Complete, NoFalseMatch,
                    FindsPlainMatch, Plain
<1>4. QED
  BY <1>2, <1>3

(* A StringLike that holds is a real match, whatever the two strings.      *)
THEOREM WildcardMatchSound == Spec => []NoFalseMatch
<1>1. IInv => NoFalseMatch
  BY DEF IInv
<1>2. QED
  BY <1>1, InvInit, InvNext, PTL DEF Spec

(* A match is found whenever the actual value has no rune "*".             *)
THEOREM WildcardMatchFindsPlain == Spec => []FindsPlainMatch
<1>1. IInv => FindsPlainMatch
  BY DEF IInv
<1>2. QED
  BY <1>1, InvInit, InvNext, PTL DEF Spec

(* Every iteration of engine.wildcardMatch moves forward.                  *)
THEOREM WildcardMatchAdvances == Spec => Advances
<1>1. TypeOK /\ [Next]_vars =>
        [ \/ starPx' > starPx
          \/ starPx' = starPx /\ starSx' > starSx
          \/ starPx' = starPx /\ starSx' = starSx /\ px' > px
          \/ pc' # pc ]_vars
  BY DEF TypeOK, NoStar, Next, RecordStar, MatchRune, Backtrack, Mismatch,
         TextExhausted, SkipTrailing, Finish
<1>2. QED
  BY <1>1, TypeCorrect, PTL DEF Spec, Advances
-----------------------------------------------------------------------------
(* A LIKE pattern is read in one loop from the front: which runes escape   *)
(* the next one, and the tokens of the runes that do not.                  *)
Symbols(S) == {Char(c) : c \in S} \cup {Wild(c) : c \in S}

LEMMA EscapesRead ==
  ASSUME NEW S, NEW p \in Seq(S)
  PROVE  /\ Escapes(p) \in [0..Len(p) -> BOOLEAN]
         /\ Escapes(p)[0] = FALSE
         /\ \A k \in 1..Len(p) :
              Escapes(p)[k] <=> p[k] = "\\" /\ ~Escapes(p)[k-1]
<1> DEFINE n == Len(p)
           Is(h) == h = [k \in 0..n |-> IF k = 0 THEN FALSE ELSE p[k] = "\\" /\ ~h[k-1]]
           step == [k \in 1..n |-> [x \in BOOLEAN |-> p[k] = "\\" /\ ~x]]
<1>1. n \in Nat
  OBVIOUS
<1> HIDE DEF n
<1>2. step \in Steps(n, BOOLEAN)
  BY DEF Steps
<1> HIDE DEF step
<1>3. PICK f : Runs(f, n, BOOLEAN, FALSE, step)
  BY <1>1, <1>2, LoopValues
<1>4. f \in [0..n -> BOOLEAN] /\ f[0] = FALSE
  BY <1>3 DEF Runs
<1>5. ASSUME NEW k \in 0..n
      PROVE  f[k] = IF k = 0 THEN FALSE ELSE p[k] = "\\" /\ ~f[k-1]
  <2>1. CASE k = 0
    BY <1>4, <2>1
  <2>2. CASE k # 0
    <3>1. k \in 1..n /\ k - 1 \in 0..n
      BY <1>1, <2>2
    <3>2. f[k] = step[k][f[k-1]] /\ f[k-1] \in BOOLEAN
      BY <1>3, <3>1 DEF Runs
    <3>3. f[k] = (p[k] = "\\" /\ ~f[k-1])
      BY <3>1, <3>2, Zenon DEF step
    <3> QED
      BY <2>2, <3>3, Zenon
  <2> QED
    BY <2>1, <2>2
<1>6. Is(f)
  <2>1. f = [k \in 0..n |-> f[k]]
    BY <1>4, Zenon
  <2> QED
    BY <1>5, <2>1, Zenon
<1>7. Is(Escapes(p))
  BY <1>6, Zenon DEF Escapes, n
<1> DEFINE e == Escapes(p)
<1> HIDE DEF e
<1>8. e = [k \in 0..n |-> IF k = 0 THEN FALSE ELSE p[k] = "\\" /\ ~e[k-1]]
  BY <1>7 DEF e
<1>9. ASSUME NEW k \in 0..n
      PROVE  e[k] = IF k = 0 THEN FALSE ELSE p[k] = "\\" /\ ~e[k-1]
  BY <1>8, Zenon
<1>10. \A k \in 0..n : e[k] \in BOOLEAN
  BY <1>9, Zenon
<1>11. e \in [0..n -> BOOLEAN]
  <2>1. e = [k \in 0..n |-> e[k]]
    BY <1>8, Zenon
  <2> QED
    BY <1>10, <2>1, Zenon
<1>12. ASSUME NEW k \in 1..n PROVE e[k] <=> p[k] = "\\" /\ ~e[k-1]
  <2>1. k \in 0..n /\ k # 0
    BY <1>1
  <2> QED
    BY <1>9, <2>1, Zenon
<1>13. 0 \in 0..n
  BY <1>1
<1>14. e[0] = FALSE
  BY <1>9, <1>13, Zenon
<1> QED
  BY <1>11, <1>12, <1>14, Zenon DEF e, n

LEMMA TokensRead ==
  ASSUME NEW S, NEW p \in Seq(S)
  PROVE  \E read \in [0..Len(p) -> Seq(Symbols(S))] :
           /\ read[0] = <<>> /\ read[Len(p)] = Tokens(p)
           /\ \A k \in 1..Len(p) :
                read[k] = IF Escapes(p)[k] THEN read[k-1]
                          ELSE Append(read[k-1], Token(p, k))
<1> DEFINE n == Len(p)
           T == Seq(Symbols(S))
           Is(h) == h = [k \in 0..n |->
             IF k = 0 THEN <<>>
             ELSE IF Escapes(p)[k] THEN h[k-1] ELSE Append(h[k-1], Token(p, k))]
           base == <<>>
           step == [k \in 1..n |-> [x \in T |->
             IF Escapes(p)[k] THEN x ELSE Append(x, Token(p, k))]]
<1>1. n \in Nat /\ base \in T
  OBVIOUS
<1>2. ASSUME NEW k \in 1..n, NEW x \in T
      PROVE  Append(x, Token(p, k)) \in T
  <2>1. p[k] \in S
    OBVIOUS
  <2>2. Token(p, k) \in Symbols(S)
    BY <2>1 DEF Token, Symbols
  <2> HIDE DEF n
  <2> QED
    BY <2>2
<1> HIDE DEF n, T
<1>3. step \in Steps(n, T)
  BY <1>2 DEF Steps
<1> HIDE DEF base, step
<1>4. PICK f : Runs(f, n, T, base, step)
  BY <1>1, <1>3, LoopValues
<1>5. f \in [0..n -> T] /\ f[0] = <<>>
  BY <1>4 DEF Runs, base
<1>6. ASSUME NEW k \in 0..n
      PROVE  f[k] = IF k = 0 THEN <<>>
                    ELSE IF Escapes(p)[k] THEN f[k-1] ELSE Append(f[k-1], Token(p, k))
  <2>1. CASE k = 0
    BY <1>5, <2>1
  <2>2. CASE k # 0
    <3>1. k \in 1..n /\ k - 1 \in 0..n
      BY <1>1, <2>2
    <3>2. f[k] = step[k][f[k-1]] /\ f[k-1] \in T
      BY <1>4, <3>1 DEF Runs
    <3>3. f[k] = IF Escapes(p)[k] THEN f[k-1] ELSE Append(f[k-1], Token(p, k))
      BY <3>1, <3>2, Zenon DEF step
    <3> QED
      BY <2>2, <3>3, Zenon
  <2> QED
    BY <2>1, <2>2
<1>7. Is(f)
  <2>1. f = [k \in 0..n |-> f[k]]
    BY <1>5, Zenon
  <2> QED
    BY <1>6, <2>1, Zenon
<1> DEFINE r == CHOOSE h : Is(h)
<1>8. Is(r)
  BY <1>7, Zenon
<1>9. Tokens(p) = r[n]
  BY Zenon DEF Tokens, n
<1> HIDE DEF r
<1>10. ASSUME NEW k \in 0..n
       PROVE  r[k] = IF k = 0 THEN <<>>
                     ELSE IF Escapes(p)[k] THEN r[k-1] ELSE Append(r[k-1], Token(p, k))
  BY <1>8, Zenon
<1>11. r = [k \in 0..n |-> r[k]]
  BY <1>8, Zenon
<1> DEFINE P == {k \in 0..n : r[k] \in T}
<1>12. 0 \in P
  BY <1>1, <1>10 DEF base
<1>13. ASSUME NEW k \in 0..(n-1), k \in P
       PROVE  k + 1 \in P
  <2>1. k + 1 \in 0..n /\ k + 1 \in 1..n /\ (k + 1) - 1 = k /\ k + 1 # 0
    BY <1>1
  <2>2. r[k+1] = IF Escapes(p)[k+1] THEN r[k] ELSE Append(r[k], Token(p, k+1))
    BY <1>10, <2>1
  <2>3. r[k] \in T
    BY <1>13
  <2>4. Append(r[k], Token(p, k+1)) \in T
    BY <1>2, <2>1, <2>3
  <2> QED
    BY <2>1, <2>2, <2>3, <2>4
<1> HIDE DEF P
<1>14. \A k \in 0..n : k \in P
  BY <1>1, <1>12, <1>13, Ascent
<1>15. r \in [0..n -> T]
  <2>1. \A k \in 0..n : r[k] \in T
    BY <1>14 DEF P
  <2> QED
    BY <1>11, <2>1, Zenon
<1>16. \A k \in 1..n : r[k] = IF Escapes(p)[k] THEN r[k-1] ELSE Append(r[k-1], Token(p, k))
  <2> TAKE k \in 1..n
  <2>1. k \in 0..n /\ k # 0
    BY <1>1
  <2> QED
    BY <1>10, <2>1, Zenon
<1>17. r[0] = <<>>
  BY <1>1, <1>10
<1> QED
  BY <1>9, <1>15, <1>16, <1>17, Zenon DEF n, T

(* What the runes before position j and after position i of p stand for: a *)
(* rune that escapes nothing, or an escape and the rune after it.          *)
Reads(p, i, j, tok) ==
  \/ /\ j = i + 1 /\ p[j] # "\\"
     /\ tok = IF p[j] \in {"%", "_"} THEN Wild(p[j]) ELSE Char(p[j])
  \/ j = i + 2 /\ p[i + 1] = "\\" /\ tok = Char(p[j])

(* p is cut at these positions into pieces that stand for the n tokens.    *)
CutInto(p, n, at, tok) ==
  /\ at \in [0..n -> 0..Len(p)] /\ at[0] = 0 /\ at[n] = Len(p)
  /\ \A k \in 1..n : Reads(p, at[k-1], at[k], tok[k])

TokensAre(p, n, tok) ==
  /\ Len(Tokens(p)) = n /\ \A k \in 1..n : Tokens(p)[k] = tok[k]

(* Such a pattern has these tokens.                                        *)
LEMMA PiecesRead ==
  ASSUME NEW S, NEW p \in Seq(S), NEW n \in Nat, NEW at, NEW tok,
         CutInto(p, n, at, tok)
  PROVE  Tokens(p) \in Seq(Symbols(S)) /\ TokensAre(p, n, tok)
<1>0. /\ at \in [0..n -> 0..Len(p)] /\ at[0] = 0 /\ at[n] = Len(p)
      /\ \A k \in 1..n : Reads(p, at[k-1], at[k], tok[k])
  BY DEF CutInto
<1>1. PICK read \in [0..Len(p) -> Seq(Symbols(S))] :
        /\ read[0] = <<>> /\ read[Len(p)] = Tokens(p)
        /\ \A k \in 1..Len(p) :
             read[k] = IF Escapes(p)[k] THEN read[k-1]
                       ELSE Append(read[k-1], Token(p, k))
  BY TokensRead
<1> DEFINE T == Symbols(S)
           e == Escapes(p)
           P == {k \in 0..n : /\ ~e[at[k]] /\ Len(read[at[k]]) = k
                              /\ \A m \in 1..k : read[at[k]][m] = tok[m]}
<1>2. /\ Len(p) \in Nat /\ e[0] = FALSE
      /\ \A k \in 1..Len(p) : e[k] <=> p[k] = "\\" /\ ~e[k-1]
  <2>1. Len(p) \in Nat
    OBVIOUS
  <2> QED
    BY <2>1, EscapesRead, Zenon
<1> HIDE DEF T, e
<1>3. 0 \in P
  BY <1>0, <1>1, <1>2
<1>a. ASSUME NEW x \in Seq(T), NEW y \in T
      PROVE  /\ Len(Append(x, y)) = Len(x) + 1 /\ Append(x, y)[Len(x) + 1] = y
             /\ \A m \in 1..Len(x) : Append(x, y)[m] = x[m]
  OBVIOUS
<1>4. ASSUME NEW k \in 0..(n-1), k \in P
      PROVE  k + 1 \in P
  <2> DEFINE i == at[k]
             j == at[k+1]
  <2>1. /\ i \in 0..Len(p) /\ j \in 0..Len(p) /\ ~e[i] /\ Len(read[i]) = k
        /\ \A m \in 1..k : read[i][m] = tok[m]
        /\ k + 1 \in 1..n /\ (k + 1) - 1 = k
    <3>1. k \in 0..n /\ k + 1 \in 1..n /\ (k + 1) - 1 = k /\ k + 1 \in 0..n
      BY <1>4
    <3>2. i \in 0..Len(p) /\ j \in 0..Len(p)
      BY <1>0, <3>1
    <3>3. ~e[i] /\ Len(read[i]) = k /\ \A m \in 1..k : read[i][m] = tok[m]
      BY <1>4, Zenon
    <3> QED
      BY <3>1, <3>2, <3>3
  <2>2. Reads(p, i, j, tok[k+1])
    BY <1>0, <2>1
  <2>3. read[i] \in Seq(T)
    BY <1>1, <2>1 DEF T
  <2> HIDE DEF P, i, j
  <2>4. ~e[j] /\ read[j] = Append(read[i], tok[k+1])
    <3>1. CASE j = i + 1 /\ p[j] # "\\"
      <4>1. j \in 1..Len(p) /\ j - 1 = i
        BY <1>2, <2>1, <3>1
      <4>2. ~e[j]
        BY <1>2, <3>1, <4>1
      <4>3. read[j] = Append(read[i], Token(p, j))
        BY <1>1, <4>1, <4>2 DEF e
      <4>4. tok[k+1] = IF p[j] \in {"%", "_"} THEN Wild(p[j]) ELSE Char(p[j])
        BY <1>2, <2>1, <2>2, <3>1 DEF Reads
      <4>5. Token(p, j) = tok[k+1]
        BY <2>1, <4>1, <4>4 DEF Token, e
      <4> QED
        BY <4>2, <4>3, <4>5
    <3>2. CASE j = i + 2 /\ p[i + 1] = "\\"
      <4>1. /\ i + 1 \in 1..Len(p) /\ j \in 1..Len(p)
            /\ (i + 1) - 1 = i /\ j - 1 = i + 1
        BY <1>2, <2>1, <3>2
      <4>2. e[i+1]
        BY <1>2, <2>1, <3>2, <4>1
      <4>3. ~e[j]
        BY <1>2, <4>1, <4>2
      <4>4. read[i+1] = read[i]
        BY <1>1, <4>1, <4>2 DEF e
      <4>5. read[j] = Append(read[i+1], Token(p, j))
        BY <1>1, <4>1, <4>3 DEF e
      <4>6. Token(p, j) = Char(p[j])
        BY <4>1, <4>2 DEF Token, e
      <4>7. tok[k+1] = Char(p[j])
        BY <1>2, <2>1, <2>2, <3>2 DEF Reads
      <4> QED
        BY <4>3, <4>4, <4>5, <4>6, <4>7
    <3> QED
      BY <2>2, <3>1, <3>2 DEF Reads
  <2>5. tok[k+1] \in T
    <3>0. j = i + 1 \/ j = i + 2
      BY <2>2, Zenon DEF Reads
    <3>1. j \in 1..Len(p)
      BY <1>2, <2>1, <3>0
    <3>2. p[j] \in S
      BY <3>1
    <3>3. Wild(p[j]) \in T /\ Char(p[j]) \in T
      BY <3>2 DEF T, Symbols
    <3> QED
      BY <2>2, <3>3 DEF Reads
  <2> DEFINE x == read[i]
             y == tok[k+1]
  <2>a. x \in Seq(T) /\ y \in T /\ read[j] = Append(x, y) /\ Len(x) = k /\ k \in Nat
    BY <2>1, <2>3, <2>4, <2>5
  <2>b. \A m \in 1..k : x[m] = tok[m]
    BY <2>1
  <2>c. y = tok[k+1]
    OBVIOUS
  <2> HIDE DEF x, y
  <2>d. /\ Len(Append(x, y)) = k + 1 /\ Append(x, y)[k+1] = y
        /\ \A m \in 1..k : Append(x, y)[m] = x[m]
    BY <1>a, <2>a
  <2>6. Len(read[j]) = k + 1
    BY <2>a, <2>d
  <2>7. ASSUME NEW m \in 1..(k+1) PROVE read[j][m] = tok[m]
    <3>1. CASE m = k + 1
      BY <2>a, <2>c, <2>d, <3>1
    <3>2. CASE m \in 1..k
      BY <2>a, <2>b, <2>d, <3>2
    <3> QED
      BY <2>a, <3>1, <3>2
  <2>8. /\ ~e[at[k+1]] /\ Len(read[at[k+1]]) = k + 1
        /\ \A m \in 1..(k+1) : read[at[k+1]][m] = tok[m]
    BY <2>4, <2>6, <2>7 DEF j
  <2>9. k + 1 \in 0..n
    BY <2>1
  <2> QED
    BY <2>8, <2>9, Zenon DEF P
<1> HIDE DEF P
<1>5. \A k \in 0..n : k \in P
  BY <1>3, <1>4, Ascent
<1>6. n \in P
  BY <1>5
<1> QED
  BY <1>0, <1>1, <1>6 DEF P, T, TokensAre

(* A sequence joined from parts holds each part after those before it.     *)
InPlace(g, d, k) ==
  /\ Len(g[k]) = Len(g[k-1]) + Len(d[k]) /\ Len(g[k]) <= Len(g[Len(d)])
  /\ \A i \in 1..Len(d[k]) : g[Len(d)][Len(g[k-1]) + i] = d[k][i]

LEMMA PartsInPlace ==
  ASSUME NEW S, NEW d \in Seq(Seq(S)), NEW g, JoinsParts(g, d, S)
  PROVE  \A k \in 1..Len(d) : InPlace(g, d, k)
<1> DEFINE n == Len(d)
           T == Seq(S)
           Begins(x, y) == /\ Len(x) <= Len(y)
                           /\ \A i \in 1..Len(x) : y[i] = x[i]
           P == {m \in 0..n : \A k \in 0..m : Begins(g[k], g[m])}
<1>1. n \in Nat /\ \A k \in 1..n : d[k] \in T
  OBVIOUS
<1>2. \A x \in T : Len(x) \in Nat
  OBVIOUS
<1>3. ASSUME NEW x \in T, NEW y \in T
      PROVE  /\ Len(x \o y) = Len(x) + Len(y)
             /\ \A i \in 1..Len(x) : (x \o y)[i] = x[i]
             /\ \A i \in 1..Len(y) : (x \o y)[Len(x) + i] = y[i]
  OBVIOUS
<1>4. \A k \in 0..n : g[k] \in T
  BY DEF JoinsParts
<1>5. \A k \in 1..n : g[k] = g[k-1] \o d[k]
  BY DEF JoinsParts
<1> HIDE DEF n, T
<1>6. ASSUME NEW k \in 1..n
      PROVE  /\ g[k-1] \in T /\ d[k] \in T /\ g[k] = g[k-1] \o d[k]
             /\ k - 1 \in 0..n /\ k \in 0..n
  <2>1. k - 1 \in 0..n /\ k \in 0..n
    BY <1>1
  <2> QED
    BY <1>1, <1>4, <1>5, <2>1
<1>b. ASSUME NEW x \in T, NEW y \in T
      PROVE  Begins(x, x) /\ Begins(x, x \o y)
  BY <1>2, <1>3
<1>t. ASSUME NEW x \in T, NEW y \in T, NEW z \in T, Begins(x, y), Begins(y, z)
      PROVE  Begins(x, z)
  <2>1. Len(x) \in Nat /\ Len(y) \in Nat /\ Len(z) \in Nat
    BY <1>2
  <2>2. ASSUME NEW i \in 1..Len(x) PROVE z[i] = x[i]
    <3>1. i \in 1..Len(y)
      BY <1>t, <2>1
    <3> QED
      BY <1>t, <3>1
  <2> QED
    BY <1>t, <2>1, <2>2
<1> HIDE DEF Begins
<1>7. 0 \in P
  <2>1. \A k \in 0..0 : k = 0
    OBVIOUS
  <2>2. Begins(g[0], g[0])
    BY <1>1, <1>4, <1>b
  <2> QED
    BY <1>1, <2>1, <2>2
<1>8. ASSUME NEW m \in 0..(n-1), m \in P
      PROVE  m + 1 \in P
  <2>1. m + 1 \in 1..n /\ (m + 1) - 1 = m /\ m + 1 \in 0..n /\ m \in Nat
    BY <1>1
  <2>2. g[m] \in T /\ d[m+1] \in T /\ g[m+1] = g[m] \o d[m+1] /\ g[m+1] \in T
    BY <1>4, <1>6, <2>1
  <2>3. Begins(g[m], g[m+1]) /\ Begins(g[m+1], g[m+1])
    BY <1>b, <2>2
  <2>4. \A k \in 0..m : Begins(g[k], g[m])
    BY <1>8
  <2>5. ASSUME NEW k \in 0..(m+1) PROVE Begins(g[k], g[m+1])
    <3>1. CASE k = m + 1
      BY <2>3, <3>1
    <3>2. CASE k \in 0..m
      <4>1. g[k] \in T
        BY <1>1, <1>4, <3>2
      <4> QED
        BY <1>t, <2>2, <2>3, <2>4, <3>2, <4>1
    <3> QED
      BY <2>1, <3>1, <3>2
  <2> QED
    BY <2>1, <2>5
<1> HIDE DEF P
<1>a. \A k \in 0..n : k \in P
  BY <1>1, <1>7, <1>8, Ascent
<1>9. \A k \in 0..n : Begins(g[k], g[n])
  BY <1>1, <1>a DEF P
<1>10. ASSUME NEW k \in 1..n
       PROVE  /\ Len(g[k]) = Len(g[k-1]) + Len(d[k])
              /\ Len(g[k]) <= Len(g[n])
              /\ \A i \in 1..Len(d[k]) : g[n][Len(g[k-1]) + i] = d[k][i]
  <2>1. /\ g[k] \in T /\ g[n] \in T
        /\ Len(g[k]) <= Len(g[n])
        /\ \A i \in 1..Len(g[k]) : g[n][i] = g[k][i]
    BY <1>1, <1>4, <1>6, <1>9 DEF Begins
  <2> DEFINE x == g[k-1]
             y == d[k]
  <2>0. x \in T /\ y \in T /\ g[k] = x \o y
    BY <1>6
  <2> HIDE DEF x, y
  <2>2. /\ Len(g[k]) = Len(x) + Len(y)
        /\ Len(x) \in Nat /\ Len(y) \in Nat
    BY <1>2, <1>3, <2>0
  <2>3. ASSUME NEW i \in 1..Len(y)
        PROVE  g[n][Len(x) + i] = y[i]
    <3>1. g[k][Len(x) + i] = y[i]
      BY <1>3, <2>0
    <3>2. Len(x) + i \in 1..Len(g[k])
      BY <2>2
    <3> QED
      BY <2>1, <3>1, <3>2
  <2> QED
    BY <2>1, <2>2, <2>3 DEF x, y
<1> QED
  BY <1>10 DEF n, InPlace

(* Where escaping puts the rune c: at j, after what ends at i.             *)
Placed(M, e, i, j, c) ==
  IF c \in M THEN j = i + 2 /\ e[i + 1] = "\\" /\ e[j] = c
  ELSE j = i + 1 /\ e[j] = c

LEMMA EscapedPlaces ==
  ASSUME NEW S, NEW s \in Seq(S), NEW M
  PROVE  /\ Escaped(M, s) \in Seq(S \cup {"\\"})
         /\ \E at \in [0..Len(s) -> 0..Len(Escaped(M, s))] :
              /\ at[0] = 0 /\ at[Len(s)] = Len(Escaped(M, s))
              /\ \A k \in 1..Len(s) : Placed(M, Escaped(M, s), at[k-1], at[k], s[k])
<1> DEFINE R == S \cup {"\\"}
           n == Len(s)
           d == [k \in DOMAIN s |-> IF s[k] \in M THEN <<"\\", s[k]>> ELSE <<s[k]>>]
           e == Escaped(M, s)
<1>1. /\ n \in Nat /\ DOMAIN s = 1..n
      /\ \A k \in 1..n : s[k] \in S
  OBVIOUS
<1>2. ASSUME NEW k \in 1..n
      PROVE  /\ d[k] \in Seq(R)
             /\ d[k] = IF s[k] \in M THEN <<"\\", s[k]>> ELSE <<s[k]>>
  <2>1. k \in DOMAIN s /\ s[k] \in S
    BY <1>1
  <2>2. d[k] = IF s[k] \in M THEN <<"\\", s[k]>> ELSE <<s[k]>>
    BY <2>1, Zenon
  <2>3. <<"\\", s[k]>> \in Seq(R) /\ <<s[k]>> \in Seq(R)
    BY <2>1
  <2> QED
    BY <2>2, <2>3
<1>3. d \in Seq(Seq(R)) /\ Len(d) = n
  BY <1>1, <1>2
<1>4. Len(d) = 0 => d = <<>>
  BY <1>1, <1>3
<1>5. e = IF Len(d) = 0 THEN d ELSE JoinedUpTo(d)[Len(d)]
  BY Zenon DEF Escaped, FlattenSeq, JoinedUpTo
<1> HIDE DEF R, n, d, e
<1>a. PICK g : /\ JoinsParts(g, d, R)
               /\ Len(d) # 0 => g[Len(d)] = JoinedUpTo(d)[Len(d)]
  BY <1>3, JoinedParts
<1>6. /\ g \in [0..Len(d) -> Seq(R)] /\ g[0] = <<>>
      /\ Len(d) # 0 => g[Len(d)] = JoinedUpTo(d)[Len(d)]
  BY <1>a DEF JoinsParts
<1>7. g[n] = e
  BY <1>3, <1>4, <1>5, <1>6
<1>8. \A k \in 1..Len(d) : InPlace(g, d, k)
  BY <1>3, <1>a, PartsInPlace
<1> DEFINE at == [k \in 0..n |-> Len(g[k])]
<1>9. /\ \A k \in 0..n : g[k] \in Seq(R) /\ Len(g[k]) \in Nat
      /\ Len(g[0]) = 0
  <2>1. \A k \in 0..n : g[k] \in Seq(R)
    BY <1>3, <1>6
  <2>2. \A x \in Seq(R) : Len(x) \in Nat
    OBVIOUS
  <2>3. Len(<<>>) = 0
    OBVIOUS
  <2> QED
    BY <1>6, <2>1, <2>2, <2>3
<1>10. ASSUME NEW k \in 0..n PROVE Len(g[k]) \in 0..Len(e)
  <2>1. CASE k = 0
    BY <1>1, <1>7, <1>9, <2>1
  <2>2. CASE k # 0
    <3>1. k \in 1..n
      BY <1>1, <2>2
    <3>2. Len(g[k]) <= Len(e)
      BY <1>3, <1>7, <1>8, <3>1 DEF InPlace
    <3>3. Len(e) \in Nat
      BY <1>1, <1>7, <1>9
    <3> QED
      BY <1>9, <3>2, <3>3
  <2> QED
    BY <2>1, <2>2
<1>11. at \in [0..n -> 0..Len(e)] /\ at[0] = 0 /\ at[n] = Len(e)
  BY <1>1, <1>7, <1>9, <1>10
<1>12. ASSUME NEW k \in 1..n
       PROVE  Placed(M, e, at[k-1], at[k], s[k])
  <2> DEFINE i == Len(g[k-1])
             j == Len(g[k])
  <2>1. k - 1 \in 0..n /\ k \in 0..n
    BY <1>1
  <2>2. at[k-1] = i /\ at[k] = j
    BY <2>1
  <2>3. /\ j = i + Len(d[k]) /\ i \in Nat
        /\ \A m \in 1..Len(d[k]) : e[i + m] = d[k][m]
    BY <1>3, <1>7, <1>8, <1>9, <2>1 DEF InPlace
  <2> HIDE DEF i, j, at
  <2>4. CASE s[k] \in M
    <3>0. d[k] = <<"\\", s[k]>>
      BY <1>2, <2>4
    <3>1. Len(d[k]) = 2 /\ d[k][1] = "\\" /\ d[k][2] = s[k]
      BY <3>0
    <3>2. e[i+1] = "\\" /\ e[i+2] = s[k] /\ j = i + 2
      BY <2>3, <3>1
    <3> QED
      BY <2>2, <2>4, <3>2 DEF Placed
  <2>5. CASE s[k] \notin M
    <3>0. d[k] = <<s[k]>>
      BY <1>2, <2>5
    <3>1. Len(d[k]) = 1 /\ d[k][1] = s[k]
      BY <3>0
    <3>2. e[i+1] = s[k] /\ j = i + 1
      BY <2>3, <3>1
    <3> QED
      BY <2>2, <2>5, <3>2 DEF Placed
  <2> QED
    BY <2>4, <2>5
<1>13. e \in Seq(R)
  BY <1>1, <1>7, <1>9
<1> HIDE DEF at
<1> QED
  BY <1>11, <1>12, <1>13 DEF R, n, e

(* The tokens of likePattern: one for each rune of the policy value, its   *)
(* wildcards renamed and everything else taken for itself.                 *)
LikeToken(c) ==
  CASE c = "*" -> Wild("%") [] c = "?" -> Wild("_") [] OTHER -> Char(c)

LEMMA LikePatternRead ==
  ASSUME NEW S, NEW s \in Seq(S)
  PROVE  \E T : /\ Tokens(LikePattern(s)) \in Seq(T)
                /\ Len(Tokens(LikePattern(s))) = Len(s)
                /\ \A k \in 1..Len(s) : Tokens(LikePattern(s))[k] = LikeToken(s[k])
<1> DEFINE M == {"\\", "%", "_"}
           R == S \cup M
           n == Len(s)
           e == EscapeLike(s)
           p == LikePattern(s)
           tok == [k \in 1..n |-> LikeToken(s[k])]
<1>1. n \in Nat
  OBVIOUS
<1>2. /\ e \in Seq(S \cup {"\\"})
      /\ \E at \in [0..n -> 0..Len(e)] :
           /\ at[0] = 0 /\ at[n] = Len(e)
           /\ \A k \in 1..n : Placed(M, e, at[k-1], at[k], s[k])
  BY EscapedPlaces, Zenon DEF EscapeLike
<1>3. Len(e) \in Nat /\ DOMAIN e = 1..Len(e) /\ \A j \in 1..Len(e) : e[j] \in R
  <2> DEFINE Q == S \cup {"\\"}
  <2>1. e \in Seq(Q) /\ Q \subseteq R
    BY <1>2
  <2> HIDE DEF e, Q, R
  <2> QED
    BY <2>1
<1>4. p = [j \in DOMAIN e |-> CASE e[j] = "*" -> "%" [] e[j] = "?" -> "_" [] OTHER -> e[j]]
  BY Zenon DEF LikePattern, Renamed
<1> HIDE DEF e, p
<1>5. ASSUME NEW j \in 1..Len(e)
      PROVE  p[j] = CASE e[j] = "*" -> "%" [] e[j] = "?" -> "_" [] OTHER -> e[j]
  BY <1>3, <1>4
<1>6. p \in Seq(R) /\ Len(p) = Len(e)
  <2>1. \A j \in 1..Len(e) : p[j] \in R
    BY <1>3, <1>5
  <2>2. p = [j \in 1..Len(e) |-> p[j]]
    BY <1>3, <1>4, Zenon
  <2> HIDE DEF R
  <2>3. p \in [1..Len(e) -> R]
    BY <2>1, <2>2, Zenon
  <2> QED
    BY <1>3, <2>3
<1>7. PICK at \in [0..n -> 0..Len(e)] :
        /\ at[0] = 0 /\ at[n] = Len(e)
        /\ \A k \in 1..n : Placed(M, e, at[k-1], at[k], s[k])
  BY <1>2
<1> HIDE DEF n, M
<1>8. ASSUME NEW k \in 1..n
      PROVE  Reads(p, at[k-1], at[k], tok[k])
  <2> DEFINE i == at[k-1]
             j == at[k]
             c == s[k]
  <2>1. i \in 0..Len(e) /\ j \in 0..Len(e)
    BY <1>1, <1>7
  <2>2. Placed(M, e, i, j, c) /\ tok[k] = LikeToken(c)
    BY <1>7
  <2> HIDE DEF i, j, c, tok
  <2>3. CASE c \in M
    <3>1. j = i + 2 /\ e[i+1] = "\\" /\ e[j] = c
      BY <2>2, <2>3 DEF Placed
    <3>2. i + 1 \in 1..Len(e) /\ j \in 1..Len(e)
      BY <1>3, <2>1, <3>1
    <3>3. p[i+1] = "\\" /\ p[j] = c
      BY <1>5, <2>3, <3>1, <3>2 DEF M
    <3>4. LikeToken(c) = Char(c)
      BY <2>3 DEF LikeToken, M
    <3> QED
      BY <2>2, <3>1, <3>3, <3>4 DEF Reads, i, j
  <2>4. CASE c \notin M
    <3>1. j = i + 1 /\ e[j] = c
      BY <2>2, <2>4 DEF Placed
    <3>2. j \in 1..Len(e)
      BY <1>3, <2>1, <3>1
    <3>3. p[j] = CASE c = "*" -> "%" [] c = "?" -> "_" [] OTHER -> c
      BY <1>5, <3>1, <3>2
    <3>4. /\ p[j] # "\\"
          /\ LikeToken(c) = IF p[j] \in {"%", "_"} THEN Wild(p[j]) ELSE Char(p[j])
      BY <2>4, <3>3 DEF LikeToken, M
    <3> QED
      BY <2>2, <3>1, <3>4 DEF Reads, i, j
  <2> QED
    BY <2>3, <2>4
<1>9. /\ Tokens(p) \in Seq(Symbols(R)) /\ Len(Tokens(p)) = n
      /\ \A k \in 1..n : Tokens(p)[k] = tok[k]
  <2> HIDE DEF R, tok
  <2>1. CutInto(p, n, at, tok)
    BY <1>6, <1>7, <1>8 DEF CutInto
  <2>2. Tokens(p) \in Seq(Symbols(R)) /\ TokensAre(p, n, tok)
    BY <1>1, <1>6, <2>1, PiecesRead
  <2> QED
    BY <2>2 DEF TokensAre
<1>10. \A k \in 1..n : tok[k] = LikeToken(s[k])
  OBVIOUS
<1> HIDE DEF tok
<1> QED
  BY <1>9, <1>10 DEF p, n

(* The tokens of the prefix pattern: the runes of the prefix, a slash, and *)
(* anything.                                                               *)
LEMMA UnderPatternRead ==
  ASSUME NEW S, NEW s \in Seq(S)
  PROVE  \E T : /\ Tokens(UnderPattern(s)) \in Seq(T)
                /\ Len(Tokens(UnderPattern(s))) = Len(s) + 2
                /\ \A k \in 1..Len(s) : Tokens(UnderPattern(s))[k] = Char(s[k])
                /\ Tokens(UnderPattern(s))[Len(s) + 1] = Char("/")
                /\ Tokens(UnderPattern(s))[Len(s) + 2] = Wild("%")
<1> DEFINE M == {"\\", "%", "_"}
           R == S \cup {"\\", "/", "%"}
           n == Len(s)
           e == EscapeLike(s)
           p == UnderPattern(s)
           tok == [k \in 1..(n+2) |-> IF k = n + 2 THEN Wild("%")
                                      ELSE IF k = n + 1 THEN Char("/") ELSE Char(s[k])]
<1>1. n \in Nat
  OBVIOUS
<1>2. /\ e \in Seq(S \cup {"\\"})
      /\ \E at \in [0..n -> 0..Len(e)] :
           /\ at[0] = 0 /\ at[n] = Len(e)
           /\ \A k \in 1..n : Placed(M, e, at[k-1], at[k], s[k])
  BY EscapedPlaces, Zenon DEF EscapeLike
<1>3. p = e \o <<"/", "%">>
  BY Zenon DEF UnderPattern
<1> HIDE DEF e, p
<1>4. e \in Seq(R) /\ Len(e) \in Nat
  <2> DEFINE Q == S \cup {"\\"}
  <2>1. e \in Seq(Q) /\ Q \subseteq R
    BY <1>2
  <2> HIDE DEF Q, R
  <2> QED
    BY <2>1
<1>5. /\ p \in Seq(R) /\ Len(p) = Len(e) + 2
      /\ \A j \in 1..Len(e) : p[j] = e[j]
      /\ p[Len(e) + 1] = "/" /\ p[Len(e) + 2] = "%"
  <2> DEFINE tail == <<"/", "%">>
  <2>1. tail \in Seq(R) /\ Len(tail) = 2 /\ tail[1] = "/" /\ tail[2] = "%"
    OBVIOUS
  <2>2. p = e \o tail
    BY <1>3
  <2> HIDE DEF tail, R
  <2>a. ASSUME NEW x \in Seq(R), NEW y \in Seq(R)
        PROVE  /\ x \o y \in Seq(R) /\ Len(x \o y) = Len(x) + Len(y)
               /\ \A j \in 1..Len(x) : (x \o y)[j] = x[j]
               /\ \A j \in 1..Len(y) : (x \o y)[Len(x) + j] = y[j]
    OBVIOUS
  <2>b. /\ e \o tail \in Seq(R) /\ Len(e \o tail) = Len(e) + Len(tail)
        /\ \A j \in 1..Len(e) : (e \o tail)[j] = e[j]
        /\ \A j \in 1..Len(tail) : (e \o tail)[Len(e) + j] = tail[j]
    BY <1>4, <2>1, <2>a
  <2>3. p \in Seq(R) /\ Len(p) = Len(e) + 2
    BY <2>1, <2>2, <2>b
  <2>4. /\ \A j \in 1..Len(e) : p[j] = e[j]
        /\ \A j \in 1..2 : p[Len(e) + j] = tail[j]
    BY <2>1, <2>2, <2>b
  <2> QED
    BY <2>1, <2>3, <2>4
<1>6. PICK at \in [0..n -> 0..Len(e)] :
        /\ at[0] = 0 /\ at[n] = Len(e)
        /\ \A k \in 1..n : Placed(M, e, at[k-1], at[k], s[k])
  BY <1>2
<1> DEFINE to == [k \in 0..(n+2) |-> IF k <= n THEN at[k] ELSE Len(e) + (k - n)]
<1> HIDE DEF n, M
<1>7. /\ \A k \in 0..n : to[k] = at[k] /\ at[k] \in 0..Len(e)
      /\ to[n+1] = Len(e) + 1 /\ to[n+2] = Len(e) + 2
  BY <1>1, <1>4, <1>6
<1>8. to \in [0..(n+2) -> 0..Len(p)] /\ to[0] = 0 /\ to[n+2] = Len(p)
  <2>1. ASSUME NEW k \in 0..(n+2) PROVE to[k] \in 0..Len(p)
    <3>1. k \in 0..n \/ k = n + 1 \/ k = n + 2
      BY <1>1
    <3> HIDE DEF to
    <3> QED
      BY <1>1, <1>4, <1>5, <1>7, <3>1
  <2> QED
    BY <1>1, <1>5, <1>6, <1>7, <2>1
<1>9. /\ \A k \in 1..n : tok[k] = Char(s[k])
      /\ tok[n+1] = Char("/") /\ tok[n+2] = Wild("%")
  BY <1>1
<1> HIDE DEF tok, to
<1>10. ASSUME NEW k \in 1..(n+2)
       PROVE  Reads(p, to[k-1], to[k], tok[k])
  <2>1. CASE k \in 1..n
    <3> DEFINE i == at[k-1]
               j == at[k]
               c == s[k]
    <3>1. k - 1 \in 0..n /\ k \in 0..n
      BY <1>1, <2>1
    <3>2. /\ i \in 0..Len(e) /\ j \in 0..Len(e)
          /\ to[k-1] = i /\ to[k] = j /\ tok[k] = Char(c)
      BY <1>7, <1>9, <2>1, <3>1
    <3>3. Placed(M, e, i, j, c)
      BY <1>6, <2>1
    <3> HIDE DEF i, j, c
    <3>4. CASE c \in M
      <4>1. j = i + 2 /\ e[i+1] = "\\" /\ e[j] = c
        BY <3>3, <3>4 DEF Placed
      <4>2. i + 1 \in 1..Len(e) /\ j \in 1..Len(e)
        BY <1>4, <3>2, <4>1
      <4>3. p[i+1] = "\\" /\ p[j] = c
        BY <1>5, <4>1, <4>2
      <4> QED
        BY <3>2, <4>1, <4>3 DEF Reads
    <3>5. CASE c \notin M
      <4>1. j = i + 1 /\ e[j] = c
        BY <3>3, <3>5 DEF Placed
      <4>2. j \in 1..Len(e)
        BY <1>4, <3>2, <4>1
      <4>3. p[j] = c /\ c # "\\" /\ c \notin {"%", "_"}
        BY <1>5, <3>5, <4>1, <4>2 DEF M
      <4> QED
        BY <3>2, <4>1, <4>3 DEF Reads
    <3> QED
      BY <3>4, <3>5
  <2>2. CASE k = n + 1
    <3>1. /\ k - 1 = n /\ n \in 0..n
      BY <1>1, <2>2
    <3>2. to[k-1] = Len(e) /\ to[k] = Len(e) + 1 /\ tok[k] = Char("/")
      BY <1>6, <1>7, <1>9, <2>2, <3>1
    <3> QED
      BY <1>5, <3>2 DEF Reads
  <2>3. CASE k = n + 2
    <3>1. k - 1 = n + 1
      BY <1>1, <2>3
    <3>2. to[k-1] = Len(e) + 1 /\ to[k] = Len(e) + 2 /\ tok[k] = Wild("%")
      BY <1>7, <1>9, <2>3, <3>1
    <3>3. to[k] = to[k-1] + 1
      BY <1>4, <3>2
    <3> QED
      BY <1>5, <3>2, <3>3 DEF Reads
  <2> QED
    BY <1>1, <2>1, <2>2, <2>3
<1>11. /\ Tokens(p) \in Seq(Symbols(R)) /\ Len(Tokens(p)) = n + 2
       /\ \A k \in 1..(n+2) : Tokens(p)[k] = tok[k]
  <2> HIDE DEF R
  <2>1. n + 2 \in Nat
    BY <1>1
  <2>2. CutInto(p, n + 2, to, tok)
    BY <1>8, <1>10 DEF CutInto
  <2>3. Tokens(p) \in Seq(Symbols(R)) /\ TokensAre(p, n + 2, tok)
    BY <1>5, <2>1, <2>2, PiecesRead
  <2> QED
    BY <2>3 DEF TokensAre
<1>12. /\ \A k \in 1..n : Tokens(p)[k] = Char(s[k])
       /\ Tokens(p)[n+1] = Char("/") /\ Tokens(p)[n+2] = Wild("%")
  <2>1. \A k \in 1..n : k \in 1..(n+2)
    BY <1>1
  <2>2. n + 1 \in 1..(n+2) /\ n + 2 \in 1..(n+2)
    BY <1>1
  <2> QED
    BY <1>9, <1>11, <2>1, <2>2
<1> QED
  BY <1>11, <1>12 DEF p, n

(* Symbols of a LIKE pattern are equal when they were made alike.          *)
LEMMA SymbolsDiffer ==
  /\ \A c, x : (Char(c) = Char(x) <=> c = x) /\ Char(c) # Wild(x)
  /\ Wild("_") # Wild("%")
BY DEF Char, Wild

(* SQL's LIKE on the translated policy value is the glob matching of the   *)
(* policy value itself, whatever runes the two hold.                       *)
SqlWildcards == [one |-> Wild("_"), many |-> Wild("%")]

LEMMA LikeExact ==
  ASSUME NEW S, NEW s \in Seq(S), NEW t \in Seq(S)
  PROVE  Like(t, LikePattern(s)) <=> Matches(W, s, t)
<1> DEFINE G == Tokens(LikePattern(s))
           tt == [k \in DOMAIN t |-> Char(t[k])]
           n == Len(s)
           m == Len(t)
<1>1. n \in Nat /\ m \in Nat /\ DOMAIN t = 1..m
  OBVIOUS
<1>2. Len(G) = n /\ \A k \in 1..n : G[k] = LikeToken(s[k])
  BY LikePatternRead
<1>3. Len(tt) = m /\ \A k \in 1..m : tt[k] = Char(t[k])
  BY <1>1
<1>4. Like(t, LikePattern(s)) <=> Matches(SqlWildcards, G, tt)
  BY Zenon DEF Like, SqlWildcards
<1> HIDE DEF G, tt, n, m
<1>5. ASSUME NEW k \in 1..n, NEW a \in 0..m, NEW b \in 0..m
      PROVE  Consumes(SqlWildcards, G[k], tt, a, b) <=> Consumes(W, s[k], t, a, b)
  <2> DEFINE c == s[k]
  <2>1. G[k] = LikeToken(c)
    BY <1>2
  <2>2. b = a + 1 => tt[b] = Char(t[b])
    BY <1>1, <1>3
  <2> HIDE DEF c
  <2>3. /\ SqlWildcards.one = Wild("_") /\ SqlWildcards.many = Wild("%")
        /\ W.one = "?" /\ W.many = "*"
    BY DEF SqlWildcards, W, LikeWildcards
  <2>4. CASE c = "*"
    <3>1. LikeToken(c) = Wild("%")
      BY <2>4 DEF LikeToken
    <3> QED
      BY <2>1, <2>3, <2>4, <3>1 DEF Consumes, c
  <2>5. CASE c = "?"
    <3>1. LikeToken(c) = Wild("_") /\ c # "*"
      BY <2>5 DEF LikeToken
    <3> QED
      BY <2>1, <2>3, <2>5, <3>1, SymbolsDiffer DEF Consumes, c
  <2>6. CASE c # "*" /\ c # "?"
    <3>1. LikeToken(c) = Char(c)
      BY <2>6 DEF LikeToken
    <3>2. Char(c) # Wild("%") /\ Char(c) # Wild("_")
      BY SymbolsDiffer
    <3>3. b = a + 1 => (Char(c) = tt[b] <=> c = t[b])
      BY <2>2, SymbolsDiffer
    <3> HIDE DEF W
    <3> QED
      BY <2>1, <2>3, <2>6, <3>1, <3>2, <3>3 DEF Consumes, c
  <2> QED
    BY <2>4, <2>5, <2>6
<1>6. ASSUME NEW a \in [0..n -> 0..m]
      PROVE  (\A k \in 1..n : Consumes(SqlWildcards, G[k], tt, a[k-1], a[k]))
               <=> (\A k \in 1..n : Consumes(W, s[k], t, a[k-1], a[k]))
  <2>1. \A k \in 1..n : a[k-1] \in 0..m /\ a[k] \in 0..m
    BY <1>1
  <2> QED
    BY <1>5, <2>1
<1>7. Matches(SqlWildcards, G, tt)
        <=> \E a \in [0..n -> 0..m] :
              /\ a[0] = 0 /\ a[n] = m
              /\ \A k \in 1..n : Consumes(SqlWildcards, G[k], tt, a[k-1], a[k])
  BY <1>2, <1>3 DEF Matches, SuffixMatches
<1>8. Matches(W, s, t)
        <=> \E a \in [0..n -> 0..m] :
              /\ a[0] = 0 /\ a[n] = m
              /\ \A k \in 1..n : Consumes(W, s[k], t, a[k-1], a[k])
  BY DEF Matches, SuffixMatches, n, m
<1> QED
  BY <1>4, <1>6, <1>7, <1>8

(* SQL's LIKE on a prefix pattern accepts what starts with the prefix and  *)
(* a slash.                                                                *)
LEMMA PrefixExact ==
  ASSUME NEW S, NEW s \in Seq(S), NEW t \in Seq(S)
  PROVE  Like(t, UnderPattern(s)) <=> IsPrefix(s \o <<"/">>, t)
<1> DEFINE G == Tokens(UnderPattern(s))
           tt == [k \in DOMAIN t |-> Char(t[k])]
           q == s \o <<"/">>
           n == Len(s) + 1
           m == Len(t)
<1>1. n \in Nat /\ n >= 1 /\ m \in Nat /\ DOMAIN t = 1..m
  OBVIOUS
<1>2. /\ Len(q) = n /\ q[n] = "/" /\ \A k \in 1..(n-1) : q[k] = s[k]
      /\ q \in Seq(S \cup {"/"})
  OBVIOUS
<1>3. /\ Len(G) = n + 1 /\ G[n+1] = Wild("%")
      /\ \A k \in 1..n : G[k] = Char(q[k])
  <2>1. /\ Len(G) = Len(s) + 2 /\ G[Len(s) + 2] = Wild("%")
        /\ G[Len(s) + 1] = Char("/") /\ \A k \in 1..Len(s) : G[k] = Char(s[k])
    BY UnderPatternRead
  <2>2. n = Len(s) + 1 /\ n + 1 = Len(s) + 2 /\ n - 1 = Len(s)
    OBVIOUS
  <2> HIDE DEF G, n, q
  <2>3. ASSUME NEW k \in 1..n PROVE G[k] = Char(q[k])
    <3>1. CASE k = n
      BY <1>2, <2>1, <2>2, <3>1
    <3>2. CASE k \in 1..(n-1)
      BY <1>2, <2>1, <2>2, <3>2
    <3> QED
      BY <1>1, <3>1, <3>2
  <2> QED
    BY <2>1, <2>2, <2>3
<1>4. Len(tt) = m /\ \A k \in 1..m : tt[k] = Char(t[k])
  BY <1>1
<1>5. Like(t, UnderPattern(s)) <=> Matches(SqlWildcards, G, tt)
  BY Zenon DEF Like, SqlWildcards
<1>6. IsPrefix(q, t) <=> n <= m /\ \A k \in 1..n : q[k] = t[k]
  <2> DEFINE T == S \cup {"/"}
  <2>1. q \in Seq(T) /\ t \in Seq(T)
    BY <1>2
  <2> HIDE DEF q, n, T
  <2>2. SubSeq(q, 1, n) = q
    BY <1>2, <2>1, WholeSequence
  <2>3. ASSUME n <= m
        PROVE  SubSeq(q, 1, n) = SubSeq(t, 1, n) <=> \A k \in 1..n : q[k] = t[k]
    <3>1. /\ SubSeq(q, 1, n) \in Seq(T) /\ SubSeq(t, 1, n) \in Seq(T)
          /\ Len(SubSeq(q, 1, n)) = n /\ Len(SubSeq(t, 1, n)) = n
          /\ \A k \in 1..n : SubSeq(q, 1, n)[k] = q[k] /\ SubSeq(t, 1, n)[k] = t[k]
      BY <1>1, <1>2, <2>1, <2>3
    <3> QED
      BY <1>2, <3>1, SameSequence
  <2> QED
    BY <1>2, <2>3 DEF IsPrefix
<1> HIDE DEF G, tt, q, n, m
<1>7. /\ SqlWildcards.one = Wild("_") /\ SqlWildcards.many = Wild("%")
  BY DEF SqlWildcards
<1>8. Matches(SqlWildcards, G, tt)
        <=> \E a \in [0..(n+1) -> 0..m] :
              /\ a[0] = 0 /\ a[n+1] = m
              /\ \A k \in 1..(n+1) : Consumes(SqlWildcards, G[k], tt, a[k-1], a[k])
  BY <1>3, <1>4 DEF Matches, SuffixMatches
<1>9. ASSUME NEW k \in 1..n, NEW x \in 0..m, NEW y \in 0..m
      PROVE  Consumes(SqlWildcards, G[k], tt, x, y) <=> y = x + 1 /\ q[k] = t[y]
  <2>1. G[k] = Char(q[k]) /\ G[k] # Wild("%") /\ G[k] # Wild("_")
    <3>1. G[k] = Char(q[k])
      BY <1>3
    <3>2. Char(q[k]) # Wild("%") /\ Char(q[k]) # Wild("_")
      BY SymbolsDiffer
    <3> QED
      BY <3>1, <3>2
  <2>2. y = x + 1 => tt[y] = Char(t[y])
    BY <1>1, <1>4
  <2>3. y = x + 1 => (G[k] = tt[y] <=> q[k] = t[y])
    BY <2>1, <2>2, SymbolsDiffer
  <2> QED
    BY <1>7, <2>1, <2>3 DEF Consumes
<1>10. ASSUME NEW a \in [0..(n+1) -> 0..m], a[0] = 0,
              \A k \in 1..(n+1) : Consumes(SqlWildcards, G[k], tt, a[k-1], a[k])
       PROVE  n <= m /\ \A k \in 1..n : q[k] = t[k]
  <2>1. ASSUME NEW k \in 1..n
        PROVE  a[k] = a[k-1] + 1 /\ q[k] = t[a[k]]
    <3>1. k \in 1..(n+1) /\ a[k-1] \in 0..m /\ a[k] \in 0..m
      BY <1>1
    <3> QED
      BY <1>9, <1>10, <3>1
  <2> DEFINE P == {k \in 0..n : a[k] = k}
  <2>2. 0 \in P
    BY <1>1, <1>10
  <2>3. ASSUME NEW k \in 0..(n-1), k \in P PROVE k + 1 \in P
    <3>1. k + 1 \in 1..n /\ (k + 1) - 1 = k /\ k + 1 \in 0..n /\ a[k] = k
      BY <1>1, <2>3
    <3>2. a[k+1] = k + 1
      BY <2>1, <3>1
    <3> QED
      BY <3>1, <3>2
  <2> HIDE DEF P
  <2>4. \A k \in 0..n : k \in P
    BY <1>1, <2>2, <2>3, Ascent
  <2>5. \A k \in 0..n : a[k] = k
    BY <2>4 DEF P
  <2>6. a[n] \in 0..m /\ n \in 0..n
    BY <1>1
  <2>7. n <= m
    BY <1>1, <2>5, <2>6
  <2>8. ASSUME NEW k \in 1..n PROVE q[k] = t[k]
    <3>1. k \in 0..n
      BY <1>1
    <3> QED
      BY <2>1, <2>5, <3>1
  <2> QED
    BY <2>7, <2>8
<1>11. ASSUME n <= m, \A k \in 1..n : q[k] = t[k]
       PROVE  \E a \in [0..(n+1) -> 0..m] :
                /\ a[0] = 0 /\ a[n+1] = m
                /\ \A k \in 1..(n+1) : Consumes(SqlWildcards, G[k], tt, a[k-1], a[k])
  <2> DEFINE a == [k \in 0..(n+1) |-> IF k = n + 1 THEN m ELSE k]
  <2>1. a \in [0..(n+1) -> 0..m] /\ a[0] = 0 /\ a[n+1] = m
    BY <1>1, <1>11
  <2>2. \A k \in 0..n : a[k] = k /\ k \in 0..m
    BY <1>1, <1>11
  <2> HIDE DEF a
  <2>3. ASSUME NEW k \in 1..(n+1)
        PROVE  Consumes(SqlWildcards, G[k], tt, a[k-1], a[k])
    <3>1. CASE k = n + 1
      <4>1. k - 1 = n /\ n \in 0..n
        BY <1>1, <3>1
      <4>2. a[k-1] = n /\ a[k] = m /\ G[k] = Wild("%")
        BY <1>3, <2>1, <2>2, <3>1, <4>1
      <4> QED
        BY <1>1, <1>7, <1>11, <4>2 DEF Consumes
    <3>2. CASE k \in 1..n
      <4>1. k - 1 \in 0..n /\ k \in 0..n /\ k = (k - 1) + 1
        BY <1>1, <3>2
      <4>2. a[k-1] = k - 1 /\ a[k] = k /\ k - 1 \in 0..m /\ k \in 0..m
        BY <2>2, <4>1
      <4> QED
        BY <1>9, <1>11, <3>2, <4>1, <4>2
    <3> QED
      BY <1>1, <3>1, <3>2
  <2> QED
    BY <2>1, <2>3
<1>12. Matches(SqlWildcards, G, tt) <=> n <= m /\ \A k \in 1..n : q[k] = t[k]
  BY <1>8, <1>10, <1>11
<1> QED
  BY <1>5, <1>6, <1>12 DEF q

(* The database selects the values StringLike accepts: the clause and      *)
(* wildcardMatch agree on every policy value and every text without a "*"  *)
(* (the property LikeAgreesWithGate).                                      *)
THEOREM LikeSelectsAsGate == Spec => []LikeAgreesWithGate
<1>1. IInv => LikeAgreesWithGate
  <2> SUFFICES ASSUME IInv, pc = "done", Plain(text)
               PROVE  result <=> Like(text, LikePattern(pat))
    BY DEF LikeAgreesWithGate
  <2>1. Like(text, LikePattern(pat)) <=> Matches(W, pat, text)
    BY Typing, LikeExact DEF IInv
  <2>2. result <=> Matches(W, pat, text)
    BY DEF IInv, NoFalseMatch, FindsPlainMatch, W
  <2> QED
    BY <2>1, <2>2
<1> QED
  BY <1>1, InvInit, InvNext, PTL DEF Spec

(* The prefix pattern of resourcePred selects exactly what lies below the  *)
(* prefix, whatever metacharacters of LIKE the prefix holds (the property  *)
(* PrefixSelectsBelow).                                                    *)
THEOREM PrefixSelectsExactly == Spec => []PrefixSelectsBelow
<1>1. TypeOK => PrefixSelectsBelow
  BY Typing, PrefixExact DEF PrefixSelectsBelow
<1> QED
  BY <1>1, TypeCorrect, PTL
=============================================================================
