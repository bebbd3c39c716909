----------------------------- MODULE SharedLemmas -----------------------------
(***************************************************************************)
(* What the proofs of several components rest on: induction over positions *)
(* and loops that fill a sequence, how a glob match grows and shrinks at   *)
(* its ends, and what partial evaluation preserves.                        *)
(***************************************************************************)
EXTENDS Statements, FiniteSetsExt, WellFoundedInduction, TLAPS

(* A non-empty set of positions has a first one.                           *)
LEMMA FirstPosition ==
  ASSUME NEW T, T \subseteq Nat, T # {}
  PROVE  \E x \in T : \A y \in T : x <= y
<1>1. PICK x \in T : \A y \in T : ~(<<y, x>> \in OpToRel(<, Nat))
  BY NatLessThanWellFounded, WFMin
<1>2. \A y \in T : ~(y < x)
  BY <1>1 DEF OpToRel
<1> QED
  BY <1>2

(* The least of a set of positions.                                        *)
LEMMA MinIsFirst ==
  ASSUME NEW T, T \subseteq Nat, NEW x \in T, \A y \in T : x <= y
  PROVE  Min(T) = x
<1>1. \A z \in T : (\A y \in T : z <= y) => z = x
  OBVIOUS
<1>2. Min(T) \in T /\ \A y \in T : Min(T) <= y
  BY DEF Min
<1> QED
  BY <1>1, <1>2

LEMMA FirstIn ==
  ASSUME NEW n \in Nat, NEW S, S \subseteq 1..n, NEW p \in S,
         \A q \in 1..(p-1) : q \notin S
  PROVE  Min(S) = p /\ S # {}
<1>1. p \in 1..n /\ S \subseteq Nat
  OBVIOUS
<1>2. \A q \in S : p <= q
  <2>1. SUFFICES ASSUME NEW q \in S, ~(p <= q)
                 PROVE  FALSE
    OBVIOUS
  <2>2. q \in 1..n
    BY <2>1
  <2>3. q \in 1..(p-1)
    BY <1>1, <2>1, <2>2
  <2> QED
    BY <2>1, <2>3
<1> QED
  BY <1>1, <1>2, MinIsFirst

(* A non-empty set of positions in a sequence has a last one.              *)
LEMMA MaxIsLast ==
  ASSUME NEW n \in Nat, NEW T, T \subseteq 1..n, T # {}
  PROVE  Max(T) \in T /\ \A y \in T : Max(T) >= y
<1> DEFINE mirror == {m \in 1..n : n + 1 - m \in T}
<1>1. mirror \subseteq Nat
  OBVIOUS
<1>2. \A y \in T : n + 1 - y \in mirror
  <2> TAKE y \in T
  <2>1. y \in 1..n /\ n + 1 - y \in 1..n /\ n + 1 - (n + 1 - y) = y
    OBVIOUS
  <2> QED
    BY <2>1
<1>3. mirror # {}
  BY <1>2
<1>4. \A m \in mirror : m \in 1..n /\ n + 1 - m \in T
  OBVIOUS
<1> HIDE DEF mirror
<1>5. PICK m \in mirror : \A k \in mirror : m <= k
  BY <1>1, <1>3, FirstPosition
<1>6. \A y \in T : n + 1 - m >= y
  <2> TAKE y \in T
  <2>1. m <= n + 1 - y /\ y \in 1..n /\ m \in 1..n
    BY <1>2, <1>4, <1>5
  <2> QED
    BY <2>1
<1>7. \E x \in T : \A y \in T : x >= y
  BY <1>4, <1>5, <1>6
<1> QED
  BY <1>7 DEF Max

(* What holds at 0 and passes on to the next position holds up to n.       *)
LEMMA Ascent ==
  ASSUME NEW n \in Nat, NEW P, 0 \in P,
         \A k \in 0..(n-1) : k \in P => k + 1 \in P
  PROVE  \A k \in 0..n : k \in P
<1> DEFINE bad == {k \in 0..n : k \notin P}
<1>1. CASE bad # {}
  <2>1. PICK x \in bad : \A y \in bad : x <= y
    <3>1. bad \subseteq Nat
      OBVIOUS
    <3> HIDE DEF bad
    <3> QED
      BY <1>1, <3>1, FirstPosition
  <2>2. x # 0 /\ x \in 0..n
    OBVIOUS
  <2>3. x - 1 \in 0..(n-1) /\ x - 1 \notin bad
    BY <2>1, <2>2
  <2> QED
    BY <2>2, <2>3
<1> QED
  BY <1>1

(* The n steps of a loop over values in T, and the values f it runs        *)
(* through from base.                                                      *)
Steps(n, T) == [1..n -> [T -> T]]

Runs(f, n, T, base, step) ==
  f \in [0..n -> T] /\ f[0] = base /\ \A k \in 1..n : f[k] = step[k][f[k-1]]

(* A loop runs through some values.                                        *)
LEMMA LoopValues ==
  ASSUME NEW n \in Nat, NEW T, NEW base \in T, NEW step \in Steps(n, T)
  PROVE  \E f : Runs(f, n, T, base, step)
<1> USE DEF Runs, Steps
<1> DEFINE P == {m \in 0..n : \E f : Runs(f, m, T, base, step)}
<1>1. 0 \in P
  <2> DEFINE f == [k \in 0..0 |-> base]
  <2>1. f \in [0..0 -> T] /\ f[0] = base
    OBVIOUS
  <2> HIDE DEF f
  <2>2. Runs(f, 0, T, base, step)
    BY <2>1
  <2> QED
    BY <2>2
<1>2. ASSUME NEW m \in 0..(n-1), m \in P
      PROVE  m + 1 \in P
  <2>1. PICK f : Runs(f, m, T, base, step)
    BY <1>2
  <2> DEFINE g == [k \in 0..(m+1) |-> IF k = m+1 THEN step[m+1][f[m]] ELSE f[k]]
  <2>2. f[m] \in T /\ m+1 \in 1..n
    BY <2>1
  <2>3. step[m+1][f[m]] \in T
    BY <2>2
  <2>4. g \in [0..(m+1) -> T] /\ g[0] = base /\ g[m+1] = step[m+1][f[m]]
    BY <2>1, <2>3
  <2>5. \A k \in 0..m : g[k] = f[k]
    OBVIOUS
  <2> HIDE DEF g
  <2>6. \A k \in 1..(m+1) : g[k] = step[k][g[k-1]]
    <3> TAKE k \in 1..(m+1)
    <3>1. CASE k = m+1
      BY <2>4, <2>5, <3>1
    <3>2. CASE k # m+1
      <4>1. k \in 1..m /\ k-1 \in 0..m
        BY <3>2
      <4> QED
        BY <2>1, <2>5, <4>1
    <3> QED
      BY <3>1, <3>2
  <2> QED
    BY <2>4, <2>6
<1> HIDE DEF P
<1>3. \A k \in 0..(n-1) : k \in P => k + 1 \in P
  BY <1>2
<1>4. \A k \in 0..n : k \in P
  BY <1>1, <1>3, Ascent
<1>5. n \in P
  BY <1>4
<1> QED
  BY <1>5 DEF P

(* The parts of a sequence of sequences, joined from the front: what       *)
(* FlattenSeq of SequencesExt runs through.                                *)
JoinedUpTo(d) ==
  CHOOSE h : h = [k \in 1..Len(d) |-> IF k = 1 THEN d[k] ELSE h[k-1] \o d[k]]

JoinsParts(g, d, S) ==
  /\ g \in [0..Len(d) -> Seq(S)] /\ g[0] = <<>>
  /\ \A k \in 1..Len(d) : g[k] = g[k-1] \o d[k]

LEMMA JoinedParts ==
  ASSUME NEW S, NEW d \in Seq(Seq(S))
  PROVE  \E g : JoinsParts(g, d, S) /\ (Len(d) # 0 => g[Len(d)] = JoinedUpTo(d)[Len(d)])
<1> DEFINE n == Len(d)
           T == Seq(S)
           Is(h) == h = [k \in 1..n |-> IF k = 1 THEN d[k] ELSE h[k-1] \o d[k]]
           base == <<>>
           step == [k \in 1..n |-> [x \in T |-> x \o d[k]]]
<1>1. n \in Nat /\ \A k \in 1..n : d[k] \in T
  OBVIOUS
<1>2. /\ <<>> \in T
      /\ \A x \in T : <<>> \o x = x
      /\ \A x, y \in T : x \o y \in T
  OBVIOUS
<1> HIDE DEF n, T
<1>3. n \in Nat /\ base \in T /\ step \in Steps(n, T)
  BY <1>1, <1>2 DEF Steps
<1> HIDE DEF base, step
<1>4. PICK f : Runs(f, n, T, base, step)
  BY <1>3, LoopValues
<1>5. ASSUME NEW k \in 1..n
      PROVE  /\ f[k-1] \in T /\ f[k] = f[k-1] \o d[k]
             /\ f[k] = IF k = 1 THEN d[k] ELSE f[k-1] \o d[k]
  <2>1. k-1 \in 0..n
    BY <1>1
  <2>2. f[k-1] \in T /\ f[k] = step[k][f[k-1]]
    BY <1>4, <2>1 DEF Runs
  <2>3. f[k] = f[k-1] \o d[k]
    BY <2>2 DEF step
  <2>4. CASE k = 1
    <3>1. f[k-1] = <<>>
      BY <1>4, <2>4 DEF Runs, base
    <3> QED
      BY <1>1, <1>2, <2>2, <2>3, <2>4, <3>1
  <2> QED
    BY <2>2, <2>3, <2>4
<1>6. Is([k \in 1..n |-> f[k]])
  <2> DEFINE h == [k \in 1..n |-> f[k]]
  <2>1. ASSUME NEW k \in 1..n
        PROVE  h[k] = IF k = 1 THEN d[k] ELSE h[k-1] \o d[k]
    <3>1. k # 1 => k - 1 \in 1..n
      BY <1>1
    <3> QED
      BY <1>5, <3>1
  <2>2. h = [k \in 1..n |-> IF k = 1 THEN d[k] ELSE h[k-1] \o d[k]]
    BY <2>1
  <2> QED
    BY <2>2
<1>7. Is(JoinedUpTo(d))
  BY <1>6 DEF JoinedUpTo, n
<1>8. ASSUME NEW k \in 1..n
      PROVE  JoinedUpTo(d)[k] = IF k = 1 THEN d[k] ELSE JoinedUpTo(d)[k-1] \o d[k]
  <2> DEFINE j == JoinedUpTo(d)
  <2> HIDE DEF j
  <2>1. j = [l \in 1..n |-> IF l = 1 THEN d[l] ELSE j[l-1] \o d[l]]
    BY <1>7 DEF j
  <2>2. j[k] = IF k = 1 THEN d[k] ELSE j[k-1] \o d[k]
    BY <2>1, Zenon
  <2> QED
    BY <2>2 DEF j
<1> DEFINE P == {k \in 0..n : k # 0 => JoinedUpTo(d)[k] = f[k]}
<1>9. 0 \in P
  BY <1>1
<1>10. ASSUME NEW k \in 0..(n-1), k \in P
       PROVE  k + 1 \in P
  <2>1. k + 1 \in 1..n /\ k + 1 \in 0..n /\ (k + 1) - 1 = k
    BY <1>1
  <2>2. k # 0 => JoinedUpTo(d)[k] = f[k]
    BY <1>10
  <2>3. JoinedUpTo(d)[k+1] = IF k + 1 = 1 THEN d[k+1] ELSE JoinedUpTo(d)[k] \o d[k+1]
    BY <1>8, <2>1
  <2>4. f[k+1] = IF k + 1 = 1 THEN d[k+1] ELSE f[k] \o d[k+1]
    BY <1>5, <2>1
  <2>5. JoinedUpTo(d)[k+1] = f[k+1]
    BY <2>2, <2>3, <2>4
  <2> QED
    BY <2>1, <2>5
<1> HIDE DEF P
<1>11. \A k \in 0..n : k \in P
  BY <1>1, <1>9, <1>10, Ascent
<1>12. n # 0 => f[n] = JoinedUpTo(d)[n]
  BY <1>1, <1>11 DEF P
<1>13. f \in [0..n -> T] /\ f[0] = <<>>
  BY <1>4 DEF Runs, base
<1> QED
  BY <1>5, <1>12, <1>13 DEF JoinsParts, n, T

(* The sequence r is s with x put at its end.                              *)
Follows(r, T, s, x) ==
  /\ r \in Seq(T) /\ Len(r) = Len(s) + 1 /\ r[Len(s) + 1] = x
  /\ \A k \in 1..Len(s) : r[k] = s[k]

LEMMA AtTheEnd ==
  ASSUME NEW T, NEW s \in Seq(T), NEW x \in T
  PROVE  Follows(s \o <<x>>, T, s, x)
<1> DEFINE r == Append(s, x)
<1>1. s \o <<x>> = r
  OBVIOUS
<1>2. /\ r \in Seq(T) /\ Len(r) = Len(s) + 1 /\ r[Len(s) + 1] = x
      /\ \A k \in 1..Len(s) : r[k] = s[k]
  OBVIOUS
<1> HIDE DEF r
<1>3. Follows(r, T, s, x)
  BY <1>2 DEF Follows
<1> QED
  BY <1>1, <1>3, Zenon

LEMMA WholeSequence ==
  ASSUME NEW T, NEW s \in Seq(T)
  PROVE  SubSeq(s, 1, Len(s)) = s /\ SubSeq(s, Len(s) + 1, Len(s)) = <<>>
OBVIOUS

LEMMA SameSequence ==
  ASSUME NEW T, NEW s \in Seq(T), NEW t \in Seq(T), Len(s) = Len(t),
         \A k \in 1..Len(s) : s[k] = t[k]
  PROVE  s = t
OBVIOUS

(* A text cut at one of its symbols, and put together again.               *)
LEMMA JoinedAtSymbol ==
  ASSUME NEW T, NEW s \in Seq(T), NEW m \in 1..Len(s)
  PROVE  SubSeq(s, 1, m - 1) \o <<s[m]>> \o SubSeq(s, m + 1, Len(s)) = s
<1> DEFINE a == SubSeq(s, 1, m - 1)
           b == SubSeq(s, m + 1, Len(s))
           h == a \o <<s[m]>>
           r == h \o b
<1>1. /\ Len(s) \in Nat /\ m \in Nat /\ s[m] \in T
      /\ a \in Seq(T) /\ Len(a) = m - 1 /\ \A k \in 1..(m-1) : a[k] = s[k]
  OBVIOUS
<1>2. /\ b \in Seq(T) /\ Len(b) = Len(s) - m
      /\ \A k \in 1..(Len(s)-m) : b[k] = s[m+k]
  OBVIOUS
<1> HIDE DEF a, b
<1>3. Follows(h, T, a, s[m])
  BY <1>1, AtTheEnd, Zenon DEF h
<1> HIDE DEF h
<1>4. /\ h \in Seq(T) /\ Len(h) = m /\ \A k \in 1..m : h[k] = s[k]
  BY <1>1, <1>3 DEF Follows
<1>5. /\ r \in Seq(T) /\ Len(r) = Len(h) + Len(b)
      /\ \A k \in 1..(Len(h)+Len(b)) :
           r[k] = IF k <= Len(h) THEN h[k] ELSE b[k-Len(h)]
  BY <1>2, <1>4
<1> HIDE DEF r
<1>6. \A k \in 1..Len(s) : r[k] = s[k]
  <2> TAKE k \in 1..Len(s)
  <2>1. CASE k <= m
    <3>1. k \in 1..m
      BY <1>1, <2>1
    <3>2. k \in 1..(Len(h)+Len(b)) /\ k <= Len(h)
      BY <1>1, <1>2, <1>4, <3>1
    <3> QED
      BY <1>4, <1>5, <3>1, <3>2
  <2>2. CASE ~(k <= m)
    <3>1. k - m \in 1..(Len(s)-m) /\ m + (k - m) = k
      BY <1>1, <2>2
    <3>2. k \in 1..(Len(h)+Len(b)) /\ ~(k <= Len(h)) /\ Len(h) = m
      <4>1. \A x, y, z \in Nat : y = z - x => z = x + y
        OBVIOUS
      <4>2. Len(s) = Len(h) + Len(b)
        BY <1>1, <1>2, <1>4, <4>1
      <4> QED
        BY <1>4, <2>2, <4>2
    <3>3. r[k] = b[k-m]
      BY <1>5, <3>2
    <3> QED
      BY <1>2, <3>1, <3>3
  <2> QED
    BY <2>1, <2>2
<1>7. Len(r) = Len(s)
  BY <1>1, <1>2, <1>4, <1>5
<1>8. r = s
  BY <1>5, <1>6, <1>7, SameSequence
<1> QED
  BY <1>8 DEF r, h, a, b

LEMMA CutAtSymbol ==
  ASSUME NEW T, NEW a \in Seq(T), NEW x \in T, NEW b \in Seq(T),
         NEW t, t = a \o <<x>> \o b
  PROVE  /\ t \in Seq(T) /\ Len(t) = Len(a) + 1 + Len(b)
         /\ \A k \in 1..Len(a) : t[k] = a[k]
         /\ t[Len(a) + 1] = x
         /\ SubSeq(t, 1, Len(a)) = a
         /\ SubSeq(t, Len(a) + 2, Len(t)) = b
<1> DEFINE h == a \o <<x>>
<1>1. Follows(h, T, a, x)
  BY AtTheEnd, Zenon
<1>2. t = h \o b
  OBVIOUS
<1> HIDE DEF h
<1>3. /\ Len(a) \in Nat /\ Len(b) \in Nat
      /\ h \in Seq(T) /\ Len(h) = Len(a) + 1 /\ h[Len(a) + 1] = x
      /\ \A k \in 1..Len(a) : h[k] = a[k]
  BY <1>1 DEF Follows
<1>4. /\ t \in Seq(T) /\ Len(t) = Len(h) + Len(b)
      /\ \A k \in 1..(Len(h)+Len(b)) :
           t[k] = IF k <= Len(h) THEN h[k] ELSE b[k-Len(h)]
  BY <1>2, <1>3
<1>5. t[Len(a) + 1] = x /\ \A k \in 1..Len(a) : t[k] = a[k]
  BY <1>3, <1>4
<1>6. \A k \in 1..Len(b) : t[Len(a) + 1 + k] = b[k]
  <2> TAKE k \in 1..Len(b)
  <2>1. /\ Len(h) + k \in 1..(Len(h)+Len(b)) /\ ~(Len(h) + k <= Len(h))
        /\ (Len(h) + k) - Len(h) = k
    BY <1>3
  <2> QED
    BY <1>3, <1>4, <2>1
<1>7. Len(t) = Len(a) + 1 + Len(b)
  BY <1>3, <1>4
<1>8. SubSeq(t, 1, Len(a)) = a
  <2> DEFINE l == SubSeq(t, 1, Len(a))
  <2>1. l \in Seq(T) /\ Len(l) = Len(a) /\ \A k \in 1..Len(a) : l[k] = t[k]
    BY <1>3, <1>4, <1>7
  <2> HIDE DEF l
  <2>2. \A k \in 1..Len(a) : l[k] = a[k]
    BY <1>5, <2>1
  <2>3. l = a
    BY <2>1, <2>2, SameSequence
  <2> QED
    BY <2>3 DEF l
<1>9. SubSeq(t, Len(a) + 2, Len(t)) = b
  <2> DEFINE p == Len(a) + 2
             l == SubSeq(t, p, Len(t))
  <2>1. /\ p \in Nat \ {0} /\ Len(t) \in Nat /\ Len(t) - p + 1 = Len(b)
        /\ \A k \in 1..Len(b) : p + k - 1 = Len(a) + 1 + k
    BY <1>3, <1>4, <1>7
  <2> HIDE DEF p
  <2>2. /\ l \in Seq(T) /\ Len(l) = Len(b)
        /\ \A k \in 1..Len(b) : l[k] = t[p + k - 1]
    <3>1. \A k \in p..Len(t) : k \in 1..Len(t)
      BY <2>1
    <3>2. l \in Seq(T) /\ Len(l) = Len(b)
      BY <1>3, <1>4, <2>1, <3>1
    <3>3. \A k \in 1..Len(b) : l[k] = t[p + k - 1]
      BY <1>3, <1>4, <2>1, <3>1
    <3> QED
      BY <3>2, <3>3
  <2> HIDE DEF l
  <2>3. \A k \in 1..Len(b) : l[k] = b[k]
    BY <1>6, <2>1, <2>2
  <2>4. l = b
    BY <2>2, <2>3, SameSequence
  <2> QED
    BY <2>4 DEF l, p
<1> QED
  BY <1>4, <1>5, <1>7, <1>8, <1>9

(* How the range of a sequence grows.                                      *)
LEMMA RangeEmpty == Range(<<>>) = {}
BY DEF Range

LEMMA RangeAppend ==
  ASSUME NEW S, NEW s \in Seq(S), NEW x \in S
  PROVE  Range(Append(s, x)) = Range(s) \cup {x}
<1> DEFINE t == Append(s, x)
<1>1. /\ Len(s) \in Nat /\ DOMAIN s = 1..Len(s)
      /\ DOMAIN t = 1..(Len(s) + 1)
      /\ \A k \in 1..Len(s) : t[k] = s[k]
      /\ t[Len(s) + 1] = x
  OBVIOUS
<1> HIDE DEF t
<1>2. ASSUME NEW k \in DOMAIN t
      PROVE  t[k] \in Range(s) \cup {x}
  BY <1>1 DEF Range
<1>3. ASSUME NEW k \in DOMAIN s
      PROVE  s[k] \in Range(t)
  BY <1>1 DEF Range
<1>4. x \in Range(t)
  BY <1>1 DEF Range
<1>5. Range(t) = Range(s) \cup {x}
  BY <1>2, <1>3, <1>4 DEF Range
<1> QED
  BY <1>5 DEF t
-----------------------------------------------------------------------------
(* No token accounts for no symbol: where both loops start.                *)
LEMMA PrefixEmpty ==
  ASSUME NEW w, NEW glob, NEW S, NEW seg \in Seq(S)
  PROVE  PrefixMatches(w, glob, seg, 0, 0)
<1> DEFINE a == [k \in 0..0 |-> 0]
<1>1. a \in [0..0 -> 0..Len(seg)] /\ a[0] = 0
  OBVIOUS
<1>2. \A k \in 1..0 : Consumes(w, glob[k], seg, a[k-1], a[k])
  OBVIOUS
<1>3. QED
  <2> HIDE DEF a
  <2>1. QED
    BY <1>1, <1>2 DEF PrefixMatches

(* A prefix match is extended by a token that accounts for what follows.   *)
LEMMA PrefixExtend ==
  ASSUME NEW w, NEW glob, NEW S, NEW seg \in Seq(S),
         NEW m \in Nat, NEW n \in 0..Len(seg), NEW p \in 0..Len(seg),
         PrefixMatches(w, glob, seg, m, n),
         Consumes(w, glob[m+1], seg, n, p)
  PROVE  PrefixMatches(w, glob, seg, m+1, p)
<1>1. PICK a \in [0..m -> 0..Len(seg)] :
         /\ a[0] = 0 /\ a[m] = n
         /\ \A k \in 1..m : Consumes(w, glob[k], seg, a[k-1], a[k])
  BY DEF PrefixMatches
<1> DEFINE b == [k \in 0..(m+1) |-> IF k = m+1 THEN p ELSE a[k]]
<1>2. b \in [0..(m+1) -> 0..Len(seg)]
  OBVIOUS
<1>3. b[0] = 0 /\ b[m+1] = p
  BY <1>1
<1>4. ASSUME NEW k \in 1..(m+1)
      PROVE  Consumes(w, glob[k], seg, b[k-1], b[k])
  <2>1. CASE k = m+1
    <3>1. b[k-1] = n /\ b[k] = p
      BY <1>1, <2>1
    <3>2. QED
      BY <2>1, <3>1
  <2>2. CASE k # m+1
    <3>1. k \in 1..m /\ b[k-1] = a[k-1] /\ b[k] = a[k]
      BY <2>2
    <3>2. QED
      BY <1>1, <3>1
  <2>3. QED
    BY <2>1, <2>2
<1>5. QED
  <2> HIDE DEF b
  <2>1. QED
    BY <1>2, <1>3, <1>4 DEF PrefixMatches

(* A prefix that ends in the multi-symbol wildcard may account for more.   *)
LEMMA PrefixWiden ==
  ASSUME NEW w, NEW glob, NEW S, NEW seg \in Seq(S),
         NEW m \in Nat, NEW n \in 0..Len(seg), NEW p \in n..Len(seg),
         PrefixMatches(w, glob, seg, m+1, n), glob[m+1] = w.many
  PROVE  PrefixMatches(w, glob, seg, m+1, p)
<1>1. PICK a \in [0..(m+1) -> 0..Len(seg)] :
         /\ a[0] = 0 /\ a[m+1] = n
         /\ \A k \in 1..(m+1) : Consumes(w, glob[k], seg, a[k-1], a[k])
  BY DEF PrefixMatches
<1> DEFINE b == [k \in 0..(m+1) |-> IF k = m+1 THEN p ELSE a[k]]
<1>2. b \in [0..(m+1) -> 0..Len(seg)]
  OBVIOUS
<1>3. b[0] = 0 /\ b[m+1] = p
  BY <1>1
<1>4. ASSUME NEW k \in 1..(m+1)
      PROVE  Consumes(w, glob[k], seg, b[k-1], b[k])
  <2>1. CASE k = m+1
    <3>1. b[k-1] = a[m] /\ b[k] = p /\ a[m] \in Nat
      BY <2>1
    <3>2. Consumes(w, glob[m+1], seg, a[m], n)
      BY <1>1
    <3>3. a[m] <= p
      BY <3>1, <3>2 DEF Consumes
    <3>4. QED
      BY <2>1, <3>1, <3>3 DEF Consumes
  <2>2. CASE k # m+1
    <3>1. k \in 1..m /\ b[k-1] = a[k-1] /\ b[k] = a[k]
      BY <2>2
    <3>2. QED
      BY <1>1, <3>1
  <2>3. QED
    BY <2>1, <2>2
<1>5. QED
  <2> HIDE DEF b
  <2>1. QED
    BY <1>2, <1>3, <1>4 DEF PrefixMatches

(* A prefix match of everything is a match.                                *)
LEMMA PrefixTotal ==
  ASSUME NEW w, NEW T, NEW glob \in Seq(T), NEW S, NEW seg \in Seq(S),
         PrefixMatches(w, glob, seg, Len(glob), Len(seg))
  PROVE  Matches(w, glob, seg)
BY DEF Matches, PrefixMatches, SuffixMatches

(* Nothing is left to match after the last token only at the end.          *)
LEMMA SuffixEnd ==
  ASSUME NEW w, NEW T, NEW glob \in Seq(T), NEW S, NEW seg \in Seq(S),
         NEW n, SuffixMatches(w, glob, seg, Len(glob), n)
  PROVE  n = Len(seg)
BY DEF SuffixMatches

(* A suffix match gives up its first token, which accounts for what it     *)
(* skips.                                                                  *)
LEMMA SuffixStep ==
  ASSUME NEW w, NEW T, NEW glob \in Seq(T), NEW S, NEW seg \in Seq(S),
         NEW m \in 0..(Len(glob)-1), NEW n,
         SuffixMatches(w, glob, seg, m, n)
  PROVE  \E p \in 0..Len(seg) : /\ Consumes(w, glob[m+1], seg, n, p)
                                /\ SuffixMatches(w, glob, seg, m+1, p)
<1>1. PICK a \in [m..Len(glob) -> 0..Len(seg)] :
         /\ a[m] = n /\ a[Len(glob)] = Len(seg)
         /\ \A k \in (m+1)..Len(glob) : Consumes(w, glob[k], seg, a[k-1], a[k])
  BY DEF SuffixMatches
<1> DEFINE b == [k \in (m+1)..Len(glob) |-> a[k]]
<1>2. /\ b \in [(m+1)..Len(glob) -> 0..Len(seg)]
      /\ b[m+1] = a[m+1] /\ b[Len(glob)] = Len(seg)
  BY <1>1
<1>3. ASSUME NEW k \in (m+2)..Len(glob)
      PROVE  Consumes(w, glob[k], seg, b[k-1], b[k])
  <2>1. b[k-1] = a[k-1] /\ b[k] = a[k] /\ k \in (m+1)..Len(glob)
    OBVIOUS
  <2>2. QED
    BY <1>1, <2>1
<1>4. SuffixMatches(w, glob, seg, m+1, a[m+1])
  <2> HIDE DEF b
  <2>1. m+1+1 = m+2
    OBVIOUS
  <2>2. QED
    BY <1>2, <1>3, <2>1 DEF SuffixMatches
<1>5. Consumes(w, glob[m+1], seg, n, a[m+1]) /\ a[m+1] \in 0..Len(seg)
  <2>1. m+1 \in (m+1)..Len(glob) /\ m+1-1 = m
    OBVIOUS
  <2>2. QED
    BY <1>1, <2>1
<1>6. QED
  BY <1>4, <1>5
-----------------------------------------------------------------------------
(* A key that is put aside reads the same from the row as it does from the *)
(* context and the row together.                                           *)
LEMMA DeferredReadsRow ==
  ASSUME NEW key, NEW ctx, NEW row, NEW path, Deferred(key, ctx)
  PROVE  ConditionValue(key, Merge(ctx, row), path) = ConditionValue(key, row, path)
<1>1. CASE key \in DOMAIN PathIndexOf
  BY <1>1 DEF ConditionValue
<1>2. CASE key \notin DOMAIN PathIndexOf
  <2>1. key \notin DOMAIN ctx
    BY <1>2 DEF Deferred
  <2>2. key \in DOMAIN Merge(ctx, row) <=> key \in DOMAIN row
    BY <2>1 DEF Merge
  <2>3. key \in DOMAIN row => Merge(ctx, row)[key] = row[key]
    BY <2>1 DEF Merge
  <2> QED
    BY <1>2, <2>2, <2>3 DEF ConditionValue, FromContext
<1> QED
  BY <1>1, <1>2

(* A key that is decided has the value of the context, with the row or     *)
(* without it.                                                             *)
LEMMA DecidedReadsContext ==
  ASSUME NEW key, NEW ctx, NEW row, NEW path, ~Deferred(key, ctx)
  PROVE  ConditionValue(key, Merge(ctx, row), path) = Present(ctx[key])
<1>1. key \notin DOMAIN PathIndexOf /\ key \in DOMAIN ctx
  BY DEF Deferred
<1>2. key \in DOMAIN Merge(ctx, row) /\ Merge(ctx, row)[key] = ctx[key]
  BY <1>1 DEF Merge
<1> QED
  BY <1>1, <1>2 DEF ConditionValue, FromContext

(* A key that is present passes exactly when its operator holds.           *)
LEMMA PresentPasses ==
  ASSUME NEW op, NEW v, NEW wants
  PROVE  KeyPasses(op, Present(v), wants) <=> Holds(op, Present(v), wants)
BY DEF KeyPasses, Present, Absent

(* The operators and keys of what is left of a block.                      *)
LEMMA ResidualParts ==
  ASSUME NEW conds, NEW ctx, NEW op
  PROVE  /\ op \in DOMAIN Residual(conds, ctx)
              <=> op \in DOMAIN conds
                    /\ \E key \in DOMAIN conds[op] : Deferred(key, ctx)
         /\ op \in DOMAIN Residual(conds, ctx) =>
              \A key :
                /\ key \in DOMAIN Residual(conds, ctx)[op]
                     <=> key \in DOMAIN conds[op] /\ Deferred(key, ctx)
                /\ key \in DOMAIN Residual(conds, ctx)[op] =>
                     Residual(conds, ctx)[op][key] = conds[op][key]
BY DEF Residual

(* resolveConditions is exact: a block holds for a row, together with the  *)
(* context, when what the context decides holds and what it leaves open    *)
(* holds for the row.                                                      *)
THEOREM PartialEvaluationExact ==
  ASSUME NEW conds, NEW ctx, NEW row, NEW path
  PROVE  EvalConditions(conds, Merge(ctx, row), path)
           <=> Resolves(conds, ctx)
                 /\ EvalConditions(Residual(conds, ctx), row, path)
<1> DEFINE left == Residual(conds, ctx)
           Pass(op, key, c) ==
             KeyPasses(op, ConditionValue(key, c, path), conds[op][key])
<1>1. ASSUME NEW op, NEW key, ~Deferred(key, ctx)
      PROVE  Pass(op, key, Merge(ctx, row))
               <=> Holds(op, Present(ctx[key]), conds[op][key])
  BY <1>1, DecidedReadsContext, PresentPasses
<1>2. ASSUME NEW op, NEW key, Deferred(key, ctx)
      PROVE  Pass(op, key, Merge(ctx, row)) <=> Pass(op, key, row)
  BY <1>2, DeferredReadsRow
<1>3. EvalConditions(conds, Merge(ctx, row), path)
        <=> \A op \in DOMAIN conds :
              Known(op) /\ \A key \in DOMAIN conds[op] : Pass(op, key, Merge(ctx, row))
  BY DEF EvalConditions
<1>4. EvalConditions(left, row, path)
        <=> \A op \in DOMAIN left :
              /\ Known(op)
              /\ \A key \in DOMAIN left[op] :
                   KeyPasses(op, ConditionValue(key, row, path), left[op][key])
  BY DEF EvalConditions
<1>5. EvalConditions(left, row, path)
        <=> \A op \in DOMAIN conds : \A key \in DOMAIN conds[op] :
              Deferred(key, ctx) => Known(op) /\ Pass(op, key, row)
  <2>1. ASSUME EvalConditions(left, row, path),
               NEW op \in DOMAIN conds, NEW key \in DOMAIN conds[op],
               Deferred(key, ctx)
        PROVE  Known(op) /\ Pass(op, key, row)
    <3>1. op \in DOMAIN left
      BY <2>1, ResidualParts
    <3>2. key \in DOMAIN left[op] /\ left[op][key] = conds[op][key]
      BY <2>1, <3>1, ResidualParts
    <3> HIDE DEF left
    <3> QED
      BY <1>4, <2>1, <3>1, <3>2
  <2>2. ASSUME \A op \in DOMAIN conds : \A key \in DOMAIN conds[op] :
                 Deferred(key, ctx) => Known(op) /\ Pass(op, key, row),
               NEW op \in DOMAIN left
        PROVE  /\ Known(op)
               /\ \A key \in DOMAIN left[op] :
                    KeyPasses(op, ConditionValue(key, row, path), left[op][key])
    <3>1. PICK some \in DOMAIN conds[op] : Deferred(some, ctx)
      BY <2>2, ResidualParts
    <3>2. op \in DOMAIN conds
      BY <2>2, ResidualParts
    <3>3. Known(op)
      BY <2>2, <3>1, <3>2
    <3>4. ASSUME NEW key \in DOMAIN left[op]
          PROVE  KeyPasses(op, ConditionValue(key, row, path), left[op][key])
      <4>1. key \in DOMAIN conds[op] /\ Deferred(key, ctx)
            /\ left[op][key] = conds[op][key]
        BY <2>2, <3>4, ResidualParts
      <4> HIDE DEF left
      <4> QED
        BY <2>2, <3>2, <4>1
    <3> QED
      BY <3>3, <3>4
  <2> HIDE DEF left
  <2> QED
    BY <1>4, <2>1, <2>2
<1>6. Resolves(conds, ctx)
        <=> \A op \in DOMAIN conds :
              /\ Known(op)
              /\ \A key \in DOMAIN conds[op] :
                   ~Deferred(key, ctx) =>
                     Holds(op, Present(ctx[key]), conds[op][key])
  BY DEF Resolves
<1> HIDE DEF left, Pass
<1>7. Resolves(conds, ctx) /\ EvalConditions(left, row, path)
        <=> \A op \in DOMAIN conds :
              Known(op) /\ \A key \in DOMAIN conds[op] : Pass(op, key, Merge(ctx, row))
  BY <1>1, <1>2, <1>5, <1>6
<1> QED
  BY <1>3, <1>7 DEF left

(* A pattern that Constrain keeps selects, once its token is resolved, the *)
(* same resources as it does for Decide.                                   *)
LEMMA ResolvedPatternMatches ==
  ASSUME NEW p, NEW c, NEW tenant, p.tenant \in {tenant, PlatformTenant},
         DOMAIN p = FlatFields \cup {"tenant", "resource"}
  PROVE  PatternMatches(WithTenant(p, tenant), c, tenant)
           <=> PatternMatches(p, c, tenant)
<1> DEFINE r == WithTenant(p, tenant)
<1>1. /\ r.tenant = tenant /\ r.resource = p.resource
      /\ \A f \in FlatFields : r[f] = p[f]
  BY DEF WithTenant, FlatFields
<1>2. MatchTenant(r.tenant, c.tenant, tenant) <=> MatchTenant(p.tenant, c.tenant, tenant)
  BY <1>1 DEF MatchTenant
<1> HIDE DEF r
<1>3. PatternMatches(r, c, tenant) <=> PatternMatches(p, c, tenant)
  BY <1>1, <1>2 DEF PatternMatches
<1> QED
  BY <1>3 DEF r
=============================================================================
