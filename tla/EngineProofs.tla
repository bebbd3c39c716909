----------------------------- MODULE EngineProofs -----------------------------
(***************************************************************************)
(* Compile takes a document whole or reports its first fault, and what it  *)
(* returns is out of the caller's reach; and a service that shares it      *)
(* between goroutines answers every request, and shows every list, as the  *)
(* document said when it was compiled: for every document, whatever its    *)
(* owner writes into it and whatever else is compiled meanwhile.           *)
(*                                                                         *)
(* The invariant of Compile (IInv) says what its two loops have done when  *)
(* they are at statement statementAt of policy policyAt: everything before *)
(* it is free of faults and stands in compiled, in order, with its actions *)
(* in slices of the engine; and that a clone is never written again.       *)
(*                                                                         *)
(* The invariant of the service (EngineInv) adds that whatever was handed  *)
(* over, to be held, to a Decide or to a Constrain, still holds such       *)
(* slices of the document it is from (Carries), and the invariants of      *)
(* Decide and of Constrain about what those slices hold: the proofs of the *)
(* two (DeciderProofs, ConstrainerProofs) are used as they stand, by a     *)
(* renaming of their variables.                                            *)
(***************************************************************************)
EXTENDS Engine, SharedLemmas

ActionLists == {st.actions : st \in Written}

(* The compiled statement of st, with its actions in the n-th clone.       *)
WithClone(st, n) == [Translation(st) EXCEPT !.actions = <<"engine", n>>]

CompiledStatements == {WithClone(st, n) : st \in Written, n \in Nat}

(* c is the compiled statement of st, when these are the clones.           *)
Means(c, st, slices) ==
  \E n \in 1..Len(slices) : c = WithClone(st, n) /\ slices[n] = st.actions

(* list is the statements st, one by one, when these are the clones.       *)
Represents(list, st, slices) ==
  /\ Len(list) = Len(st)
  /\ \A k \in 1..Len(st) : Means(list[k], st[k], slices)

(* The statements that Compile accepts of d: all of them or none.          *)
Retained(d) == IF FirstFault(d) = "none" THEN FlattenSeq(d) ELSE <<>>

(* g holds the statements of the first policies of d.                      *)
Flattens(g, d) ==
  /\ g \in [0..Len(d) -> Seq(Written)]
  /\ g[0] = <<>>
  /\ \A k \in 1..Len(d) : g[k] = g[k-1] \o d[k]
  /\ g[Len(d)] = FlattenSeq(d)

UpTo(d) == CHOOSE g : Flattens(g, d)

Running == phase \in {"policy", "statement"}

(* The statements the loops have left behind.                              *)
Behind ==
  IF phase = "statement"
  THEN UpTo(source)[policyAt - 1] \o SubSeq(source[policyAt], 1, statementAt - 1)
  ELSE UpTo(source)[policyAt - 1]

Memory ==
  /\ clones \in Seq(ActionLists)
  /\ compiled \in Seq(CompiledStatements)

(* No one edits the document while Compile runs.                           *)
Reading ==
  /\ phase # "idle" => source \in Sources
  /\ Running => document = source

NoFaultYet ==
  /\ Running => \A p \in 1..(policyAt - 1) : ~Faulty(source[p])
  /\ phase = "statement" =>
       /\ Valid(source[policyAt])
       /\ \A m \in 1..(statementAt - 1) : StatementFault(source[policyAt][m]) = "none"

Progress ==
  /\ Running => Represents(compiled, Behind, clones)
  /\ phase = "done" => Represents(compiled, Retained(source), clones)
  /\ Running => fault = "none"

IInv == TypeOK /\ Memory /\ Reading /\ NoFaultYet /\ Progress /\ ReportsFirstFault
-----------------------------------------------------------------------------
(* What documents are made of.                                             *)
LEMMA DocumentParts ==
  ASSUME NEW d \in Sources
  PROVE  /\ d \in Seq(Seq(Written)) /\ Len(d) \in Nat /\ DOMAIN d = 1..Len(d)
         /\ \A p \in 1..Len(d) :
              /\ d[p] \in Seq(Written) /\ Len(d[p]) \in Nat
              /\ DOMAIN d[p] = 1..Len(d[p])
              /\ \A m \in 1..Len(d[p]) : d[p][m] \in Written
<1>1. d \in Seq(Seq(Written))
  BY SourceAssumption
<1> HIDE DEF Written
<1> QED
  BY <1>1

(* The statements of the first policies, policy by policy.                 *)
LEMMA FlattensExists ==
  ASSUME NEW d \in Sources
  PROVE  Flattens(UpTo(d), d)
<1>1. d \in Seq(Seq(Written))
  BY DocumentParts
<1>2. PICK g : /\ JoinsParts(g, d, Written)
               /\ Len(d) # 0 => g[Len(d)] = JoinedUpTo(d)[Len(d)]
  BY <1>1, JoinedParts
<1>3. g[Len(d)] = FlattenSeq(d)
  <2>1. CASE Len(d) = 0
    <3>1. d = <<>>
      BY <1>1, <2>1
    <3> QED
      BY <1>2, <2>1, <3>1 DEF FlattenSeq, JoinsParts
  <2>2. CASE Len(d) # 0
    BY <1>2, <2>2 DEF FlattenSeq, JoinedUpTo
  <2> QED
    BY <2>1, <2>2
<1>4. Flattens(g, d)
  BY <1>2, <1>3 DEF Flattens, JoinsParts
<1> QED
  BY <1>4 DEF UpTo
-----------------------------------------------------------------------------
(* The first fault of a document, where the loops meet it.                 *)
LEMMA FaultOfPolicy ==
  ASSUME NEW d \in Sources, NEW p \in 1..Len(d),
         \A q \in 1..(p-1) : ~Faulty(d[q]), ~Valid(d[p])
  PROVE  FirstFault(d) = "invalid policy"
<1> DEFINE bad == {k \in DOMAIN d : Faulty(d[k])}
<1>1. Len(d) \in Nat /\ DOMAIN d = 1..Len(d)
  BY DocumentParts
<1>2. Faulty(d[p])
  BY DEF Faulty
<1>3. bad \subseteq 1..Len(d) /\ p \in bad
  BY <1>1, <1>2
<1>4. \A q \in 1..(p-1) : q \notin bad
  OBVIOUS
<1> HIDE DEF bad
<1>5. Min(bad) = p /\ bad # {}
  BY <1>1, <1>3, <1>4, FirstIn
<1> QED
  BY <1>5 DEF FirstFault, bad

LEMMA FaultOfStatement ==
  ASSUME NEW d \in Sources, NEW p \in 1..Len(d),
         \A q \in 1..(p-1) : ~Faulty(d[q]), Valid(d[p]),
         NEW m \in 1..Len(d[p]), StatementFault(d[p][m]) # "none",
         \A l \in 1..(m-1) : StatementFault(d[p][l]) = "none"
  PROVE  FirstFault(d) = StatementFault(d[p][m])
<1> DEFINE bad == {k \in DOMAIN d : Faulty(d[k])}
           worse == {l \in DOMAIN d[p] : StatementFault(d[p][l]) # "none"}
<1>1. /\ Len(d) \in Nat /\ DOMAIN d = 1..Len(d)
      /\ Len(d[p]) \in Nat /\ DOMAIN d[p] = 1..Len(d[p])
  BY DocumentParts
<1>2. worse \subseteq 1..Len(d[p]) /\ m \in worse
  BY <1>1
<1>3. \A l \in 1..(m-1) : l \notin worse
  OBVIOUS
<1>4. Faulty(d[p])
  BY <1>1 DEF Faulty, Range
<1>5. bad \subseteq 1..Len(d) /\ p \in bad
  BY <1>1, <1>4
<1>6. \A q \in 1..(p-1) : q \notin bad
  OBVIOUS
<1> HIDE DEF bad, worse
<1>7. Min(bad) = p /\ bad # {}
  BY <1>1, <1>5, <1>6, FirstIn
<1>8. Min(worse) = m
  BY <1>1, <1>2, <1>3, FirstIn
<1> QED
  BY <1>7, <1>8 DEF FirstFault, bad, worse

LEMMA NoFaultAtAll ==
  ASSUME NEW d \in Sources, \A q \in 1..Len(d) : ~Faulty(d[q])
  PROVE  FirstFault(d) = "none"
<1>1. {k \in DOMAIN d : Faulty(d[k])} = {}
  BY DocumentParts
<1> QED
  BY <1>1 DEF FirstFault
-----------------------------------------------------------------------------
(* How a list grows by the next statement of a policy.                     *)
LEMMA GrowByStatement ==
  ASSUME NEW T, NEW a \in Seq(T), NEW b \in Seq(T), NEW m \in 1..Len(b)
  PROVE  /\ a \o SubSeq(b, 1, m) = Append(a \o SubSeq(b, 1, m - 1), b[m])
         /\ a \o SubSeq(b, 1, m - 1) \in Seq(T)
<1>1. /\ SubSeq(b, 1, m) \in Seq(T) /\ SubSeq(b, 1, m - 1) \in Seq(T)
      /\ Len(SubSeq(b, 1, m)) = m /\ Len(SubSeq(b, 1, m - 1)) = m - 1
      /\ \A k \in 1..m : SubSeq(b, 1, m)[k] = b[k]
      /\ \A k \in 1..(m-1) : SubSeq(b, 1, m - 1)[k] = b[k]
  OBVIOUS
<1> DEFINE x == SubSeq(b, 1, m)
           y == SubSeq(b, 1, m - 1)
           l == a \o x
           r == Append(a \o y, b[m])
<1> HIDE DEF x, y
<1>2. /\ x \in Seq(T) /\ y \in Seq(T) /\ Len(x) = m /\ Len(y) = m - 1
      /\ \A k \in 1..m : x[k] = b[k]
      /\ \A k \in 1..(m-1) : y[k] = b[k]
      /\ Len(a) \in Nat /\ m \in Nat /\ b[m] \in T
  BY <1>1 DEF x, y
<1>3. a \o y \in Seq(T) /\ Len(a \o y) = Len(a) + (m - 1)
  BY <1>2
<1>4. /\ l \in Seq(T) /\ r \in Seq(T)
      /\ Len(l) = Len(a) + m /\ Len(r) = Len(a) + m
  BY <1>2, <1>3
<1>5. ASSUME NEW k \in 1..(Len(a) + m)
      PROVE  l[k] = r[k]
  <2>1. CASE k <= Len(a)
    BY <1>2, <1>3, <2>1
  <2>2. CASE k > Len(a) /\ k < Len(a) + m
    BY <1>2, <1>3, <2>2
  <2>3. CASE k = Len(a) + m
    BY <1>2, <1>3, <2>3
  <2> QED
    BY <1>2, <2>1, <2>2, <2>3
<1> HIDE DEF l, r
<1>6. l = r
  BY <1>4, <1>5
<1> QED
  BY <1>3, <1>6 DEF l, r, x, y

LEMMA GrowByPolicy ==
  ASSUME NEW T, NEW a \in Seq(T), NEW b \in Seq(T)
  PROVE  /\ a \o SubSeq(b, 1, 0) = a
         /\ a \o SubSeq(b, 1, Len(b)) = a \o b
<1>1. SubSeq(b, 1, 0) = <<>> /\ a \o <<>> = a
  OBVIOUS
<1>2. SubSeq(b, 1, Len(b)) = b
  OBVIOUS
<1> QED
  BY <1>1, <1>2

(* A clone stays what it is when another is made.                          *)
LEMMA MeansStill ==
  ASSUME NEW slices \in Seq(ActionLists), NEW list \in ActionLists,
         NEW c, NEW st, Means(c, st, slices)
  PROVE  Means(c, st, Append(slices, list))
<1> DEFINE longer == Append(slices, list)
<1>1. /\ Len(slices) \in Nat /\ Len(longer) = Len(slices) + 1
      /\ \A k \in 1..Len(slices) : longer[k] = slices[k]
  OBVIOUS
<1> HIDE DEF longer
<1>2. Means(c, st, longer)
  BY <1>1 DEF Means
<1> QED
  BY <1>2 DEF longer

(* One more statement is compiled: a new clone, and a new last statement.  *)
LEMMA RepresentsAppend ==
  ASSUME Memory, NEW all \in Seq(Written), Represents(compiled, all, clones), NEW st \in Written,
         clones' = Append(clones, st.actions),
         compiled' = Append(compiled, WithClone(st, Len(clones) + 1))
  PROVE  Memory' /\ Represents(compiled, Append(all, st), clones)'
<1>1. /\ Len(clones) \in Nat /\ st.actions \in ActionLists
      /\ clones \in Seq(ActionLists)
  BY DEF Memory, ActionLists
<1>2. WithClone(st, Len(clones) + 1) \in CompiledStatements
  BY <1>1 DEF CompiledStatements
<1>3. Memory'
  BY <1>1, <1>2 DEF Memory
<1>4. Means(WithClone(st, Len(clones) + 1), st, clones')
  <2>1. /\ Len(clones') = Len(clones) + 1
        /\ clones'[Len(clones) + 1] = st.actions
    BY <1>1
  <2> QED
    BY <1>1, <2>1 DEF Means
<1>5. /\ Len(compiled) = Len(all) /\ Len(all) \in Nat
      /\ Len(compiled') = Len(all) + 1 /\ Len(Append(all, st)) = Len(all) + 1
      /\ compiled'[Len(all) + 1] = WithClone(st, Len(clones) + 1)
      /\ Append(all, st)[Len(all) + 1] = st
      /\ \A k \in 1..Len(all) : compiled'[k] = compiled[k] /\ Append(all, st)[k] = all[k]
  BY <1>2 DEF Memory, Represents
<1>6. ASSUME NEW k \in 1..(Len(all) + 1)
      PROVE  Means(compiled'[k], Append(all, st)[k], clones')
  <2>1. CASE k = Len(all) + 1
    BY <1>4, <1>5, <2>1
  <2>2. CASE k # Len(all) + 1
    <3>1. k \in 1..Len(all)
      BY <1>5, <2>2
    <3>2. Means(compiled[k], all[k], clones)
      BY <3>1 DEF Represents
    <3>3. Means(compiled[k], all[k], clones')
      BY <1>1, <3>2, MeansStill
    <3> QED
      BY <1>5, <3>1, <3>3
  <2> QED
    BY <2>1, <2>2
<1>7. Represents(compiled, Append(all, st), clones)'
  BY <1>5, <1>6 DEF Represents
<1> QED
  BY <1>3, <1>7

(* The slice of a compiled statement, read back, is what was cloned.       *)
LEMMA SliceReadBack ==
  ASSUME NEW st, NEW n
  PROVE  /\ WithClone(st, n).actions = <<"engine", n>>
         /\ [WithClone(st, n) EXCEPT !.actions = st.actions] = Translation(st)
<1> DEFINE t == Translation(st)
           c == WithClone(st, n)
           r == [c EXCEPT !.actions = st.actions]
           Fields == {"sid", "effect", "actions", "patterns", "conditions"}
<1>1. /\ DOMAIN t = Fields /\ t = [f \in Fields |-> t[f]]
      /\ t["actions"] = st.actions
  BY DEF Translation
<1> HIDE DEF t
<1>2. /\ DOMAIN c = Fields /\ c["actions"] = <<"engine", n>>
      /\ \A f \in Fields \ {"actions"} : c[f] = t[f]
  BY <1>1 DEF WithClone, t
<1> HIDE DEF c
<1>3. /\ r = [f \in Fields |-> r[f]]
      /\ \A f \in Fields : r[f] = t[f]
  BY <1>1, <1>2
<1>4. r = t
  BY <1>1, <1>3
<1> QED
  BY <1>2, <1>4 DEF t, c

(* What represents the statements of a document means what they mean.      *)
LEMMA ReadBackMeans ==
  ASSUME NEW list \in Seq(CompiledStatements), NEW all \in Seq(Written),
         Represents(list, all, clones)
  PROVE  ReadBack(list) = [k \in DOMAIN all |-> Translation(all[k])]
<1>1. DOMAIN list = DOMAIN all
  BY DEF Represents
<1>2. ASSUME NEW k \in DOMAIN all
      PROVE  [list[k] EXCEPT !.actions = Content(@)] = Translation(all[k])
  <2>1. Means(list[k], all[k], clones)
    BY DEF Represents
  <2>2. PICK n \in 1..Len(clones) :
          list[k] = WithClone(all[k], n) /\ clones[n] = all[k].actions
    BY <2>1 DEF Means
  <2>3. Content(list[k].actions) = all[k].actions
    BY <2>2, SliceReadBack DEF Content
  <2>4. [list[k] EXCEPT !.actions = Content(@)]
          = [list[k] EXCEPT !.actions = all[k].actions]
    BY <2>3
  <2> QED
    BY <2>2, <2>4, SliceReadBack
<1> QED
  BY <1>1, <1>2 DEF ReadBack

(* What a document means is what its retained statements mean.             *)
LEMMA RetainedMeans ==
  ASSUME NEW d \in Sources
  PROVE  /\ Retained(d) \in Seq(Written)
         /\ Result(d) = [k \in DOMAIN Retained(d) |-> Translation(Retained(d)[k])]
<1>1. CASE FirstFault(d) = "none"
  <2>1. Len(d) \in 0..Len(d)
    BY DocumentParts
  <2>2. FlattenSeq(d) \in Seq(Written)
    BY <2>1, FlattensExists DEF Flattens
  <2> QED
    BY <1>1, <2>2 DEF Retained, Result, Meaning
<1>2. CASE FirstFault(d) # "none"
  <2>1. Retained(d) = <<>> /\ Result(d) = <<>>
    BY <1>2 DEF Retained, Result
  <2> QED
    BY <2>1
<1> QED
  BY <1>1, <1>2
-----------------------------------------------------------------------------
LEMMA InitIInv == Init => IInv
<1> SUFFICES ASSUME Init PROVE IInv
  OBVIOUS
<1>1. clones \in Seq(ActionLists) /\ compiled \in Seq(CompiledStatements)
  BY DEF Init
<1> QED
  BY <1>1 DEF Init, IInv, TypeOK, Memory, Reading, NoFaultYet, Progress, Running,
              ReportsFirstFault

(* What is known inside the loops.                                         *)
LEMMA Inside ==
  ASSUME IInv, Running
  PROVE  /\ source \in Sources /\ document = source /\ fault = "none"
         /\ policyAt \in 1..(Len(source) + 1)
         /\ \A p \in 1..(policyAt - 1) : ~Faulty(source[p])
         /\ UpTo(source)[policyAt - 1] \in Seq(Written)
         /\ Represents(compiled, Behind, clones) /\ Memory
<1>1. /\ source \in Sources /\ document = source /\ fault = "none"
      /\ policyAt \in 1..(Len(source) + 1)
      /\ \A p \in 1..(policyAt - 1) : ~Faulty(source[p])
      /\ Represents(compiled, Behind, clones) /\ Memory
  BY DEF IInv, TypeOK, Reading, NoFaultYet, Progress, Running
<1>2. UpTo(source) \in [0..Len(source) -> Seq(Written)] /\ Len(source) \in Nat
  BY <1>1, FlattensExists, DocumentParts DEF Flattens
<1>3. policyAt - 1 \in 0..Len(source)
  BY <1>1, <1>2
<1> QED
  BY <1>1, <1>2, <1>3

(* A call ends with an error: the first fault of the document.             *)
LEMMA FailKeeps ==
  ASSUME IInv, Running, NEW kind, kind = FirstFault(source), kind # "none", Fail(kind)
  PROVE  IInv'
<1>1. TypeOK'
  BY DEF IInv, TypeOK, Fail, Running
<1>2. Memory'
  BY DEF IInv, Memory, Fail
<1>3. /\ phase' = "done" /\ fault' = kind /\ source' = source /\ source \in Sources
      /\ compiled' = <<>>
  BY Inside DEF Fail
<1>4. Represents(compiled, Retained(source), clones)'
  <2>1. Retained(source)' = <<>>
    BY <1>3 DEF Retained
  <2> QED
    BY <1>3, <2>1 DEF Represents
<1> QED
  BY <1>1, <1>2, <1>3, <1>4
     DEF IInv, Reading, NoFaultYet, Progress, Running, ReportsFirstFault

LEMMA CallKeeps == IInv /\ Call => IInv'
<1> SUFFICES ASSUME IInv, Call PROVE IInv'
  OBVIOUS
<1>1. /\ phase' = "policy" /\ policyAt' = 1 /\ statementAt' = 1 /\ compiled' = <<>>
      /\ fault' = "none" /\ source' = document /\ document' = document
      /\ clones' = clones /\ document \in Sources
  BY DEF Call, IInv, TypeOK
<1>2. Len(document) \in Nat
  BY <1>1, DocumentParts
<1>3. TypeOK'
  BY <1>1, <1>2 DEF TypeOK
<1>4. Memory'
  BY <1>1 DEF IInv, Memory
<1>5. Behind' = <<>>
  <2>1. UpTo(document)[0] = <<>>
    BY <1>1, FlattensExists DEF Flattens
  <2>2. Behind' = UpTo(document)[1 - 1]
    BY <1>1 DEF Behind
  <2> QED
    BY <2>1, <2>2
<1>6. Represents(compiled, Behind, clones)'
  BY <1>1, <1>5 DEF Represents
<1> QED
  BY <1>1, <1>3, <1>4, <1>6
     DEF IInv, Reading, NoFaultYet, Progress, Running, ReportsFirstFault

LEMMA RejectPolicyKeeps == IInv /\ RejectPolicy => IInv'
<1> SUFFICES ASSUME IInv, RejectPolicy PROVE IInv'
  OBVIOUS
<1>1. Running /\ ~Valid(document[policyAt]) /\ Fail("invalid policy")
      /\ policyAt <= Len(document)
  BY DEF RejectPolicy, AtPolicy, Running
<1>2. policyAt \in 1..Len(source) /\ ~Valid(source[policyAt])
  <2>1. /\ document = source /\ source \in Sources
        /\ policyAt \in 1..(Len(source) + 1)
    BY <1>1, Inside
  <2>2. Len(source) \in Nat
    BY <2>1, DocumentParts
  <2>3. policyAt <= Len(source)
    BY <1>1, <2>1, Zenon
  <2>4. policyAt \in 1..Len(source)
    BY <2>1, <2>2, <2>3
  <2> QED
    BY <1>1, <2>1, <2>4, Zenon
<1>3. FirstFault(source) = "invalid policy"
  BY <1>1, <1>2, Inside, FaultOfPolicy
<1> QED
  BY <1>1, <1>3, FailKeeps

LEMMA EnterPolicyKeeps == IInv /\ EnterPolicy => IInv'
<1> SUFFICES ASSUME IInv, EnterPolicy PROVE IInv'
  OBVIOUS
<1>1. /\ Running /\ phase = "policy" /\ phase' = "statement" /\ statementAt' = 1
      /\ policyAt <= Len(document) /\ Valid(document[policyAt])
      /\ UNCHANGED <<document, clones, policyAt, compiled, fault, source>>
  BY DEF EnterPolicy, AtPolicy, Running
<1>2. policyAt \in 1..Len(source) /\ source[policyAt] \in Seq(Written)
      /\ Len(source[policyAt]) \in Nat
  BY <1>1, Inside, DocumentParts
<1>3. TypeOK'
  BY <1>1, <1>2, Inside DEF IInv, TypeOK
<1>4. Memory'
  BY <1>1, Inside DEF Memory
<1>5. Behind' = UpTo(source)[policyAt - 1] \o SubSeq(source[policyAt], 1, 0)
  BY <1>1 DEF Behind
<1>6. Behind' = Behind
  BY <1>1, <1>2, <1>5, Inside, GrowByPolicy DEF Behind
<1>7. Represents(compiled, Behind, clones)'
  BY <1>1, <1>6, Inside DEF Represents
<1>8. Reading' /\ NoFaultYet'
  BY <1>1, Inside DEF Reading, NoFaultYet, Running
<1> QED
  BY <1>1, <1>3, <1>4, <1>7, <1>8, Inside DEF IInv, Progress, Running, ReportsFirstFault

(* What is known at a statement of the inner loop.                         *)
LEMMA InPolicy ==
  ASSUME IInv, phase = "statement"
  PROVE  /\ Running /\ policyAt \in 1..Len(source) /\ Len(source) \in Nat
         /\ source[policyAt] \in Seq(Written)
         /\ Len(source[policyAt]) \in Nat
         /\ statementAt \in 1..(Len(source[policyAt]) + 1)
         /\ Valid(source[policyAt])
         /\ \A m \in 1..(statementAt - 1) : StatementFault(source[policyAt][m]) = "none"
         /\ Behind = UpTo(source)[policyAt - 1]
                       \o SubSeq(source[policyAt], 1, statementAt - 1)
<1>1. Running
  BY DEF Running
<1>2. /\ policyAt \in 1..(Len(source) + 1) /\ policyAt <= Len(source)
      /\ source \in Sources
      /\ statementAt \in 1..(Len(source[policyAt]) + 1)
  BY <1>1, Inside DEF IInv, TypeOK
<1>3. policyAt \in 1..Len(source) /\ Len(source) \in Nat
  BY <1>2, DocumentParts
<1> QED
  BY <1>1, <1>2, <1>3, DocumentParts DEF IInv, NoFaultYet, Behind

LEMMA RejectStatementKeeps == IInv /\ RejectStatement => IInv'
<1> SUFFICES ASSUME IInv, RejectStatement PROVE IInv'
  OBVIOUS
<1> DEFINE kind == StatementFault(document[policyAt][statementAt])
<1>1. /\ phase = "statement" /\ statementAt <= Len(document[policyAt])
      /\ kind # "none" /\ Fail(kind)
  BY DEF RejectStatement, AtStatement, Statement
<1>2. Running /\ document = source
  BY <1>1, InPolicy, Inside
<1>3. statementAt \in 1..Len(source[policyAt])
  BY <1>1, <1>2, InPolicy
<1>4. FirstFault(source) = kind
  BY <1>1, <1>2, <1>3, InPolicy, Inside, FaultOfStatement
<1> HIDE DEF kind
<1> QED
  BY <1>1, <1>2, <1>4, FailKeeps

LEMMA CompileStatementKeeps == IInv /\ CompileStatement => IInv'
<1> SUFFICES ASSUME IInv, CompileStatement PROVE IInv'
  OBVIOUS
<1>1. /\ phase = "statement" /\ statementAt <= Len(document[policyAt])
      /\ StatementFault(document[policyAt][statementAt]) = "none"
      /\ clones' = Append(clones, document[policyAt][statementAt].actions)
      /\ compiled' = Append(compiled,
           WithClone(document[policyAt][statementAt], Len(clones) + 1))
      /\ statementAt' = statementAt + 1
      /\ UNCHANGED <<document, phase, policyAt, fault, source>>
  BY DEF CompileStatement, AtStatement, Statement, Keep, WithClone
<1>2. /\ Running /\ document = source /\ source \in Sources /\ fault = "none"
      /\ Represents(compiled, Behind, clones) /\ Memory
  BY <1>1, InPolicy, Inside
<1>3. /\ statementAt \in 1..Len(source[policyAt])
      /\ policyAt \in 1..Len(source) /\ source[policyAt] \in Seq(Written)
      /\ Len(source[policyAt]) \in Nat
  BY <1>1, <1>2, InPolicy
<1>4. PICK st \in Written : st = source[policyAt][statementAt]
  BY <1>2, <1>3, DocumentParts
<1>5. PICK before \in Seq(Written) : before = UpTo(source)[policyAt - 1]
  BY <1>2, Inside
<1>6. Behind = before \o SubSeq(source[policyAt], 1, statementAt - 1)
  BY <1>1, <1>5, InPolicy
<1>7. /\ before \o SubSeq(source[policyAt], 1, statementAt) = Append(Behind, st)
      /\ Behind \in Seq(Written)
  BY <1>3, <1>4, <1>6, GrowByStatement
<1>8. PICK all \in Seq(Written) : all = Behind
  BY <1>7
<1>9. Behind' = Append(all, st)
  <2>1. statementAt' - 1 = statementAt
    BY <1>1, <1>3
  <2>2. Behind' = before \o SubSeq(source[policyAt], 1, statementAt)
    BY <1>1, <1>5, <2>1 DEF Behind
  <2> QED
    BY <1>7, <1>8, <2>2
<1>10. Memory' /\ Represents(compiled, Append(all, st), clones)'
  <2>1. Represents(compiled, all, clones)
    BY <1>2, <1>8
  <2>2. /\ clones' = Append(clones, st.actions)
        /\ compiled' = Append(compiled, WithClone(st, Len(clones) + 1))
    BY <1>1, <1>2, <1>4
  <2> QED
    BY <1>2, <2>1, <2>2, RepresentsAppend
<1>11. Represents(compiled, Behind, clones)'
  BY <1>9, <1>10 DEF Represents
<1>12. TypeOK'
  <2>1. statementAt' \in 1..(Len(source[policyAt]) + 1)
    BY <1>1, <1>3
  <2> QED
    BY <1>1, <1>2, <2>1 DEF IInv, TypeOK
<1>13. NoFaultYet'
  <2>1. ASSUME NEW m \in 1..statementAt
        PROVE  StatementFault(source[policyAt][m]) = "none"
    <3>1. CASE m = statementAt
      BY <1>1, <1>2, <3>1
    <3>2. CASE m # statementAt
      <4>1. m \in 1..(statementAt - 1)
        BY <1>3, <3>2
      <4> QED
        BY <1>1, <4>1, InPolicy
    <3> QED
      BY <3>1, <3>2
  <2>2. statementAt' - 1 = statementAt
    BY <1>1, <1>3
  <2> QED
    BY <1>1, <1>2, <2>1, <2>2 DEF IInv, NoFaultYet, Running
<1>14. Reading'
  BY <1>1, <1>2 DEF Reading, Running
<1>15. Progress' /\ ReportsFirstFault'
  BY <1>1, <1>2, <1>11 DEF Progress, Running, ReportsFirstFault
<1> QED
  BY <1>10, <1>12, <1>13, <1>14, <1>15 DEF IInv

LEMMA NextPolicyKeeps == IInv /\ NextPolicy => IInv'
<1> SUFFICES ASSUME IInv, NextPolicy PROVE IInv'
  OBVIOUS
<1>1. /\ phase = "statement" /\ statementAt > Len(document[policyAt])
      /\ phase' = "policy" /\ policyAt' = policyAt + 1
      /\ UNCHANGED <<document, clones, statementAt, compiled, fault, source>>
  BY DEF NextPolicy
<1>2. Running /\ document = source /\ source \in Sources
  BY <1>1, InPolicy, Inside
<1>3. statementAt - 1 = Len(source[policyAt])
  BY <1>1, <1>2, InPolicy
<1>4. Behind = UpTo(source)[policyAt - 1] \o source[policyAt]
  <2>1. /\ Behind = UpTo(source)[policyAt - 1]
                     \o SubSeq(source[policyAt], 1, Len(source[policyAt]))
        /\ source[policyAt] \in Seq(Written)
    BY <1>1, <1>3, InPolicy
  <2>2. UpTo(source)[policyAt - 1] \in Seq(Written)
    BY <1>2, Inside
  <2> QED
    BY <2>1, <2>2, GrowByPolicy
<1>5. UpTo(source)[policyAt] = Behind
  BY <1>1, <1>2, <1>4, InPolicy, FlattensExists DEF Flattens
<1>6. Behind' = Behind
  <2>1. policyAt' - 1 = policyAt
    BY <1>1, InPolicy
  <2> QED
    BY <1>1, <1>5, <2>1 DEF Behind
<1>7. Represents(compiled, Behind, clones)' /\ Memory'
  BY <1>1, <1>2, <1>6, Inside DEF Represents, Memory
<1>8. TypeOK'
  BY <1>1, <1>2, InPolicy DEF IInv, TypeOK
<1>9. ~Faulty(source[policyAt])
  <2>1. \A m \in 1..Len(source[policyAt]) : StatementFault(source[policyAt][m]) = "none"
    BY <1>1, <1>3, InPolicy
  <2> QED
    BY <1>1, <1>2, <2>1, InPolicy, DocumentParts DEF Faulty, Range
<1>10. NoFaultYet'
  <2>1. ASSUME NEW p \in 1..policyAt
        PROVE  ~Faulty(source[p])
    <3>1. CASE p = policyAt
      BY <1>9, <3>1
    <3>2. CASE p # policyAt
      <4>1. p \in 1..(policyAt - 1)
        BY <1>1, <3>2, InPolicy
      <4> QED
        BY <1>2, <4>1, Inside
    <3> QED
      BY <3>1, <3>2
  <2> QED
    BY <1>1, <2>1, InPolicy DEF NoFaultYet, Running
<1>11. Reading'
  BY <1>1, <1>2 DEF Reading, Running
<1> QED
  BY <1>1, <1>2, <1>7, <1>8, <1>10, <1>11, Inside
     DEF IInv, Progress, Running, ReportsFirstFault

LEMMA ReturnCompiledKeeps == IInv /\ ReturnCompiled => IInv'
<1> SUFFICES ASSUME IInv, ReturnCompiled PROVE IInv'
  OBVIOUS
<1>1. /\ Running /\ phase = "policy" /\ policyAt > Len(document) /\ phase' = "done"
      /\ UNCHANGED <<document, clones, policyAt, statementAt, compiled, fault, source>>
  BY DEF ReturnCompiled, Running
<1>2. policyAt - 1 = Len(source) /\ Len(source) \in Nat
  BY <1>1, Inside, DocumentParts
<1>3. FirstFault(source) = "none"
  BY <1>1, <1>2, Inside, NoFaultAtAll
<1>4. Behind = FlattenSeq(source)
  BY <1>1, <1>2, Inside, FlattensExists DEF Behind, Flattens
<1>5. Represents(compiled, Retained(source), clones)' /\ Memory'
  BY <1>1, <1>3, <1>4, Inside DEF Represents, Memory, Retained
<1>6. TypeOK'
  BY <1>1, Inside DEF IInv, TypeOK
<1> QED
  BY <1>1, <1>3, <1>5, <1>6, Inside
     DEF IInv, Reading, NoFaultYet, Progress, Running, ReportsFirstFault

LEMMA EditKeeps == IInv /\ Edit => IInv'
<1> SUFFICES ASSUME IInv, Edit PROVE IInv'
  OBVIOUS
<1>1. /\ phase \in {"idle", "done"} /\ document' \in Sources
      /\ UNCHANGED <<clones, phase, policyAt, statementAt, compiled, fault, source>>
  BY DEF Edit
<1> QED
  BY <1>1 DEF IInv, TypeOK, Memory, Reading, NoFaultYet, Progress, Running,
              Represents, ReportsFirstFault

LEMMA DropKeeps == IInv /\ Drop => IInv'
<1> SUFFICES ASSUME IInv, Drop PROVE IInv'
  OBVIOUS
<1>1. /\ phase' = "idle" /\ compiled' = <<>> /\ source' = <<>>
      /\ UNCHANGED <<document, clones>>
  BY DEF Drop
<1>2. <<>> \in Seq(CompiledStatements)
  OBVIOUS
<1> QED
  BY <1>1, <1>2 DEF IInv, TypeOK, Memory, Reading, NoFaultYet, Progress, Running,
                    ReportsFirstFault

LEMMA StepIInv == IInv /\ [Next]_vars => IInv'
<1> SUFFICES ASSUME IInv, [Next]_vars PROVE IInv'
  OBVIOUS
<1>1. CASE UNCHANGED vars
  BY <1>1 DEF vars, IInv, TypeOK, Memory, Reading, NoFaultYet, Progress, Running,
              Behind, Represents, ReportsFirstFault
<1>2. CASE Compile
  BY <1>2, RejectPolicyKeeps, EnterPolicyKeeps, RejectStatementKeeps,
     CompileStatementKeeps, NextPolicyKeeps, ReturnCompiledKeeps DEF Compile
<1> QED
  BY <1>1, <1>2, CallKeeps, EditKeeps, DropKeeps DEF Next
-----------------------------------------------------------------------------
LEMMA SnapshotFollows == IInv => CompiledIsSnapshot
<1> SUFFICES ASSUME IInv, phase = "done", fault = "none"
             PROVE  ReadBack(compiled) = Meaning(source)
  BY DEF CompiledIsSnapshot
<1>1. /\ compiled \in Seq(CompiledStatements) /\ source \in Sources
      /\ Represents(compiled, Retained(source), clones)
      /\ FirstFault(source) = "none"
  BY DEF IInv, Memory, Reading, Progress, ReportsFirstFault
<1>2. Retained(source) \in Seq(Written)
  BY <1>1, RetainedMeans
<1>3. ReadBack(compiled) = Result(source)
  BY <1>1, <1>2, ReadBackMeans, RetainedMeans
<1> QED
  BY <1>1, <1>3 DEF Result

LEMMA Invariant == Spec => []IInv
BY InitIInv, StepIInv, PTL DEF Spec

(* Both loops of Compile stay inside the slices they range over.           *)
THEOREM TypeCorrect == Spec => []TypeOK
<1>1. IInv => TypeOK
  BY DEF IInv
<1> QED
  BY Invariant, <1>1, PTL

(* A compiled document goes on meaning what the document said when it was  *)
(* compiled, all of it and in its order, whatever the caller writes into   *)
(* its own slices afterwards: Compile clones what it keeps.                *)
THEOREM CompilesSnapshot == Spec => []CompiledIsSnapshot
BY Invariant, SnapshotFollows, PTL

(* Compile reports the first fault of a document, and none only if the     *)
(* document has none.                                                      *)
THEOREM ReportsFault == Spec => []ReportsFirstFault
<1>1. IInv => ReportsFirstFault
  BY DEF IInv
<1> QED
  BY Invariant, <1>1, PTL
-----------------------------------------------------------------------------
(* The service.  A list of compiled statements that was handed over still  *)
(* is what Compile made of a document: the slices it holds are clones.     *)
Carries(list, d, slices) ==
  /\ d \in Sources /\ list \in Seq(CompiledStatements)
  /\ Represents(list, Retained(d), slices)

(* The calls of Decide and of Constrain, with what is proved of them.      *)
Gating == INSTANCE DeciderProofs WITH
  pc <- gatePc, statements <- ReadBack(gateStatements), i <- gateAt

Narrowing == INSTANCE ConstrainerProofs WITH
  pc <- listPc, statements <- ReadBack(listStatements),
  i <- listAt, j <- patternAt

(* Gate and Gating are copies of the same definitions, as are List and     *)
(* Narrowing: a step of the one is a step of the other, and they judge     *)
(* requests and rows as Statements does.                                   *)
LEMMA GateInits == Gate!Init => Gating!Init
BY Zenon DEF Gate!Init, Gating!Init, Gate!NoDecision, Gating!NoDecision,
  Gate!Denied, Gating!Denied

LEMMA GateCalls ==
  ASSUME NEW c, NEW r, Gate!Call(c, r)
  PROVE  Gating!Call(c, r)
BY Zenon DEF Gate!Call, Gating!Call, Gate!NoDecision, Gating!NoDecision,
  Gate!Denied, Gating!Denied

LEMMA GateEvaluates == Gate!Evaluate => Gating!Evaluate
BY Zenon DEF Gate!Evaluate, Gating!Evaluate, Gate!RejectAction,
  Gating!RejectAction, Gate!SkipStatement, Gating!SkipStatement,
  Gate!ExplicitDeny, Gating!ExplicitDeny, Gate!RememberAllow,
  Gating!RememberAllow, Gate!ReturnOutcome, Gating!ReturnOutcome,
  Gate!Evaluating, Gating!Evaluating, Gate!Return, Gating!Return,
  Gate!Denied, Gating!Denied, Gate!Allowed, Gating!Allowed, Gate!Reason,
  Gating!Reason, Gate!IsConcreteAction, Gating!IsConcreteAction,
  Gate!TwoParts, Gating!TwoParts, Gate!Applies, Gating!Applies,
  Gate!ActionMatches, Gating!ActionMatches, Gate!MatchesResource,
  Gating!MatchesResource, Gate!Range, Gating!Range, Gate!EvalConditions,
  Gating!EvalConditions, Gate!Known, Gating!Known, Gate!Positive,
  Gating!Positive, Gate!Negatable, Gating!Negatable, Gate!Orders,
  Gating!Orders, Gate!KeyPasses, Gating!KeyPasses, Gate!ConditionValue,
  Gating!ConditionValue, Gate!FromContext, Gating!FromContext, Gate!Absent,
  Gating!Absent, Gate!Present, Gating!Present, Gate!Holds, Gating!Holds,
  Gate!HoldsPositively, Gating!HoldsPositively, Gate!Satisfies,
  Gating!Satisfies, Gate!Lower, Gating!Lower, Gate!Ordered, Gating!Ordered,
  Gate!PatternMatches, Gating!PatternMatches, Gate!MatchTenant,
  Gating!MatchTenant, Gate!MatchField, Gating!MatchField, Gate!MatchPath,
  Gating!MatchPath, Gate!PlatformTenant, Gating!PlatformTenant,
  Gate!Wildcard, Gating!Wildcard, Gate!FlatFields, Gating!FlatFields,
  Gate!PathWildcards, Gating!PathWildcards, Gate!DeepWildcard,
  Gating!DeepWildcard, Gate!Matches, Gating!Matches, Gate!SuffixMatches,
  Gating!SuffixMatches, Gate!Consumes, Gating!Consumes

LEMMA GateDelivers == Gate!Deliver => Gating!Deliver
BY Zenon DEF Gate!Deliver, Gating!Deliver, Gate!NoDecision,
  Gating!NoDecision, Gate!Denied, Gating!Denied

LEMMA GateAccepts ==
  ASSUME NEW S, NEW r
  PROVE  Gating!Acceptable(S, r) = Acceptable(S, r)
BY Zenon DEF Gating!Acceptable, Acceptable, Gating!Explanations,
  Explanations, Gating!Permitted, Permitted, Gating!Applicable, Applicable,
  Gating!Reason, Reason, Gating!IsConcreteAction, IsConcreteAction,
  Gating!TwoParts, TwoParts, Gating!Applies, Applies, Gating!ActionMatches,
  ActionMatches, Gating!MatchesResource, MatchesResource, Gating!Range,
  Range, Gating!EvalConditions, EvalConditions, Gating!Known, Known,
  Gating!Positive, Positive, Gating!Negatable, Negatable, Gating!Orders,
  Orders, Gating!KeyPasses, KeyPasses, Gating!ConditionValue,
  ConditionValue, Gating!FromContext, FromContext, Gating!Absent, Absent,
  Gating!Present, Present, Gating!Holds, Holds, Gating!HoldsPositively,
  HoldsPositively, Gating!Satisfies, Satisfies, Gating!Lower, Lower,
  Gating!Ordered, Ordered, Gating!PatternMatches, PatternMatches,
  Gating!MatchTenant, MatchTenant, Gating!MatchField, MatchField,
  Gating!MatchPath, MatchPath, Gating!PlatformTenant, PlatformTenant,
  Gating!Wildcard, Wildcard, Gating!FlatFields, FlatFields,
  Gating!PathWildcards, PathWildcards, Gating!DeepWildcard, DeepWildcard,
  Gating!Matches, Matches, Gating!SuffixMatches, SuffixMatches,
  Gating!Consumes, Consumes

LEMMA ListInits == List!Init => Narrowing!Init
BY Zenon DEF List!Init, Narrowing!Init, List!NoConstraints,
  Narrowing!NoConstraints, List!NoConditions, Narrowing!NoConditions

LEMMA ListCalls ==
  ASSUME NEW c, NEW q, List!Call(c, q)
  PROVE  Narrowing!Call(c, q)
BY Zenon DEF List!Call, Narrowing!Call

LEMMA ListCollects == List!Collect => Narrowing!Collect
BY Zenon DEF List!Collect, Narrowing!Collect, List!RejectAction,
  Narrowing!RejectAction, List!SkipStatement, Narrowing!SkipStatement,
  List!EnterStatement, Narrowing!EnterStatement, List!KeepPattern,
  Narrowing!KeepPattern, List!DropPattern, Narrowing!DropPattern,
  List!LeaveStatement, Narrowing!LeaveStatement, List!ReturnConstraints,
  Narrowing!ReturnConstraints, List!AtStatement, Narrowing!AtStatement,
  List!AtPattern, Narrowing!AtPattern, List!Relevant, Narrowing!Relevant,
  List!ActionMatches, Narrowing!ActionMatches, List!Resolves,
  Narrowing!Resolves, List!Residual, Narrowing!Residual, List!Deferred,
  Narrowing!Deferred, List!WithTenant, Narrowing!WithTenant,
  List!PlatformTenant, Narrowing!PlatformTenant, List!Wildcard,
  Narrowing!Wildcard, List!Range, Narrowing!Range, List!IsConcreteAction,
  Narrowing!IsConcreteAction, List!TwoParts, Narrowing!TwoParts,
  List!Known, Narrowing!Known, List!Positive, Narrowing!Positive,
  List!Negatable, Narrowing!Negatable, List!Orders, Narrowing!Orders,
  List!Present, Narrowing!Present, List!Absent, Narrowing!Absent,
  List!Holds, Narrowing!Holds, List!HoldsPositively,
  Narrowing!HoldsPositively, List!Satisfies, Narrowing!Satisfies,
  List!Lower, Narrowing!Lower, List!Ordered, Narrowing!Ordered

LEMMA ListDelivers == List!Deliver => Narrowing!Deliver
BY Zenon DEF List!Deliver, Narrowing!Deliver, List!NoConstraints,
  Narrowing!NoConstraints, List!NoConditions, Narrowing!NoConditions

LEMMA ListSelects ==
  ASSUME NEW c, NEW row
  PROVE  List!Selected(c, row) <=> Narrowing!Selected(c, row)
BY Zenon DEF List!Selected, Narrowing!Selected, List!Covers,
  Narrowing!Covers, List!Range, Narrowing!Range, List!EvalConditions,
  Narrowing!EvalConditions, List!Known, Narrowing!Known, List!Positive,
  Narrowing!Positive, List!Negatable, Narrowing!Negatable, List!Orders,
  Narrowing!Orders, List!KeyPasses, Narrowing!KeyPasses,
  List!ConditionValue, Narrowing!ConditionValue, List!FromContext,
  Narrowing!FromContext, List!Absent, Narrowing!Absent, List!Present,
  Narrowing!Present, List!Holds, Narrowing!Holds, List!HoldsPositively,
  Narrowing!HoldsPositively, List!Satisfies, Narrowing!Satisfies,
  List!Lower, Narrowing!Lower, List!Ordered, Narrowing!Ordered,
  List!PatternMatches, Narrowing!PatternMatches, List!MatchTenant,
  Narrowing!MatchTenant, List!MatchField, Narrowing!MatchField,
  List!MatchPath, Narrowing!MatchPath, List!PlatformTenant,
  Narrowing!PlatformTenant, List!Wildcard, Narrowing!Wildcard,
  List!FlatFields, Narrowing!FlatFields, List!PathWildcards,
  Narrowing!PathWildcards, List!DeepWildcard, Narrowing!DeepWildcard,
  List!Matches, Narrowing!Matches, List!SuffixMatches,
  Narrowing!SuffixMatches, List!Consumes, Narrowing!Consumes

LEMMA ListPermits ==
  ASSUME NEW S, NEW q, NEW row
  PROVE  Narrowing!Permitted(S, Narrowing!GateRequest(q, row))
           <=> Permitted(S, List!GateRequest(q, row))
BY Zenon DEF Narrowing!Permitted, Permitted, Narrowing!Applicable,
  Applicable, Narrowing!IsConcreteAction, IsConcreteAction,
  Narrowing!TwoParts, TwoParts, Narrowing!Applies, Applies,
  Narrowing!ActionMatches, ActionMatches, Narrowing!MatchesResource,
  MatchesResource, Narrowing!Range, Range, Narrowing!EvalConditions,
  EvalConditions, Narrowing!Known, Known, Narrowing!Positive, Positive,
  Narrowing!Negatable, Negatable, Narrowing!Orders, Orders,
  Narrowing!KeyPasses, KeyPasses, Narrowing!ConditionValue, ConditionValue,
  Narrowing!FromContext, FromContext, Narrowing!Absent, Absent,
  Narrowing!Present, Present, Narrowing!Holds, Holds,
  Narrowing!HoldsPositively, HoldsPositively, Narrowing!Satisfies,
  Satisfies, Narrowing!Lower, Lower, Narrowing!Ordered, Ordered,
  Narrowing!PatternMatches, PatternMatches, Narrowing!MatchTenant,
  MatchTenant, Narrowing!MatchField, MatchField, Narrowing!MatchPath,
  MatchPath, Narrowing!PlatformTenant, PlatformTenant, Narrowing!Wildcard,
  Wildcard, Narrowing!FlatFields, FlatFields, Narrowing!PathWildcards,
  PathWildcards, Narrowing!DeepWildcard, DeepWildcard, Narrowing!Matches,
  Matches, Narrowing!SuffixMatches, SuffixMatches, Narrowing!Consumes,
  Consumes,
  Narrowing!GateRequest, List!GateRequest, Narrowing!Merge, List!Merge

-----------------------------------------------------------------------------
HeldInv == held # <<>> => Carries(held[1].statements, held[1].source, clones)

(* The package function Decide found a fault.                              *)
Refused ==
  /\ FirstFault(gateSource) # "none" /\ request \in Requests
  /\ gatePc = "failed" \/ (gatePc = "done" /\ decision = FaultDecision)

GateReads ==
  IF gatePc = "idle" THEN gateStatements = <<>>
  ELSE Carries(gateStatements, gateSource, clones)

GateInv == GateReads /\ (Gating!IInv \/ Refused)

ListReads ==
  IF listPc = "idle" THEN listStatements = <<>>
  ELSE Carries(listStatements, listSource, clones)

ListInv == ListReads /\ Narrowing!IInv

EngineInv == IInv /\ HeldInv /\ GateInv /\ ListInv
-----------------------------------------------------------------------------
(* What is carried means what its document meant, and goes on doing so     *)
(* while more slices are cloned.                                           *)
LEMMA CarriesMeans ==
  \A list, d : Carries(list, d, clones) => ReadBack(list) = Result(d)
<1> SUFFICES ASSUME NEW list, NEW d, Carries(list, d, clones)
             PROVE  ReadBack(list) = Result(d)
  OBVIOUS
<1>1. /\ list \in Seq(CompiledStatements) /\ d \in Sources
      /\ Represents(list, Retained(d), clones)
  BY DEF Carries
<1>2. /\ Retained(d) \in Seq(Written)
      /\ Result(d) = [k \in DOMAIN Retained(d) |-> Translation(Retained(d)[k])]
  BY <1>1, RetainedMeans
<1> QED
  BY <1>1, <1>2, ReadBackMeans

LEMMA CarriesMeansNext ==
  \A list, d : Carries(list, d, clones') => ReadBack(list)' = Result(d)
<1>1. (\A list, d : Carries(list, d, clones) => ReadBack(list) = Result(d))'
  BY CarriesMeans, PTL
<1> QED
  BY <1>1

LEMMA CarriesStill ==
  ASSUME NEW list, NEW d, NEW slices \in Seq(ActionLists),
         NEW new \in ActionLists, Carries(list, d, slices)
  PROVE  Carries(list, d, Append(slices, new))
BY MeansStill DEF Carries, Represents

LEMMA NothingRead == ReadBack(<<>>) = <<>>
BY DEF ReadBack

(* The engine's slices only grow.                                          *)
LEMMA ClonesGrow ==
  ASSUME IInv, [Next]_vars
  PROVE  /\ clones \in Seq(ActionLists)
         /\ clones' = clones \/ \E new \in ActionLists : clones' = Append(clones, new)
<1>1. clones \in Seq(ActionLists)
  BY DEF IInv, Memory
<1>2. CASE CompileStatement
  <2>1. /\ phase = "statement" /\ statementAt <= Len(document[policyAt])
        /\ clones' = Append(clones, document[policyAt][statementAt].actions)
    BY <1>2 DEF CompileStatement, AtStatement, Statement
  <2>2. /\ document \in Sources /\ policyAt \in 1..Len(document)
        /\ statementAt \in 1..Len(document[policyAt])
    <3>1. document = source
      BY <2>1, InPolicy, Inside
    <3> QED
      BY <2>1, <3>1, InPolicy DEF IInv, TypeOK
  <2>3. document[policyAt][statementAt] \in Written
    BY <2>2, DocumentParts
  <2> QED
    BY <1>1, <2>1, <2>3 DEF ActionLists
<1>3. CASE ~CompileStatement
  BY <1>1, <1>3 DEF Next, Call, Compile, RejectPolicy, EnterPolicy, RejectStatement,
                    NextPolicy, ReturnCompiled, Edit, Drop, Fail, vars
<1> QED
  BY <1>2, <1>3

(* A document without a fault has none anywhere.                           *)
LEMMA SoundEverywhere ==
  ASSUME NEW d \in Sources, FirstFault(d) = "none"
  PROVE  \A p \in 1..Len(d) : ~Faulty(d[p])
<1> DEFINE bad == {p \in 1..Len(d) : Faulty(d[p])}
<1> SUFFICES ASSUME bad # {} PROVE FALSE
  OBVIOUS
<1>1. Len(d) \in Nat
  BY DocumentParts
<1>2. PICK p \in bad : \A q \in bad : p <= q
  <2>1. bad \subseteq Nat
    OBVIOUS
  <2> HIDE DEF bad
  <2> QED
    BY <2>1, FirstPosition
<1>3. p \in 1..Len(d) /\ Faulty(d[p]) /\ \A q \in 1..(p-1) : ~Faulty(d[q])
  BY <1>1, <1>2
<1>4. CASE ~Valid(d[p])
  BY <1>3, <1>4, FaultOfPolicy
<1>5. CASE Valid(d[p])
  <2> DEFINE worse == {m \in 1..Len(d[p]) : StatementFault(d[p][m]) # "none"}
  <2>1. Len(d[p]) \in Nat /\ DOMAIN d[p] = 1..Len(d[p])
    BY <1>3, DocumentParts
  <2>2. worse # {}
    BY <1>3, <1>5, <2>1 DEF Faulty, Range
  <2>3. PICK m \in worse : \A l \in worse : m <= l
    <3>1. worse \subseteq Nat
      OBVIOUS
    <3> HIDE DEF worse
    <3> QED
      BY <2>2, <3>1, FirstPosition
  <2>4. /\ m \in 1..Len(d[p]) /\ StatementFault(d[p][m]) # "none"
        /\ \A l \in 1..(m-1) : StatementFault(d[p][l]) = "none"
    BY <2>1, <2>3
  <2> QED
    BY <1>3, <1>5, <2>4, FaultOfStatement
<1> QED
  BY <1>4, <1>5

(* A statement that Compile accepts.                                       *)
Sound(st) ==
  /\ st.effect \in Effects
  /\ \A n \in 1..Len(st.resources) : ParsePattern(st.resources[n]) # Rejected

(* Compile retains nothing else.                                           *)
LEMMA RetainedSound ==
  ASSUME NEW d \in Sources, NEW k \in 1..Len(Retained(d))
  PROVE  Retained(d)[k] \in Written /\ Sound(Retained(d)[k])
<1> DEFINE good == {st \in Written : Sound(st)}
           n == Len(d)
           g == UpTo(d)
<1>1. n \in Nat /\ Flattens(g, d)
  BY DocumentParts, FlattensExists
<1>2. CASE FirstFault(d) # "none"
  BY <1>2 DEF Retained
<1>3. CASE FirstFault(d) = "none"
  <2>1. ASSUME NEW p \in 1..n
        PROVE  d[p] \in Seq(good)
    <3>1. /\ d[p] \in Seq(Written) /\ Len(d[p]) \in Nat
          /\ DOMAIN d[p] = 1..Len(d[p])
      BY DocumentParts
    <3>2. Valid(d[p]) /\ \A st \in Range(d[p]) : StatementFault(st) = "none"
      BY <1>3, SoundEverywhere DEF Faulty
    <3>3. ASSUME NEW m \in 1..Len(d[p])
          PROVE  d[p][m] \in good
      <4>1. d[p][m] \in Range(d[p]) /\ d[p][m] \in Written
        BY <3>1 DEF Range
      <4>2. PICK st \in Written : st = d[p][m] /\ st \in Range(d[p])
        BY <4>1
      <4>3. st.effect \in Effects
        BY <3>2, <4>2 DEF Valid
      <4>4. \A t \in Range(st.resources) : ParsePattern(t) # Rejected
        BY <3>2, <4>2 DEF StatementFault
      <4>5. Sound(st)
        BY <4>2, <4>3, <4>4, SourceAssumption DEF Sound, Range
      <4> QED
        BY <4>2, <4>5
    <3> HIDE DEF good
    <3> QED
      BY <3>1, <3>3
  <2> DEFINE P == {p \in 0..n : g[p] \in Seq(good)}
  <2> HIDE DEF good, g
  <2>2. 0 \in P
    BY <1>1 DEF Flattens
  <2>3. ASSUME NEW p \in 0..(n-1), p \in P
        PROVE  p + 1 \in P
    <3>1. p + 1 \in 1..n /\ (p + 1) - 1 = p
      BY <1>1
    <3>2. g[p+1] = g[p] \o d[p+1]
      BY <1>1, <3>1 DEF Flattens, n
    <3>3. g[p] \in Seq(good) /\ d[p+1] \in Seq(good)
      BY <2>1, <2>3, <3>1
    <3>4. g[p+1] \in Seq(good)
      BY <3>2, <3>3
    <3> QED
      BY <1>1, <3>1, <3>4
  <2> HIDE DEF P
  <2>4. \A p \in 0..n : p \in P
    BY <1>1, <2>2, <2>3, Ascent
  <2>5. n \in P
    BY <1>1, <2>4
  <2>6. Retained(d) \in Seq(good)
    BY <1>1, <1>3, <2>5 DEF P, Flattens, Retained
  <2>7. Retained(d)[k] \in good
    BY <2>6
  <2> QED
    BY <2>7 DEF good
<1> QED
  BY <1>2, <1>3

(* What ParsePattern accepts has all the fields of a pattern.              *)
LEMMA PatternShape ==
  ASSUME NEW t, ParsePattern(t) # Rejected
  PROVE  DOMAIN ParsePattern(t)[1] = FlatFields \cup {"tenant", "resource"}
<1>1. /\ ParsePattern(t) = ParseAs(t, TRUE)
      /\ ParseAs(t, TRUE) # Rejected
  BY DEF ParsePattern
<1>2. ParseAs(t, TRUE)[1] =
        Name(NormalizeTenant(t[2], TRUE)[1], t[3], t[4], t[5], t[6], t[7])
  BY <1>1 DEF ParseAs, Accepted
<1>3. ASSUME NEW a, NEW b, NEW c, NEW e, NEW f, NEW g
      PROVE  DOMAIN Name(a, b, c, e, f, g) = FlatFields \cup {"tenant", "resource"}
  BY DEF Name, FlatFields
<1> QED
  BY <1>1, <1>2, <1>3, Zenon

(* What Compile returns has the shape that Decide and Constrain rely on.   *)
LEMMA CompilationShape ==
  ASSUME NEW c \in Compilations
  PROVE  /\ DOMAIN c = 1..Len(c) /\ Len(c) \in Nat
         /\ \A k \in 1..Len(c) :
              /\ c[k].effect \in Effects
              /\ DOMAIN c[k].patterns = 1..Len(c[k].patterns)
              /\ Len(c[k].patterns) \in Nat
              /\ \A n \in 1..Len(c[k].patterns) :
                   DOMAIN c[k].patterns[n] = FlatFields \cup {"tenant", "resource"}
<1>1. PICK d \in Sources : c = Result(d)
  BY DEF Compilations
<1> DEFINE all == Retained(d)
<1>2. /\ all \in Seq(Written)
      /\ c = [k \in DOMAIN all |-> Translation(all[k])]
  BY <1>1, RetainedMeans
<1>3. \A k \in 1..Len(all) : all[k] \in Written /\ Sound(all[k])
  BY RetainedSound
<1> HIDE DEF all
<1>4. Len(all) \in Nat /\ DOMAIN all = 1..Len(all)
  BY <1>2
<1>5. /\ DOMAIN c = 1..Len(all) /\ Len(c) = Len(all)
      /\ \A k \in 1..Len(all) : c[k] = Translation(all[k])
  BY <1>2, <1>4
<1>6. ASSUME NEW k \in 1..Len(all)
      PROVE  /\ c[k].effect \in Effects
             /\ DOMAIN c[k].patterns = 1..Len(c[k].patterns)
             /\ Len(c[k].patterns) \in Nat
             /\ \A n \in 1..Len(c[k].patterns) :
                  DOMAIN c[k].patterns[n] = FlatFields \cup {"tenant", "resource"}
  <2>1. PICK st \in Written : st = all[k] /\ Sound(st)
    BY <1>3
  <2>2. c[k].effect = st.effect /\ c[k].patterns = Patterns(st.resources)
    BY <1>5, <2>1 DEF Translation
  <2>3. Len(st.resources) \in Nat /\ DOMAIN st.resources = 1..Len(st.resources)
    BY SourceAssumption
  <2> DEFINE texts == st.resources
             parsed == Patterns(texts)
  <2>4. parsed = [m \in 1..Len(texts) |-> ParsePattern(texts[m])[1]]
    BY <2>3 DEF Patterns
  <2>5. \A m \in 1..Len(texts) : ParsePattern(texts[m]) # Rejected
    BY <2>1 DEF Sound
  <2>6. Len(texts) \in Nat
    BY <2>3
  <2> HIDE DEF parsed, texts
  <2>7. /\ DOMAIN parsed = 1..Len(texts) /\ Len(parsed) = Len(texts)
        /\ \A m \in 1..Len(texts) : parsed[m] = ParsePattern(texts[m])[1]
    BY <2>4, <2>6
  <2>8. \A m \in 1..Len(texts) : DOMAIN parsed[m] = FlatFields \cup {"tenant", "resource"}
    BY <2>5, <2>7, PatternShape
  <2>9. st.effect \in Effects
    BY <2>1 DEF Sound
  <2> QED
    BY <2>2, <2>6, <2>7, <2>8, <2>9 DEF parsed, texts
<1> QED
  BY <1>4, <1>5, <1>6

(* The assumptions that the proofs of Decide and of Constrain make hold of *)
(* what Compile returns, so their invariants are kept by their steps.      *)
LEMMA GateShape ==
  \A c \in Compilations :
    /\ DOMAIN c = 1..Len(c) /\ Len(c) \in Nat
    /\ \A k \in 1..Len(c) : c[k].effect \in Gating!Effects
BY CompilationShape DEF Effects, Gating!Effects

LEMMA GatingInit == Gating!Init => Gating!IInv
BY GateShape, CallAssumption, KeyAssumption, Gating!InitInv

LEMMA GatingStep == Gating!IInv /\ [Gating!Next]_(Gating!vars) => Gating!IInv'
BY GateShape, CallAssumption, KeyAssumption, Gating!InvStep

LEMMA ListShape ==
  \A c \in Compilations :
    /\ DOMAIN c = 1..Len(c) /\ Len(c) \in Nat
    /\ \A k \in 1..Len(c) :
         /\ c[k].effect \in Narrowing!Effects
         /\ DOMAIN c[k].patterns = 1..Len(c[k].patterns)
         /\ Len(c[k].patterns) \in Nat
         /\ \A n \in 1..Len(c[k].patterns) :
              DOMAIN c[k].patterns[n] = Narrowing!FlatFields \cup {"tenant", "resource"}
BY CompilationShape DEF Effects, Narrowing!Effects, FlatFields, Narrowing!FlatFields

LEMMA NarrowingInit == Narrowing!Init => Narrowing!IInv
BY ListShape, CallAssumption, KeyAssumption, Narrowing!InitInv

LEMMA NarrowingStep ==
  Narrowing!IInv /\ [Narrowing!Next]_(Narrowing!vars) => Narrowing!IInv'
BY ListShape, CallAssumption, KeyAssumption, Narrowing!InvStep

LEMMA NarrowingEnds == Narrowing!EndedAtOnce => Narrowing!IInv
BY ListShape, CallAssumption, KeyAssumption, Narrowing!EmptyReceiver

LEMMA NarrowingFilters == Narrowing!IInv => Narrowing!FilterAgreesWithGate
BY ListShape, CallAssumption, KeyAssumption, Narrowing!FilterFollows

-----------------------------------------------------------------------------
(* Every step of the service is one of Compile and its callers, or none.   *)
LEMMA CompilerMoves == [EngineNext]_allVars => [Next]_vars
<1>1. UNCHANGED compileVars => UNCHANGED vars
  BY DEF compileVars, vars
<1>2. UNCHANGED allVars => UNCHANGED compileVars
  BY DEF allVars
<1> QED
  BY <1>1, <1>2
     DEF EngineNext, CompileStep, OwnerEdits, Hold, DecideHeld, DecideOnce, GateStep,
         GateFails, GateReturns, ConstrainHeld, ConstrainOnce, ListStep, ListReturns,
         Next

(* A list that was handed over means the same after the step.              *)
LEMMA Kept ==
  ASSUME IInv, [Next]_vars, NEW list, NEW d, Carries(list, d, clones)
  PROVE  Carries(list, d, clones') /\ ReadBack(list)' = ReadBack(list)
<1>1. Carries(list, d, clones')
  BY ClonesGrow, CarriesStill
<1> QED
  BY <1>1, CarriesMeans, CarriesMeansNext

(* The result of a call that has ended.                                    *)
LEMMA ResultCarries ==
  ASSUME IInv, phase = "done"
  PROVE  Carries(compiled, source, clones) /\ fault = FirstFault(source)
BY DEF IInv, Memory, Reading, Progress, ReportsFirstFault, Carries

LEMMA CarriedCompilation ==
  ASSUME NEW list, NEW d, Carries(list, d, clones)
  PROVE  /\ ReadBack(list) = Result(d) /\ ReadBack(list) \in Compilations
         /\ d \in Sources
BY CarriesMeans DEF Carries, Compilations

LEMMA HeldStep ==
  ASSUME EngineInv, [EngineNext]_allVars
  PROVE  HeldInv'
<1>1. CASE Hold
  <2>1. /\ held' = <<[statements |-> compiled, source |-> source]>>
        /\ phase = "done" /\ clones' = clones
    BY <1>1 DEF Hold, Drop
  <2> QED
    BY <2>1, ResultCarries DEF EngineInv, HeldInv
<1>2. CASE ~Hold
  <2>1. held' = held
    BY <1>2 DEF EngineNext, CompileStep, OwnerEdits, DecideHeld, DecideOnce, GateStep,
      GateFails, GateReturns, ConstrainHeld, ConstrainOnce, ListStep, ListReturns, allVars
  <2> QED
    BY <2>1, CompilerMoves, Kept DEF EngineInv, HeldInv
<1> QED
  BY <1>1, <1>2

(* While another goroutine moves, the gate reads what it read.             *)
LEMMA GateRests ==
  ASSUME EngineInv, [Next]_vars, UNCHANGED gateVars
  PROVE  GateInv'
<1>1. GateReads' /\ ReadBack(gateStatements)' = ReadBack(gateStatements)
  <2>1. PICK list, d : list = gateStatements /\ d = gateSource
    OBVIOUS
  <2>2. gateStatements' = list /\ gateSource' = d /\ gatePc' = gatePc
    BY <2>1 DEF gateVars
  <2>3. ReadBack(gateStatements)' = ReadBack(list)'
    BY <2>2 DEF ReadBack, Content
  <2>4. CASE gatePc = "idle"
    <3>1. list = <<>>
      BY <2>1, <2>4 DEF EngineInv, GateInv, GateReads
    <3> QED
      BY <2>1, <2>2, <2>4, <3>1 DEF GateReads, ReadBack
  <2>5. CASE gatePc # "idle"
    <3>1. Carries(list, d, clones)
      BY <2>1, <2>5 DEF EngineInv, GateInv, GateReads
    <3> QED
      BY <2>1, <2>2, <2>3, <2>5, <3>1, Kept DEF EngineInv, GateReads
  <2> QED
    BY <2>4, <2>5
<1>2. UNCHANGED Gating!vars
  BY <1>1 DEF gateVars, Gating!vars
<1>3. Refused => Refused'
  BY DEF gateVars, Refused
<1> QED
  BY <1>1, <1>2, <1>3, GatingStep DEF EngineInv, GateInv

(* A call of Decide on a list that was handed over.                        *)
LEMMA GateCalled ==
  ASSUME EngineInv, gatePc = "idle", NEW list, NEW d, Carries(list, d, clones),
         gateStatements' = list, gateSource' = d, clones' = clones,
         NEW r \in Requests, Gate!Call(ReadBack(list), r)
  PROVE  GateInv'
<1>1. Gating!IInv
  BY DEF EngineInv, GateInv, Refused
<1>2. Gating!Next
  BY CarriedCompilation, GateCalls DEF Gating!Next, Gating!Receive
<1>3. gatePc' = "eval"
  BY DEF Gate!Call
<1> QED
  BY <1>1, <1>2, <1>3, GatingStep DEF GateInv, GateReads

(* Every step of the service keeps what is known of the gate.              *)
LEMMA GateMoves ==
  ASSUME EngineInv, [EngineNext]_allVars
  PROVE  GateInv'
<1> USE CompilerMoves
<1>1. CASE UNCHANGED gateVars
  BY <1>1, GateRests
<1>2. CASE DecideHeld
  <2>1. Carries(held[1].statements, held[1].source, clones)
    BY <1>2 DEF DecideHeld, EngineInv, HeldInv
  <2> QED
    BY <1>2, <2>1, GateCalled DEF DecideHeld, compileVars
<1>3. CASE DecideOnce
  <2>1. /\ phase = "done" /\ gatePc = "idle" /\ clones' = clones
        /\ gateStatements' = compiled /\ gateSource' = source
    BY <1>3 DEF DecideOnce, Drop
  <2>2. Carries(compiled, source, clones) /\ fault = FirstFault(source)
    BY <2>1, ResultCarries DEF EngineInv
  <2>3. CASE fault = "none"
    BY <1>3, <2>1, <2>2, <2>3, GateCalled DEF DecideOnce
  <2>4. CASE fault # "none"
    <3>1. gatePc' = "failed" /\ request' \in Requests
      BY <1>3, <2>4 DEF DecideOnce
    <3> QED
      BY <2>1, <2>2, <2>4, <3>1 DEF GateInv, GateReads, Refused
  <2> QED
    BY <2>3, <2>4
<1>4. CASE GateStep
  <2>1. /\ gatePc = "eval" /\ gatePc' # "idle"
    BY <1>4 DEF GateStep, Gate!Evaluate, Gate!RejectAction, Gate!SkipStatement,
      Gate!ExplicitDeny, Gate!RememberAllow, Gate!ReturnOutcome, Gate!Evaluating,
      Gate!Return
  <2>2. Gating!IInv
    BY <2>1 DEF EngineInv, GateInv, Refused
  <2>3. Gating!Next
    BY <1>4, GateEvaluates DEF GateStep, Gating!Next
  <2>4. GateReads'
    BY <1>4, <2>1 DEF GateStep, compileVars, EngineInv, GateInv, GateReads
  <2> QED
    BY <2>2, <2>3, <2>4, GatingStep DEF GateInv
<1>5. CASE GateFails
  <2>1. /\ gatePc = "failed" /\ gatePc' = "done" /\ decision' = FaultDecision
        /\ UNCHANGED <<compileVars, gateStatements, request, gateSource>>
    BY <1>5 DEF GateFails
  <2>2. Refused
    BY <2>1 DEF EngineInv, GateInv, Gating!IInv, Gating!TypeOK
  <2> QED
    BY <2>1, <2>2 DEF compileVars, EngineInv, GateInv, GateReads, Refused
<1>6. CASE GateReturns
  <2>1. gatePc' = "idle" /\ gateStatements' = <<>> /\ Gating!Deliver
    BY <1>6, GateDelivers DEF GateReturns, Gate!Deliver
  <2>2. (Gating!Init)'
    BY <2>1 DEF Gating!Deliver, Gating!Init
  <2>3. (Gating!Init => Gating!IInv)'
    BY GatingInit, PTL
  <2> QED
    BY <2>1, <2>2, <2>3 DEF GateInv, GateReads
<1> QED
  BY <1>1, <1>2, <1>3, <1>4, <1>5, <1>6
     DEF EngineNext, CompileStep, OwnerEdits, Hold, ConstrainHeld, ConstrainOnce,
         ListStep, ListReturns, allVars
-----------------------------------------------------------------------------
(* The same of the goroutine that lists.                                   *)
LEMMA ListRests ==
  ASSUME EngineInv, [Next]_vars, UNCHANGED listVars
  PROVE  ListInv'
<1>1. ListReads' /\ ReadBack(listStatements)' = ReadBack(listStatements)
  <2>1. PICK list, d : list = listStatements /\ d = listSource
    OBVIOUS
  <2>2. listStatements' = list /\ listSource' = d /\ listPc' = listPc
    BY <2>1 DEF listVars
  <2>3. ReadBack(listStatements)' = ReadBack(list)'
    BY <2>2 DEF ReadBack, Content
  <2>4. CASE listPc = "idle"
    <3>1. list = <<>>
      BY <2>1, <2>4 DEF EngineInv, ListInv, ListReads
    <3> QED
      BY <2>1, <2>2, <2>4, <3>1 DEF ListReads, ReadBack
  <2>5. CASE listPc # "idle"
    <3>1. Carries(list, d, clones)
      BY <2>1, <2>5 DEF EngineInv, ListInv, ListReads
    <3> QED
      BY <2>1, <2>2, <2>3, <2>5, <3>1, Kept DEF EngineInv, ListReads
  <2> QED
    BY <2>4, <2>5
<1>2. UNCHANGED Narrowing!vars
  BY <1>1 DEF listVars, Narrowing!vars
<1> QED
  BY <1>1, <1>2, NarrowingStep DEF EngineInv, ListInv

LEMMA ListCalled ==
  ASSUME EngineInv, listPc = "idle", NEW list, NEW d, Carries(list, d, clones),
         listStatements' = list, listSource' = d, clones' = clones,
         NEW q \in Queries, List!Call(ReadBack(list), q)
  PROVE  ListInv'
<1>1. Narrowing!Next
  BY CarriedCompilation, ListCalls DEF Narrowing!Next, Narrowing!Receive
<1>2. listPc' = "statements"
  BY DEF List!Call
<1> QED
  BY <1>1, <1>2, NarrowingStep DEF EngineInv, ListInv, ListReads

LEMMA ListMoves ==
  ASSUME EngineInv, [EngineNext]_allVars
  PROVE  ListInv'
<1> USE CompilerMoves
<1>1. CASE UNCHANGED listVars
  BY <1>1, ListRests
<1>2. CASE ConstrainHeld
  <2>1. Carries(held[1].statements, held[1].source, clones)
    BY <1>2 DEF ConstrainHeld, EngineInv, HeldInv
  <2> QED
    BY <1>2, <2>1, ListCalled DEF ConstrainHeld, compileVars
<1>3. CASE ConstrainOnce
  <2>1. /\ phase = "done" /\ listPc = "idle" /\ clones' = clones
        /\ listStatements' = compiled /\ listSource' = source
    BY <1>3 DEF ConstrainOnce, Drop
  <2>2. Carries(compiled, source, clones) /\ fault = FirstFault(source)
    BY <2>1, ResultCarries DEF EngineInv
  <2>3. CASE fault = "none"
    BY <1>3, <2>1, <2>2, <2>3, ListCalled DEF ConstrainOnce
  <2>4. CASE fault # "none"
    <3>1. /\ listPc' = "done" /\ query' \in Queries /\ out' = List!NoConstraints
          /\ listAt' = listAt
      BY <1>3, <2>4 DEF ConstrainOnce
    <3>2. listAt = 1
      BY <2>1 DEF EngineInv, ListInv, Narrowing!IInv, Narrowing!Bound
    <3>3. compiled = <<>> /\ <<>> \in Compilations
      <4>1. Result(source) = <<>> /\ Retained(source) = <<>>
        BY <2>2, <2>4 DEF Result, Retained
      <4>2. compiled \in Seq(CompiledStatements) /\ Len(compiled) = 0
        BY <2>2, <4>1 DEF Carries, Represents
      <4> QED
        BY <2>2, <4>1, <4>2, CarriedCompilation
    <3>4. (ReadBack(listStatements) = <<>>)'
      BY <2>1, <3>3 DEF ReadBack
    <3>5. (Narrowing!EndedAtOnce)'
      BY <3>1, <3>2, <3>3, <3>4
         DEF Narrowing!EndedAtOnce, List!NoConstraints, Narrowing!NoConstraints
    <3>6. (Narrowing!EndedAtOnce => Narrowing!IInv)'
      BY NarrowingEnds, PTL
    <3> QED
      BY <2>1, <2>2, <3>1, <3>5, <3>6 DEF ListInv, ListReads
  <2> QED
    BY <2>3, <2>4
<1>4. CASE ListStep
  <2>1. listPc # "idle" /\ listPc' # "idle"
    BY <1>4 DEF ListStep, List!Collect, List!RejectAction, List!SkipStatement,
      List!EnterStatement, List!KeepPattern, List!DropPattern, List!LeaveStatement,
      List!ReturnConstraints, List!AtStatement, List!AtPattern
  <2>2. Narrowing!Next
    BY <1>4, ListCollects DEF ListStep, Narrowing!Next
  <2>3. ListReads'
    BY <1>4, <2>1 DEF ListStep, compileVars, EngineInv, ListInv, ListReads
  <2> QED
    BY <2>2, <2>3, NarrowingStep DEF EngineInv, ListInv
<1>5. CASE ListReturns
  <2>1. listPc' = "idle" /\ listStatements' = <<>> /\ Narrowing!Deliver
    BY <1>5, ListDelivers DEF ListReturns, List!Deliver
  <2> QED
    BY <2>1, NarrowingStep DEF EngineInv, ListInv, ListReads, Narrowing!Next
<1> QED
  BY <1>1, <1>2, <1>3, <1>4, <1>5
     DEF EngineNext, CompileStep, OwnerEdits, Hold, DecideHeld, DecideOnce, GateStep,
         GateFails, GateReturns, allVars
-----------------------------------------------------------------------------
LEMMA EngineStarts == EngineInit => EngineInv
<1> SUFFICES ASSUME EngineInit PROVE EngineInv
  OBVIOUS
<1>1. IInv
  BY InitIInv DEF EngineInit
<1>2. HeldInv
  BY DEF EngineInit, HeldInv
<1>3. GateInv
  <2>1. Gating!IInv
    BY GateInits, GatingInit DEF EngineInit
  <2> QED
    BY <2>1 DEF EngineInit, GateInv, GateReads, Gate!Init
<1>4. ListInv
  <2>1. Narrowing!IInv
    BY ListInits, NarrowingInit DEF EngineInit
  <2> QED
    BY <2>1 DEF EngineInit, ListInv, ListReads, List!Init
<1> QED
  BY <1>1, <1>2, <1>3, <1>4 DEF EngineInv

LEMMA EngineMoves == EngineInv /\ [EngineNext]_allVars => EngineInv'
BY CompilerMoves, StepIInv, HeldStep, GateMoves, ListMoves DEF EngineInv

LEMMA EngineInvariant == EngineSpec => []EngineInv
BY EngineStarts, EngineMoves, PTL DEF EngineSpec

(* A list shows the rows its document permitted when it was compiled, and  *)
(* none under a document with a fault, whatever is compiled, decided and   *)
(* edited meanwhile (the property ListsAsCompiled).                        *)
THEOREM ListsWhatWasCompiled == EngineSpec => []ListsAsCompiled
<1>1. EngineInv => ListsAsCompiled
  <2> SUFFICES ASSUME EngineInv, listPc = "done", NEW row \in Rows
               PROVE  List!Selected(out, row) <=>
                        /\ FirstFault(listSource) = "none"
                        /\ Permitted(Range(Meaning(listSource)),
                                     List!GateRequest(query, row))
    BY DEF ListsAsCompiled
  <2>1. ReadBack(listStatements) = Result(listSource)
    BY CarriesMeans DEF EngineInv, ListInv, ListReads
  <2>2. Narrowing!Selected(out, row)
          <=> Narrowing!Permitted(Narrowing!Range(ReadBack(listStatements)),
                                  Narrowing!GateRequest(query, row))
    BY NarrowingFilters DEF EngineInv, ListInv, Narrowing!FilterAgreesWithGate
  <2>3. Narrowing!Range(ReadBack(listStatements)) = Range(Result(listSource))
    BY <2>1 DEF Range, Narrowing!Range
  <2>4. List!Selected(out, row)
          <=> Permitted(Range(Result(listSource)), List!GateRequest(query, row))
    BY <2>2, <2>3, ListSelects, ListPermits
  <2>5. CASE FirstFault(listSource) = "none"
    BY <2>4, <2>5 DEF Result
  <2>6. CASE FirstFault(listSource) # "none"
    <3>1. Range(Result(listSource)) = {}
      BY <2>6, RangeEmpty DEF Result
    <3>2. ~Permitted({}, List!GateRequest(query, row))
      BY DEF Permitted, Applicable
    <3> QED
      BY <2>4, <2>6, <3>1, <3>2
  <2> QED
    BY <2>5, <2>6
<1> QED
  BY <1>1, EngineInvariant, PTL

(* An answer is one the document of its statements accepts.                *)
Answered == gatePc = "done" => decision \in AcceptableFrom(gateSource, request)

LEMMA GateAnswers == EngineInv => Answered
<1> SUFFICES ASSUME EngineInv, gatePc = "done"
             PROVE  decision \in AcceptableFrom(gateSource, request)
  BY DEF Answered
<1>1. CASE Refused
  BY <1>1 DEF Refused, AcceptableFrom
<1>2. CASE Gating!IInv
  <2>1. ReadBack(gateStatements) = Result(gateSource)
    BY CarriesMeans DEF EngineInv, GateInv, GateReads
  <2>2. decision \in Gating!Acceptable(Gating!S, request)
    BY <1>2 DEF Gating!IInv, Gating!DecisionInv
  <2>3. Gating!S = Range(Result(gateSource))
    BY <2>1 DEF Range, Gating!Range, Gating!S
  <2>4. decision \in Acceptable(Range(Result(gateSource)), request)
    BY <2>2, <2>3, GateAccepts
  <2>5. CASE FirstFault(gateSource) = "none"
    BY <2>4, <2>5 DEF Result, AcceptableFrom
  <2>6. CASE FirstFault(gateSource) # "none"
    <3>1. Range(Result(gateSource)) = {}
      BY <2>6, RangeEmpty DEF Result
    <3>2. Permitted({}, request) = FALSE /\ Applicable({}, "deny", request) = {}
      BY DEF Permitted, Applicable
    <3>3. Explanations({}, request) = {"implicit deny"}
      BY <3>2 DEF Explanations
    <3>4. decision = [allowed |-> FALSE, reason |-> "implicit deny"]
      BY <2>4, <3>1, <3>2, <3>3, Zenon DEF Acceptable
    <3>5. [FaultDecision EXCEPT !.reason = "implicit deny"]
            = [allowed |-> FALSE, reason |-> "implicit deny"]
      <4> DEFINE given == [FaultDecision EXCEPT !.reason = "implicit deny"]
                 meant == [allowed |-> FALSE, reason |-> "implicit deny"]
                 Fields == {"allowed", "reason"}
      <4>1. /\ given = [f \in Fields |-> given[f]]
            /\ given["allowed"] = FALSE /\ given["reason"] = "implicit deny"
        BY DEF FaultDecision
      <4>2. /\ meant = [f \in Fields |-> meant[f]]
            /\ meant["allowed"] = FALSE /\ meant["reason"] = "implicit deny"
        OBVIOUS
      <4> HIDE DEF given, meant
      <4>3. \A f \in Fields : given[f] = meant[f]
        BY <4>1, <4>2
      <4>4. given = meant
        BY <4>1, <4>2, <4>3
      <4> QED
        BY <4>4 DEF given, meant
    <3> QED
      BY <2>6, <3>4, <3>5, Zenon DEF AcceptableFrom
  <2> QED
    BY <2>5, <2>6
<1> QED
  BY <1>1, <1>2 DEF EngineInv, GateInv

(* The service implements the order-free promise (the safety part of the   *)
(* property KeepsPromise): a request is answered once, and as the document *)
(* said when it was compiled, whatever its owner writes into it and        *)
(* whatever else is compiled meanwhile; a document with a fault denies.    *)
THEOREM ServiceImplements == EngineSpec => Promise!Safety
<1>1. EngineInit => Promise!Init
  BY DEF EngineInit, Gate!Init, Promise!Init
<1>2. EngineInv => Answered
  BY GateAnswers
<1>3. ASSUME EngineInv, Answered', [EngineNext]_allVars
      PROVE  [Promise!Next]_Promise!vars
  <2> USE DEF Promise!Next, Promise!vars
  <2>1. CASE UNCHANGED gateVars
    BY <2>1 DEF gateVars
  <2>2. CASE DecideHeld
    <3>1. /\ gatePc = "idle" /\ gatePc' = "eval" /\ request' \in Requests
          /\ gateSource' = held[1].source /\ held # <<>>
      BY <2>2 DEF DecideHeld, Gate!Call
    <3>2. gateSource' \in Sources
      BY <1>3, <3>1 DEF EngineInv, HeldInv, Carries
    <3>3. Promise!Ask
      BY <3>1, <3>2 DEF Promise!Ask
    <3> QED
      BY <3>3
  <2>3. CASE DecideOnce
    <3>1. /\ gatePc = "idle" /\ gatePc' \in {"eval", "failed"}
          /\ request' \in Requests /\ gateSource' = source /\ phase = "done"
      BY <2>3 DEF DecideOnce, Gate!Call, Drop
    <3>2. gateSource' \in Sources
      BY <1>3, <3>1, ResultCarries DEF EngineInv, Carries
    <3>3. Promise!Ask
      BY <3>1, <3>2 DEF Promise!Ask
    <3> QED
      BY <3>3
  <2>4. CASE GateStep \/ GateFails
    <3>1. /\ gatePc \in {"eval", "failed"} /\ gatePc' \in {gatePc, "done"}
          /\ gateSource' = gateSource /\ request' = request
      BY <2>4 DEF GateStep, GateFails, Gate!Evaluate, Gate!RejectAction,
        Gate!SkipStatement, Gate!ExplicitDeny, Gate!RememberAllow, Gate!ReturnOutcome,
        Gate!Evaluating, Gate!Return
    <3>2. CASE gatePc' = "done"
      <4>1. decision' \in AcceptableFrom(gateSource, request)
        BY <1>3, <3>1, <3>2 DEF Answered
      <4>2. Promise!Answer
        BY <3>1, <3>2, <4>1 DEF Promise!Answer
      <4> QED
        BY <4>2
    <3>3. CASE gatePc' = gatePc
      BY <3>1, <3>3
    <3> QED
      BY <3>1, <3>2, <3>3
  <2>5. CASE GateReturns
    BY <2>5 DEF GateReturns, Gate!Deliver, Promise!Take
  <2> QED
    BY <1>3, <2>1, <2>2, <2>3, <2>4, <2>5
       DEF EngineNext, CompileStep, OwnerEdits, Hold, ConstrainHeld, ConstrainOnce,
           ListStep, ListReturns, allVars
<1> QED
  BY <1>1, <1>2, <1>3, EngineInvariant, PTL DEF EngineSpec, Promise!Safety

(* Compile is as sound in the service as it is alone.                      *)
THEOREM ServiceCompiles ==
  EngineSpec => [](TypeOK /\ CompiledIsSnapshot /\ ReportsFirstFault)
<1>1. EngineInv => TypeOK /\ CompiledIsSnapshot /\ ReportsFirstFault
  BY SnapshotFollows DEF EngineInv, IInv
<1> QED
  BY <1>1, EngineInvariant, PTL
=============================================================================
