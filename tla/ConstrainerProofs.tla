-------------------------- MODULE ConstrainerProofs --------------------------
(***************************************************************************)
(* Constrain and Decide agree on every row, for every list of compiled     *)
(* statements, every query and every stored row.                           *)
(*                                                                         *)
(* The argument: at each point of the two loops, the constraints collected *)
(* so far are those of the patterns before that point (Filled), and at the *)
(* end that is all of them.  What one of them selects, a statement applies *)
(* to (PartialEvaluationExact).                                            *)
(***************************************************************************)
EXTENDS Constrainer, SharedLemmas

(* What one pattern of a relevant statement is reduced to.                 *)
Emitted(s, n, q) ==
  [pattern |-> WithTenant(s.patterns[n], q.tenant),
   conditions |-> Residual(s.conditions, q.context)]

Kept(s, n, q) ==
  Relevant(s, q) /\ s.patterns[n].tenant \in {q.tenant, PlatformTenant}

(* The place n of statement a is before the place m of statement k.        *)
Before(a, n, k, m) == a < k \/ (a = k /\ n < m)

Places(c) == UNION { {a} \X (1..Len(c[a].patterns)) : a \in 1..Len(c) }

Collected(effect, c, q, k, m) ==
  { Emitted(c[x[1]], x[2], q) :
      x \in { y \in Places(c) : /\ Before(y[1], y[2], k, m)
                                /\ c[y[1]].effect = effect
                                /\ Kept(c[y[1]], y[2], q) } }

MatchesOf(c, q) == { Emitted(c[x[1]], x[2], q) : x \in Places(c) }

AllMatches == UNION { MatchesOf(c, q) : c \in Compilations, q \in Queries }

(* The place the loops have reached.                                       *)
Place == IF pc = "patterns" THEN j ELSE 1

Filled ==
  \A e \in Effects : Range(out[e]) = Collected(e, statements, query, i, Place)

OutOK == out \in [Effects -> Seq(AllMatches)]

Bound ==
  /\ pc # "idle" => statements \in Compilations /\ query \in Queries
  /\ pc = "idle" => /\ statements = <<>> /\ i = 1 /\ j = 1
                    /\ out = NoConstraints

Control ==
  /\ pc = "patterns" =>
       /\ IsConcreteAction(query.action) /\ Relevant(statements[i], query)
       /\ residual = Residual(statements[i].conditions, query.context)
  /\ pc = "done" /\ IsConcreteAction(query.action) => i = Len(statements) + 1
  /\ pc = "done" /\ ~IsConcreteAction(query.action) => out = NoConstraints
  /\ pc = "statements" /\ ~IsConcreteAction(query.action) => out = NoConstraints

IInv == TypeOK /\ OutOK /\ Bound /\ Control /\ Filled
-----------------------------------------------------------------------------
LEMMA PlacesOf ==
  ASSUME NEW c, NEW x
  PROVE  x \in Places(c) <=> \E a \in 1..Len(c) : \E n \in 1..Len(c[a].patterns) :
                               x = <<a, n>>
BY DEF Places

(* What has been collected, match by match.                                *)
LEMMA CollectedMembers ==
  ASSUME NEW effect, NEW c, NEW q, NEW k, NEW m, NEW match
  PROVE  match \in Collected(effect, c, q, k, m)
           <=> \E a \in 1..Len(c) : \E n \in 1..Len(c[a].patterns) :
                 /\ Before(a, n, k, m) /\ c[a].effect = effect
                 /\ Kept(c[a], n, q) /\ match = Emitted(c[a], n, q)
<1>1. ASSUME match \in Collected(effect, c, q, k, m)
      PROVE  \E a \in 1..Len(c) : \E n \in 1..Len(c[a].patterns) :
               /\ Before(a, n, k, m) /\ c[a].effect = effect
               /\ Kept(c[a], n, q) /\ match = Emitted(c[a], n, q)
  <2>1. PICK x \in Places(c) :
          /\ Before(x[1], x[2], k, m) /\ c[x[1]].effect = effect
          /\ Kept(c[x[1]], x[2], q) /\ match = Emitted(c[x[1]], x[2], q)
    BY <1>1 DEF Collected
  <2>2. PICK a \in 1..Len(c) : \E n \in 1..Len(c[a].patterns) : x = <<a, n>>
    BY PlacesOf
  <2>3. PICK n \in 1..Len(c[a].patterns) : x = <<a, n>>
    BY <2>2
  <2>4. x[1] = a /\ x[2] = n
    BY <2>3
  <2> QED
    BY <2>1, <2>4
<1>2. ASSUME NEW a \in 1..Len(c), NEW n \in 1..Len(c[a].patterns),
             Before(a, n, k, m), c[a].effect = effect,
             Kept(c[a], n, q), match = Emitted(c[a], n, q)
      PROVE  match \in Collected(effect, c, q, k, m)
  <2> DEFINE x == <<a, n>>
  <2>1. x \in Places(c) /\ x[1] = a /\ x[2] = n
    BY PlacesOf
  <2> HIDE DEF x
  <2> QED
    BY <1>2, <2>1 DEF Collected
<1> QED
  BY <1>1, <1>2

(* Two points of the loops between which no pattern of this effect is kept *)
(* have collected the same.                                                *)
LEMMA SameCollected ==
  ASSUME NEW effect, NEW c, NEW q, NEW k, NEW m, NEW k2, NEW m2,
         \A a \in 1..Len(c) : \A n \in 1..Len(c[a].patterns) :
           c[a].effect = effect /\ Kept(c[a], n, q) =>
             (Before(a, n, k, m) <=> Before(a, n, k2, m2))
  PROVE  Collected(effect, c, q, k, m) = Collected(effect, c, q, k2, m2)
<1>1. ASSUME NEW match
      PROVE  match \in Collected(effect, c, q, k, m)
               <=> match \in Collected(effect, c, q, k2, m2)
  BY CollectedMembers
<1> QED
  BY <1>1
-----------------------------------------------------------------------------
(* The receiver of a call is a list of allows and denies with their        *)
(* patterns.                                                               *)
LEMMA Receiver ==
  ASSUME TypeOK, Bound
  PROVE  /\ Len(statements) \in Nat /\ DOMAIN statements = 1..Len(statements)
         /\ \A k \in 1..Len(statements) :
              /\ statements[k].effect \in Effects
              /\ Len(statements[k].patterns) \in Nat
              /\ DOMAIN statements[k].patterns = 1..Len(statements[k].patterns)
              /\ \A n \in 1..Len(statements[k].patterns) :
                   DOMAIN statements[k].patterns[n]
                     = FlatFields \cup {"tenant", "resource"}
<1>1. CASE pc = "idle"
  BY <1>1 DEF Bound
<1>2. CASE pc # "idle"
  BY <1>2, CompilationAssumption DEF Bound
<1> QED
  BY <1>1, <1>2

(* A pattern of the receiver reduces to one of the possible matches.       *)
LEMMA EmittedIsMatch ==
  ASSUME NEW c \in Compilations, NEW q \in Queries,
         NEW a \in 1..Len(c), NEW n \in 1..Len(c[a].patterns)
  PROVE  Emitted(c[a], n, q) \in AllMatches
<1> DEFINE x == <<a, n>>
<1>1. x \in Places(c) /\ x[1] = a /\ x[2] = n
  BY PlacesOf
<1> HIDE DEF x
<1>2. Emitted(c[a], n, q) \in MatchesOf(c, q)
  BY <1>1 DEF MatchesOf
<1> QED
  BY <1>2 DEF AllMatches

LEMMA NoneCollected == NoConstraints \in [Effects -> Seq(AllMatches)]
<1>1. <<>> \in Seq(AllMatches)
  OBVIOUS
<1>2. NoConstraints = [e \in Effects |-> <<>>]
  BY DEF NoConstraints, Effects
<1> QED
  BY <1>1, <1>2

LEMMA InitInv == Init => IInv
<1> SUFFICES ASSUME Init PROVE IInv
  OBVIOUS
<1>1. TypeOK
  BY DEF Init, TypeOK, NoConstraints, Effects
<1>2. OutOK
  BY NoneCollected DEF Init, OutOK
<1>3. Bound /\ Control
  BY DEF Init, Bound, Control
<1>4. Filled
  <2>1. ASSUME NEW e \in Effects
        PROVE  Collected(e, <<>>, query, i, Place) = {}
    BY CollectedMembers
  <2>2. ASSUME NEW e \in Effects
        PROVE  Range(out[e]) = {}
    BY RangeEmpty DEF Init, NoConstraints, Effects
  <2> QED
    BY <2>1, <2>2 DEF Filled, Init
<1> QED
  BY <1>1, <1>2, <1>3, <1>4 DEF IInv

LEMMA TypeStep == ASSUME TypeOK, OutOK, Bound, Control, [Next]_vars PROVE TypeOK'
<1> USE Receiver
<1>1. CASE Receive
  <2>1. PICK c \in Compilations, q \in Queries : Call(c, q)
    BY <1>1 DEF Receive
  <2>2. i = 1 /\ i' = 1 /\ Len(c) \in Nat /\ statements' = c
    BY <1>1, <2>1, CompilationAssumption DEF Receive, Bound, Call
  <2>3. i' \in 1..(Len(statements') + 1)
    BY <2>2
  <2> QED
    BY <2>1, <2>2, <2>3, QueryAssumption DEF TypeOK, Call
<1>2. CASE RejectAction
  BY <1>2 DEF RejectAction, TypeOK
<1>3. CASE SkipStatement
  BY <1>3 DEF SkipStatement, AtStatement, TypeOK
<1>4. CASE EnterStatement
  BY <1>4 DEF EnterStatement, AtStatement, TypeOK
<1>5. CASE KeepPattern
  <2>1. j' \in 1..(Len(statements[i].patterns) + 1)
    BY <1>5 DEF KeepPattern, AtPattern, TypeOK
  <2>2. DOMAIN out' = DOMAIN out
    BY <1>5 DEF KeepPattern
  <2>3. UNCHANGED <<pc, statements, query, i>>
    BY <1>5 DEF KeepPattern
  <2> QED
    BY <2>1, <2>2, <2>3 DEF TypeOK
<1>6. CASE DropPattern
  BY <1>6 DEF DropPattern, AtPattern, TypeOK
<1>7. CASE LeaveStatement
  BY <1>7 DEF LeaveStatement, TypeOK
<1>8. CASE ReturnConstraints
  BY <1>8 DEF ReturnConstraints, TypeOK
<1>9. CASE Deliver
  BY <1>9 DEF Deliver, TypeOK, NoConstraints, Effects
<1>10. CASE UNCHANGED vars
  BY <1>10 DEF vars, TypeOK
<1> QED
  BY <1>1, <1>2, <1>3, <1>4, <1>5, <1>6, <1>7, <1>8, <1>9, <1>10
  DEF Next, Collect

LEMMA OutStep == ASSUME IInv, [Next]_vars PROVE OutOK'
<1>1. CASE KeepPattern
  <2> DEFINE s == statements[i]
             match == [pattern |-> WithTenant(s.patterns[j], query.tenant),
                       conditions |-> residual]
  <2>1. pc = "patterns" /\ i \in 1..Len(statements) /\ j \in 1..Len(s.patterns)
    BY <1>1, Receiver DEF KeepPattern, AtPattern, IInv, TypeOK
  <2>2. match = Emitted(s, j, query)
    BY <2>1 DEF Emitted, IInv, Control
  <2>3. match \in AllMatches
    BY <2>1, <2>2, EmittedIsMatch DEF IInv, Bound
  <2>4. s.effect \in Effects
    BY <2>1, Receiver DEF IInv
  <2>5. out' = [out EXCEPT ![s.effect] = Append(@, match)]
    BY <1>1 DEF KeepPattern
  <2> HIDE DEF match, s
  <2>6. out[s.effect] \in Seq(AllMatches)
    BY <2>4 DEF IInv, OutOK
  <2>7. Append(out[s.effect], match) \in Seq(AllMatches)
    BY <2>3, <2>6
  <2> QED
    BY <2>4, <2>5, <2>7 DEF IInv, OutOK
<1>2. CASE Deliver
  BY <1>2, NoneCollected DEF Deliver, OutOK
<1>3. CASE ~KeepPattern /\ ~Deliver
  <2>1. out' = out
    BY <1>3 DEF Next, Collect, Receive, Call, RejectAction, SkipStatement,
                EnterStatement, DropPattern, LeaveStatement, ReturnConstraints, vars
  <2> QED
    BY <2>1 DEF IInv, OutOK
<1> QED
  BY <1>1, <1>2, <1>3

LEMMA ControlStep == ASSUME IInv, [Next]_vars PROVE Bound' /\ Control'
<1> USE DEF Bound, Control
<1> USE Receiver
<1>1. CASE Receive
  BY <1>1 DEF Receive, Call, IInv
<1>2. CASE RejectAction
  BY <1>2 DEF RejectAction, IInv
<1>3. CASE SkipStatement
  BY <1>3 DEF SkipStatement, AtStatement, IInv
<1>4. CASE EnterStatement
  BY <1>4 DEF EnterStatement, AtStatement, IInv
<1>5. CASE KeepPattern
  BY <1>5 DEF KeepPattern, AtPattern, IInv
<1>6. CASE DropPattern
  BY <1>6 DEF DropPattern, AtPattern, IInv
<1>7. CASE LeaveStatement
  BY <1>7 DEF LeaveStatement, IInv
<1>8. CASE ReturnConstraints
  BY <1>8 DEF ReturnConstraints, IInv, TypeOK
<1>9. CASE Deliver
  BY <1>9 DEF Deliver, IInv
<1>10. CASE UNCHANGED vars
  BY <1>10 DEF vars, IInv
<1> QED
  BY <1>1, <1>2, <1>3, <1>4, <1>5, <1>6, <1>7, <1>8, <1>9, <1>10
  DEF Next, Collect

(* Each pass of a loop collects the match of the pattern it passes, if the *)
(* pattern is kept, and nothing else.                                      *)
LEMMA FilledStep == ASSUME IInv, [Next]_vars PROVE Filled'
<1> SUFFICES ASSUME NEW e \in Effects
             PROVE  Range(out'[e]) = Collected(e, statements', query', i', Place')
  BY DEF Filled
<1> DEFINE before == Collected(e, statements, query, i, Place)
<1>a. Range(out[e]) = before
  BY DEF IInv, Filled
<1>b. /\ Len(statements) \in Nat /\ i \in Nat
      /\ \A a \in 1..Len(statements) : Len(statements[a].patterns) \in Nat
  BY Receiver DEF IInv, TypeOK
<1>c. NoConstraints[e] = <<>>
  BY DEF NoConstraints, Effects
<1>1. CASE Receive
  <2>1. i' = 1 /\ Place' = 1 /\ out'[e] = <<>>
    BY <1>1, <1>c DEF Receive, Call, Place, IInv, Bound
  <2>2. PICK c \in Compilations, q \in Queries : statements' = c /\ query' = q
    BY <1>1 DEF Receive, Call
  <2>3. Collected(e, c, q, 1, 1) = {}
    BY <2>2, CompilationAssumption, CollectedMembers DEF Before
  <2> QED
    BY <2>1, <2>2, <2>3, RangeEmpty
<1>2. CASE RejectAction
  BY <1>2, <1>a DEF RejectAction, Place
<1>3. CASE SkipStatement
  <2>1. /\ UNCHANGED <<statements, query, out>> /\ i' = i + 1
        /\ Place = 1 /\ Place' = 1
    BY <1>3 DEF SkipStatement, AtStatement, Place
  <2>2. ASSUME NEW a \in 1..Len(statements), NEW n \in 1..Len(statements[a].patterns),
               Kept(statements[a], n, query)
        PROVE  Before(a, n, i, 1) <=> Before(a, n, i + 1, 1)
    <3>1. a # i
      BY <1>3, <2>2 DEF SkipStatement, Kept
    <3> QED
      BY <1>b, <3>1 DEF Before
  <2>3. before = Collected(e, statements, query, i + 1, 1)
    BY <2>1, <2>2, SameCollected
  <2> QED
    BY <1>a, <2>1, <2>3
<1>4. CASE EnterStatement
  BY <1>4, <1>a DEF EnterStatement, AtStatement, Place
<1>5. CASE KeepPattern
  <2> DEFINE s == statements[i]
             match == [pattern |-> WithTenant(s.patterns[j], query.tenant),
                       conditions |-> residual]
  <2>1. /\ UNCHANGED <<statements, query, i>>
        /\ Place = j /\ Place' = j + 1
        /\ pc = "patterns" /\ s.patterns[j].tenant \in {query.tenant, PlatformTenant}
        /\ i \in 1..Len(statements) /\ j \in 1..Len(s.patterns)
    BY <1>5, Receiver DEF KeepPattern, AtPattern, Place, IInv, TypeOK
  <2>2. out' = [out EXCEPT ![s.effect] = Append(@, match)]
    BY <1>5 DEF KeepPattern
  <2>3. match = Emitted(s, j, query) /\ Kept(s, j, query)
    BY <2>1 DEF Emitted, Kept, IInv, Control
  <2>4. match \in AllMatches
    BY <2>1, <2>3, EmittedIsMatch DEF IInv, Bound
  <2>5. out[e] \in Seq(AllMatches) /\ DOMAIN out = Effects
    BY DEF IInv, OutOK
  <2>6. CASE s.effect = e
    <3>1. out'[e] = Append(out[e], match)
      BY <2>2, <2>5, <2>6
    <3>2. Range(out'[e]) = before \cup {match}
      BY <1>a, <2>4, <2>5, <3>1, RangeAppend
    <3>3. ASSUME NEW m
          PROVE  m \in Collected(e, statements, query, i, j + 1)
                   <=> m \in before \/ m = match
      <4>1. ASSUME NEW a \in 1..Len(statements),
                   NEW n \in 1..Len(statements[a].patterns)
            PROVE  Before(a, n, i, j + 1) <=> Before(a, n, i, j) \/ (a = i /\ n = j)
        BY <1>b, <2>1 DEF Before
      <4>a. before = Collected(e, statements, query, i, j)
        BY <2>1
      <4>2. m \in Collected(e, statements, query, i, j)
              <=> \E a \in 1..Len(statements) :
                    \E n \in 1..Len(statements[a].patterns) :
                      /\ Before(a, n, i, j) /\ statements[a].effect = e
                      /\ Kept(statements[a], n, query)
                      /\ m = Emitted(statements[a], n, query)
        BY CollectedMembers
      <4>3. m \in Collected(e, statements, query, i, j + 1)
              <=> \E a \in 1..Len(statements) :
                    \E n \in 1..Len(statements[a].patterns) :
                      /\ Before(a, n, i, j + 1) /\ statements[a].effect = e
                      /\ Kept(statements[a], n, query)
                      /\ m = Emitted(statements[a], n, query)
        BY CollectedMembers
      <4> HIDE DEF before, match
      <4> QED
        BY <2>1, <2>3, <2>6, <4>a, <4>1, <4>2, <4>3
    <3> QED
      BY <2>1, <3>2, <3>3
  <2>7. CASE s.effect # e
    <3>1. out'[e] = out[e]
      BY <2>2, <2>5, <2>7
    <3>2. ASSUME NEW a \in 1..Len(statements), NEW n \in 1..Len(statements[a].patterns),
                 statements[a].effect = e
          PROVE  Before(a, n, i, j) <=> Before(a, n, i, j + 1)
      <4>1. a # i
        BY <2>7, <3>2
      <4> QED
        BY <4>1 DEF Before
    <3>3. before = Collected(e, statements, query, i, j + 1)
      BY <2>1, <3>2, SameCollected
    <3> QED
      BY <1>a, <2>1, <3>1, <3>3
  <2> QED
    BY <2>6, <2>7
<1>6. CASE DropPattern
  <2>1. /\ UNCHANGED <<statements, query, i, out>>
        /\ Place = j /\ Place' = j + 1
        /\ i \in 1..Len(statements) /\ j \in 1..Len(statements[i].patterns)
        /\ ~Kept(statements[i], j, query)
    BY <1>6, Receiver DEF DropPattern, AtPattern, Place, Kept, IInv, TypeOK
  <2>2. ASSUME NEW a \in 1..Len(statements), NEW n \in 1..Len(statements[a].patterns),
               Kept(statements[a], n, query)
        PROVE  Before(a, n, i, j) <=> Before(a, n, i, j + 1)
    <3>1. a # i \/ n # j
      BY <2>1, <2>2
    <3> QED
      BY <1>b, <2>1, <3>1 DEF Before
  <2>3. before = Collected(e, statements, query, i, j + 1)
    BY <2>1, <2>2, SameCollected
  <2> QED
    BY <1>a, <2>1, <2>3
<1>7. CASE LeaveStatement
  <2>1. /\ UNCHANGED <<statements, query, out>> /\ i' = i + 1
        /\ Place = j /\ Place' = 1
        /\ j > Len(statements[i].patterns) /\ i \in 1..Len(statements)
        /\ j \in Nat
    BY <1>7, Receiver DEF LeaveStatement, Place, IInv, TypeOK
  <2>2. ASSUME NEW a \in 1..Len(statements), NEW n \in 1..Len(statements[a].patterns)
        PROVE  Before(a, n, i, j) <=> Before(a, n, i + 1, 1)
    <3>1. a = i => n < j
      BY <1>b, <2>1
    <3> QED
      BY <1>b, <2>1, <3>1 DEF Before
  <2>3. before = Collected(e, statements, query, i + 1, 1)
    BY <2>1, <2>2, SameCollected
  <2> QED
    BY <1>a, <2>1, <2>3
<1>8. CASE ReturnConstraints
  BY <1>8, <1>a DEF ReturnConstraints, Place
<1>9. CASE Deliver
  <2>1. statements' = <<>> /\ out'[e] = <<>>
    BY <1>9, <1>c DEF Deliver
  <2>2. Collected(e, <<>>, query', i', Place') = {}
    BY CollectedMembers
  <2> QED
    BY <2>1, <2>2, RangeEmpty
<1>10. CASE UNCHANGED vars
  BY <1>10, <1>a DEF vars, Place
<1> QED
  BY <1>1, <1>2, <1>3, <1>4, <1>5, <1>6, <1>7, <1>8, <1>9, <1>10
  DEF Next, Collect
-----------------------------------------------------------------------------
LEMMA InvStep == IInv /\ [Next]_vars => IInv'
BY TypeStep, OutStep, ControlStep, FilledStep DEF IInv

LEMMA Invariance == Spec => []IInv
<1>1. IInv /\ [Next]_vars => IInv'
  BY InvStep
<1> QED
  BY InitInv, <1>1, PTL DEF Spec

(* The loops of Constrain stay inside their slices.                        *)
THEOREM TypeCorrect == Spec => []TypeOK
<1>1. IInv => TypeOK
  BY DEF IInv
<1> QED
  BY <1>1, Invariance, PTL

(* A match that was collected is what a kept pattern was reduced to.       *)
LEMMA CollectedMatch ==
  ASSUME IInv, NEW e \in Effects, NEW m \in Range(out[e])
  PROVE  \E a \in 1..Len(statements) : \E n \in 1..Len(statements[a].patterns) :
           Kept(statements[a], n, query) /\ m = Emitted(statements[a], n, query)
<1>1. m \in Collected(e, statements, query, i, Place)
  BY DEF IInv, Filled
<1> QED
  BY <1>1, CollectedMembers

(* Constrain gives an adapter no pattern of another tenant, and never the  *)
(* token (the property OnlyRequestTenant).                                 *)
THEOREM ConstrainsToTenant == Spec => []OnlyRequestTenant
<1>1. IInv => OnlyRequestTenant
  <2> SUFFICES ASSUME IInv, NEW e \in Effects, NEW m \in Range(out[e])
               PROVE  m.pattern.tenant = query.tenant
    BY DEF OnlyRequestTenant
  <2>1. PICK a \in 1..Len(statements) :
          \E n \in 1..Len(statements[a].patterns) : m = Emitted(statements[a], n, query)
    BY CollectedMatch
  <2>2. PICK n \in 1..Len(statements[a].patterns) : m = Emitted(statements[a], n, query)
    BY <2>1
  <2>3. "tenant" \in DOMAIN statements[a].patterns[n]
    BY Receiver DEF IInv
  <2>4. WithTenant(statements[a].patterns[n], query.tenant).tenant = query.tenant
    BY <2>3 DEF WithTenant
  <2>5. m.pattern = WithTenant(statements[a].patterns[n], query.tenant)
    BY <2>2 DEF Emitted
  <2> QED
    BY <2>4, <2>5
<1> QED
  BY <1>1, Invariance, PTL
-----------------------------------------------------------------------------
(* A match covers a row when its pattern, token or not, matches the row    *)
(* for the requesting tenant, and what is left of its conditions holds.    *)
LEMMA EmittedCovers ==
  ASSUME NEW s, NEW n, NEW q, NEW row, Kept(s, n, q),
         DOMAIN s.patterns[n] = FlatFields \cup {"tenant", "resource"}
  PROVE  Covers(Emitted(s, n, q), row)
           <=> /\ PatternMatches(s.patterns[n], row.resource, q.tenant)
               /\ EvalConditions(Residual(s.conditions, q.context),
                                 row.attributes, row.resource.resource)
<1> DEFINE m == Emitted(s, n, q)
           p == s.patterns[n]
<1>1. /\ m.pattern = WithTenant(p, q.tenant)
      /\ m.conditions = Residual(s.conditions, q.context)
  BY DEF Emitted
<1>2. m.pattern.tenant = q.tenant
  BY <1>1 DEF WithTenant
<1>3. p.tenant \in {q.tenant, PlatformTenant}
  BY DEF Kept
<1>4. PatternMatches(m.pattern, row.resource, q.tenant)
        <=> PatternMatches(p, row.resource, q.tenant)
  BY <1>1, <1>3, ResolvedPatternMatches
<1> HIDE DEF m
<1>5. Covers(m, row) <=> /\ PatternMatches(p, row.resource, q.tenant)
                         /\ EvalConditions(Residual(s.conditions, q.context),
                                           row.attributes, row.resource.resource)
  BY <1>1, <1>2, <1>4 DEF Covers
<1> QED
  BY <1>5 DEF m

(* What it takes for a statement to apply to the gate's question.          *)
LEMMA AppliesToGate ==
  ASSUME NEW s, NEW q, NEW row
  PROVE  Applies(s, GateRequest(q, row))
           <=> /\ Relevant(s, q)
               /\ EvalConditions(Residual(s.conditions, q.context),
                                 row.attributes, row.resource.resource)
               /\ \E p \in Range(s.patterns) :
                    /\ p.tenant \in {PlatformTenant, q.tenant}
                    /\ PatternMatches(p, row.resource, q.tenant)
<1> DEFINE g == GateRequest(q, row)
<1>1. /\ g.action = q.action /\ g.resource = row.resource /\ g.tenant = q.tenant
      /\ ~g.published /\ g.context = Merge(q.context, row.attributes)
  BY DEF GateRequest
<1> HIDE DEF g
<1>2. EvalConditions(s.conditions, g.context, g.resource.resource)
        <=> /\ Resolves(s.conditions, q.context)
            /\ EvalConditions(Residual(s.conditions, q.context),
                              row.attributes, row.resource.resource)
  BY <1>1, PartialEvaluationExact
<1>3. MatchesResource(s, g.resource, g.tenant)
        <=> \E p \in Range(s.patterns) :
              /\ p.tenant \in {PlatformTenant, q.tenant}
              /\ PatternMatches(p, row.resource, q.tenant)
  BY <1>1 DEF MatchesResource
<1>4. Applies(s, g)
        <=> /\ ActionMatches(s.actions, g.action)
            /\ EvalConditions(s.conditions, g.context, g.resource.resource)
            /\ MatchesResource(s, g.resource, g.tenant)
  BY <1>1 DEF Applies
<1>5. Applies(s, g)
        <=> /\ Relevant(s, q)
            /\ EvalConditions(Residual(s.conditions, q.context),
                              row.attributes, row.resource.resource)
            /\ \E p \in Range(s.patterns) :
                 /\ p.tenant \in {PlatformTenant, q.tenant}
                 /\ PatternMatches(p, row.resource, q.tenant)
  BY <1>1, <1>2, <1>3, <1>4 DEF Relevant
<1> QED
  BY <1>5 DEF g

(* At the end, a row is covered by a constraint of an effect exactly when  *)
(* a statement of that effect applies to it.                               *)
LEMMA CoveredWhenApplies ==
  ASSUME IInv, pc = "done", IsConcreteAction(query.action),
         NEW e \in Effects, NEW row
  PROVE  (\E m \in Range(out[e]) : Covers(m, row))
           <=> \E a \in 1..Len(statements) :
                 /\ statements[a].effect = e
                 /\ Applies(statements[a], GateRequest(query, row))
<1> DEFINE Left(s) == EvalConditions(Residual(s.conditions, query.context),
                                     row.attributes, row.resource.resource)
<1>1. ASSUME NEW m
      PROVE  m \in Range(out[e])
               <=> \E a \in 1..Len(statements) :
                     \E n \in 1..Len(statements[a].patterns) :
                       /\ statements[a].effect = e /\ Kept(statements[a], n, query)
                       /\ m = Emitted(statements[a], n, query)
  <2>1. i = Len(statements) + 1 /\ Place = 1 /\ Len(statements) \in Nat
    BY Receiver DEF IInv, Control, Place
  <2>2. m \in Range(out[e]) <=> m \in Collected(e, statements, query, i, Place)
    BY DEF IInv, Filled
  <2>3. ASSUME NEW a \in 1..Len(statements), NEW n
        PROVE  Before(a, n, i, Place)
    BY <2>1 DEF Before
  <2> QED
    BY <2>2, <2>3, CollectedMembers
<1>2. ASSUME NEW a \in 1..Len(statements), NEW n \in 1..Len(statements[a].patterns),
             Kept(statements[a], n, query)
      PROVE  Covers(Emitted(statements[a], n, query), row)
               <=> /\ PatternMatches(statements[a].patterns[n], row.resource, query.tenant)
                   /\ Left(statements[a])
  BY <1>2, EmittedCovers, Receiver DEF IInv
<1>3. (\E m \in Range(out[e]) : Covers(m, row))
        <=> \E a \in 1..Len(statements) :
              \E n \in 1..Len(statements[a].patterns) :
                /\ statements[a].effect = e /\ Kept(statements[a], n, query)
                /\ PatternMatches(statements[a].patterns[n], row.resource, query.tenant)
                /\ Left(statements[a])
  BY <1>1, <1>2
<1> HIDE DEF Left
<1>4. ASSUME NEW a \in 1..Len(statements)
      PROVE  (\E n \in 1..Len(statements[a].patterns) :
                /\ Kept(statements[a], n, query)
                /\ PatternMatches(statements[a].patterns[n], row.resource, query.tenant)
                /\ Left(statements[a]))
             <=> Applies(statements[a], GateRequest(query, row))
  <2>1. Range(statements[a].patterns)
          = {statements[a].patterns[n] : n \in 1..Len(statements[a].patterns)}
    BY Receiver DEF Range, IInv
  <2>2. Applies(statements[a], GateRequest(query, row))
          <=> /\ Relevant(statements[a], query) /\ Left(statements[a])
              /\ \E p \in Range(statements[a].patterns) :
                   /\ p.tenant \in {PlatformTenant, query.tenant}
                   /\ PatternMatches(p, row.resource, query.tenant)
    BY AppliesToGate DEF Left
  <2> QED
    BY <2>1, <2>2 DEF Kept
<1> QED
  BY <1>3, <1>4

LEMMA FilterFollows == IInv => FilterAgreesWithGate
<1> SUFFICES ASSUME IInv, pc = "done", NEW row \in Rows
             PROVE  Selected(out, row)
                      <=> Permitted(Range(statements), GateRequest(query, row))
  BY DEF FilterAgreesWithGate
<1> DEFINE g == GateRequest(query, row)
<1>1. g.action = query.action
  BY DEF GateRequest
<1>2. ASSUME NEW e \in Effects
      PROVE  Applicable(Range(statements), e, g) # {}
               <=> \E a \in 1..Len(statements) :
                     statements[a].effect = e /\ Applies(statements[a], g)
  <2>1. Range(statements) = {statements[a] : a \in 1..Len(statements)}
    BY Receiver DEF Range, IInv
  <2> HIDE DEF g
  <2> QED
    BY <2>1 DEF Applicable
<1>3. Selected(out, row) <=> /\ \E m \in Range(out["allow"]) : Covers(m, row)
                            /\ ~\E m \in Range(out["deny"]) : Covers(m, row)
  BY DEF Selected
<1>4. CASE IsConcreteAction(query.action)
  <2>1. ASSUME NEW e \in Effects
        PROVE  (\E m \in Range(out[e]) : Covers(m, row))
                 <=> Applicable(Range(statements), e, g) # {}
    BY <1>2, <1>4, CoveredWhenApplies
  <2> HIDE DEF g
  <2>2. "allow" \in Effects /\ "deny" \in Effects
    BY DEF Effects
  <2>3. Permitted(Range(statements), g)
          <=> /\ Applicable(Range(statements), "allow", g) # {}
              /\ Applicable(Range(statements), "deny", g) = {}
    BY <1>1, <1>4 DEF Permitted
  <2>4. Selected(out, row) <=> Permitted(Range(statements), g)
    BY <1>3, <2>1, <2>2, <2>3
  <2> QED
    BY <2>4 DEF g
<1>5. CASE ~IsConcreteAction(query.action)
  <2>1. out["allow"] = <<>>
    BY <1>5 DEF IInv, Control, NoConstraints
  <2>2. ~Selected(out, row)
    BY <1>3, <2>1, RangeEmpty
  <2>3. ~Permitted(Range(statements), g)
    BY <1>1, <1>5 DEF Permitted
  <2> QED
    BY <2>2, <2>3
<1> QED
  BY <1>4, <1>5

(* The list filter and the request gate never disagree (the property       *)
(* FilterAgreesWithGate).                                                  *)
THEOREM FilterIsGate == Spec => []FilterAgreesWithGate
BY FilterFollows, Invariance, PTL

(* A call that ends at once: nothing is collected from nothing.            *)
EndedAtOnce ==
  /\ pc = "done" /\ statements = <<>> /\ statements \in Compilations
  /\ query \in Queries /\ i = 1 /\ out = NoConstraints

LEMMA EmptyReceiver == EndedAtOnce => IInv
<1> SUFFICES ASSUME EndedAtOnce PROVE IInv
  OBVIOUS
<1>1. i \in 1..(Len(statements) + 1) /\ i = Len(statements) + 1
  BY DEF EndedAtOnce
<1>2. TypeOK /\ Bound /\ Control
  BY <1>1, QueryAssumption DEF EndedAtOnce, TypeOK, Bound, Control, NoConstraints, Effects
<1>3. OutOK
  BY NoneCollected DEF EndedAtOnce, OutOK
<1>4. Filled
  <2>1. ASSUME NEW e \in Effects
        PROVE  Collected(e, <<>>, query, i, Place) = {}
    BY CollectedMembers
  <2>2. ASSUME NEW e \in Effects
        PROVE  Range(out[e]) = {}
    BY RangeEmpty DEF EndedAtOnce, NoConstraints, Effects
  <2> QED
    BY <2>1, <2>2 DEF EndedAtOnce, Filled
<1> QED
  BY <1>2, <1>3, <1>4 DEF IInv
-----------------------------------------------------------------------------
(* What the loop of filterResourceMatches keeps.                           *)
LEMMA FilterRange ==
  ASSUME NEW T, NEW s \in Seq(T), NEW K
  PROVE  /\ FilterResourceMatches(s, K) \in Seq(T)
         /\ Range(FilterResourceMatches(s, K)) = Range(s) \cap K
<1> DEFINE n == Len(s)
           W == Seq(T)
           Is(h) == h = [k \in 0..n |->
                           IF k = 0 THEN <<>>
                           ELSE IF s[k] \in K THEN Append(h[k-1], s[k]) ELSE h[k-1]]
           filtered == CHOOSE h : Is(h)
<1>1. /\ n \in Nat /\ <<>> \in W /\ DOMAIN s = 1..n
      /\ \A k \in 1..n : s[k] \in T
      /\ \A x \in W : \A t \in T : Append(x, t) \in W
  OBVIOUS
<1> HIDE DEF n, W
<1>2. \E h : Is(h)
  <2> DEFINE base == <<>>
             step == [k \in 1..n |-> [x \in W |-> IF s[k] \in K THEN Append(x, s[k]) ELSE x]]
  <2>1. n \in Nat /\ base \in W /\ step \in Steps(n, W)
    BY <1>1 DEF Steps
  <2> HIDE DEF step, base
  <2>2. PICK f : Runs(f, n, W, base, step)
    BY <2>1, LoopValues
  <2>3. ASSUME NEW k \in 0..n
        PROVE  f[k] = IF k = 0 THEN <<>>
                      ELSE IF s[k] \in K THEN Append(f[k-1], s[k]) ELSE f[k-1]
    <3>1. CASE k = 0
      BY <2>2, <3>1 DEF base, Runs
    <3>2. CASE k # 0
      <4>1. k \in 1..n /\ k - 1 \in 0..n
        BY <1>1, <3>2
      <4>2. f[k-1] \in W /\ f[k] = step[k][f[k-1]]
        BY <2>2, <4>1 DEF Runs
      <4> QED
        BY <3>2, <4>1, <4>2 DEF step
    <3> QED
      BY <3>1, <3>2
  <2>4. f = [k \in 0..n |-> IF k = 0 THEN <<>>
                            ELSE IF s[k] \in K THEN Append(f[k-1], s[k]) ELSE f[k-1]]
    BY <2>2, <2>3 DEF Runs
  <2> QED
    BY <2>4
<1>3. Is(filtered)
  BY <1>2
<1>4. FilterResourceMatches(s, K) = filtered[n]
  BY DEF FilterResourceMatches, n
<1> HIDE DEF filtered
<1>5. filtered = [k \in 0..n |->
                    IF k = 0 THEN <<>>
                    ELSE IF s[k] \in K THEN Append(filtered[k-1], s[k])
                    ELSE filtered[k-1]]
  BY <1>3
<1>6. ASSUME NEW k \in 0..n
      PROVE  filtered[k] = IF k = 0 THEN <<>>
                           ELSE IF s[k] \in K THEN Append(filtered[k-1], s[k])
                           ELSE filtered[k-1]
  BY <1>5, Zenon
<1> HIDE DEF Is
<1> DEFINE Upto(k) == {s[l] : l \in 1..k} \cap K
           P == {k \in 0..n : filtered[k] \in W /\ Range(filtered[k]) = Upto(k)}
<1>7. 0 \in P
  <2>1. filtered[0] = <<>>
    <3>1. 0 \in 0..n
      BY <1>1
    <3> QED
      BY <1>6, <3>1, Zenon
  <2>2. Upto(0) = {}
    OBVIOUS
  <2> QED
    BY <1>1, <2>1, <2>2, RangeEmpty
<1>8. ASSUME NEW k \in 0..(n-1), k \in P
      PROVE  k + 1 \in P
  <2>1. /\ k + 1 \in 0..n /\ k + 1 \in 1..n /\ k + 1 # 0 /\ (k + 1) - 1 = k
        /\ filtered[k] \in W /\ Range(filtered[k]) = Upto(k)
    BY <1>1, <1>8
  <2>2. {s[l] : l \in 1..(k+1)} = {s[l] : l \in 1..k} \cup {s[k+1]}
    <3>1. \A l \in 1..(k+1) : l \in 1..k \/ l = k + 1
      BY <2>1
    <3>2. \A l \in 1..k : l \in 1..(k+1)
      BY <2>1
    <3>3. k + 1 \in 1..(k+1)
      BY <2>1
    <3> QED
      BY <3>1, <3>2, <3>3
  <2>3. CASE s[k+1] \in K
    <3>1. filtered[k+1] = Append(filtered[k], s[k+1])
      BY <1>6, <2>1, <2>3
    <3>2. s[k+1] \in T
      BY <1>1, <2>1
    <3>3. filtered[k+1] \in W
      BY <1>1, <2>1, <3>1, <3>2
    <3>4. Range(filtered[k+1]) = Range(filtered[k]) \cup {s[k+1]}
      BY <2>1, <3>1, <3>2, RangeAppend DEF W
    <3> QED
      BY <2>1, <2>2, <2>3, <3>3, <3>4
  <2>4. CASE s[k+1] \notin K
    <3>1. filtered[k+1] = filtered[k]
      BY <1>6, <2>1, <2>4
    <3> QED
      BY <2>1, <2>2, <2>4, <3>1
  <2> QED
    BY <2>3, <2>4
<1> HIDE DEF P
<1>9. \A k \in 0..n : k \in P
  BY <1>1, <1>7, <1>8, Ascent
<1>10. n \in P
  BY <1>1, <1>9
<1>11. Range(s) = {s[l] : l \in 1..n}
  BY <1>1 DEF Range
<1> QED
  BY <1>4, <1>10, <1>11 DEF P, W

(* A match that covers a row is one a service that serves the row keeps.   *)
LEMMA FilterSelects ==
  ASSUME OutOK, NEW row, NEW kept,
         \A e \in Effects : \A m \in Range(out[e]) : Covers(m, row) => m \in kept
  PROVE  Selected(Filter(out, kept), row) <=> Selected(out, row)
<1>1. out.allow \in Seq(AllMatches) /\ out.deny \in Seq(AllMatches)
  BY DEF OutOK, Effects
<1>2. /\ Range(Filter(out, kept).allow) = Range(out.allow) \cap kept
      /\ Range(Filter(out, kept).deny) = Range(out.deny) \cap kept
  BY <1>1, FilterRange DEF Filter
<1>3. /\ \A m \in Range(out.allow) : Covers(m, row) => m \in kept
      /\ \A m \in Range(out.deny) : Covers(m, row) => m \in kept
  BY DEF Effects
<1> QED
  BY <1>2, <1>3 DEF Selected

(* Narrowing the constraints to what a service's table can hold, allows    *)
(* and denies by the same predicate, changes nothing there (the example of *)
(* Filter's comment).                                                      *)
THEOREM NarrowsExactly == Spec => []NarrowingIsExact
<1>1. IInv => NarrowingIsExact
  <2> SUFFICES ASSUME IInv, NEW row \in Rows
               PROVE  LET kept == {m \in Range(out.allow) \cup Range(out.deny) :
                             m.pattern.service \in {row.resource.service, Wildcard}}
                      IN  Selected(Filter(out, kept), row) <=> Selected(out, row)
    BY DEF NarrowingIsExact
  <2> DEFINE kept == {m \in Range(out.allow) \cup Range(out.deny) :
                        m.pattern.service \in {row.resource.service, Wildcard}}
  <2>1. ASSUME NEW e \in Effects, NEW m \in Range(out[e]), Covers(m, row)
        PROVE  m \in kept
    <3>1. m.pattern.service \in {row.resource.service, Wildcard}
      BY <2>1 DEF Covers, PatternMatches, MatchField, FlatFields
    <3>2. m \in Range(out.allow) \cup Range(out.deny)
      BY DEF Effects
    <3> QED
      BY <3>1, <3>2
  <2> HIDE DEF kept
  <2>2. Selected(Filter(out, kept), row) <=> Selected(out, row)
    BY <2>1, FilterSelects DEF IInv
  <2> QED
    BY <2>2 DEF kept
<1> QED
  BY <1>1, Invariance, PTL
=============================================================================
