------------------------- MODULE ConditionWalkProofs -------------------------
(***************************************************************************)
(* evalConditions and resolveConditions, for every block, context and      *)
(* path: whatever order the runtime walks the maps in, the answer is the   *)
(* one of the order-free definitions.  The invariant says of the keys that *)
(* are walked already what the result will say of all keys: they hold, or  *)
(* they are put aside, exactly as Residual puts them aside.                *)
(***************************************************************************)
EXTENDS ConditionWalk, SharedLemmas

(* The keys of operator o that have been walked.                           *)
Walked(o) ==
  IF o \in ops THEN {}
  ELSE IF pc = "keys" /\ o = op THEN DOMAIN conds[o] \ keys
  ELSE DOMAIN conds[o]

Good(o, key) ==
  IF mode = "eval" THEN KeyPasses(o, ConditionValue(key, ctx, path), conds[o][key])
  ELSE ~Deferred(key, ctx) => Holds(o, Present(ctx[key]), conds[o][key])

Walking == pc \in {"ops", "keys"}

Sound ==
  Walking => \A o \in DOMAIN conds \ ops : Known(o) /\ \A key \in Walked(o) : Good(o, key)

(* The keys of operator o that have been walked and put aside.             *)
Aside(o) == {key \in Walked(o) : Deferred(key, ctx)}

AsideOK ==
  Walking /\ mode = "resolve" =>
    deferred = [o \in {x \in DOMAIN conds : Aside(x) # {}} |->
                  [key \in Aside(o) |-> conds[o][key]]]

Fresh == pc = "idle" => deferred = NoConditions

IInv == TypeOK /\ Sound /\ AsideOK /\ Fresh /\ WalkIsOrderFree
-----------------------------------------------------------------------------
LEMMA InitInv == Init => IInv
BY DEF Init, IInv, TypeOK, Sound, AsideOK, Fresh, WalkIsOrderFree, Walking, NoConditions

(* One call begins with nothing walked and nothing put aside.              *)
LEMMA ReceiveStep == ASSUME IInv, Receive PROVE IInv'
<1>1. PICK m, b, c, p : m \in {"eval", "resolve"} /\ Call(m, b, c, p)
  BY DEF Receive
<1>2. TypeOK' /\ Sound' /\ Fresh' /\ WalkIsOrderFree'
  BY <1>1 DEF Call, IInv, TypeOK, Sound, Fresh, WalkIsOrderFree, Walked, Walking
<1>3. AsideOK'
  <2>1. \A o \in DOMAIN conds' : Aside(o)' = {}
    BY <1>1 DEF Call, Aside, Walked
  <2>2. deferred' = NoConditions
    BY <1>1, Receive DEF Call, IInv, Fresh, Receive
  <2>3. {x \in DOMAIN conds' : Aside(x)' # {}} = {}
    BY <2>1
  <2> QED
    BY <2>2, <2>3 DEF AsideOK, NoConditions
<1> QED
  BY <1>2, <1>3 DEF IInv

LEMMA DeliverStep == ASSUME IInv, Deliver PROVE IInv'
BY DEF Deliver, IInv, TypeOK, Sound, AsideOK, Fresh, WalkIsOrderFree, Walking, NoConditions

(* The steps that neither return nor put a key aside.                      *)
LEMMA QuietStep ==
  ASSUME IInv, TakeOperator \/ TakeKey \/ LeaveOperator
  PROVE  IInv'
<1>1. CASE TakeOperator
  <2>1. PICK o \in ops : /\ Known(o) /\ op' = o /\ keys' = DOMAIN conds[o]
                         /\ ops' = ops \ {o}
    BY <1>1 DEF TakeOperator
  <2>2. \A x \in DOMAIN conds : Walked(x)' = Walked(x)
    BY <1>1, <2>1 DEF TakeOperator, args, Walked
  <2>3. TypeOK'
    BY <1>1, <2>1 DEF TakeOperator, args, IInv, TypeOK
  <2>4. Sound'
    BY <1>1, <2>1, <2>2 DEF TakeOperator, args, IInv, TypeOK, Sound, Walking, Good, Walked
  <2>5. AsideOK'
    <3>1. \A x \in DOMAIN conds : Aside(x)' = Aside(x)
      BY <1>1, <2>2 DEF Aside, TakeOperator, args
    <3> QED
      BY <1>1, <3>1 DEF TakeOperator, args, IInv, AsideOK, Walking
  <2> QED
    BY <1>1, <2>3, <2>4, <2>5 DEF TakeOperator, IInv, Fresh, WalkIsOrderFree
<1>2. CASE TakeKey
  <2>1. PICK key \in keys : ~PutOff(key) /\ Passes(key) /\ keys' = keys \ {key}
    BY <1>2 DEF TakeKey
  <2>2. /\ pc = "keys" /\ pc' = pc /\ op \in DOMAIN conds \ ops
        /\ keys \subseteq DOMAIN conds[op] /\ UNCHANGED <<args, ops, op, deferred, ok>>
    BY <1>2 DEF TakeKey, IInv, TypeOK
  <2>3. /\ \A x \in DOMAIN conds : x # op => Walked(x)' = Walked(x)
        /\ Walked(op)' = Walked(op) \cup {key}
    BY <2>1, <2>2 DEF args, Walked
  <2>4. Good(op, key) /\ (mode = "resolve" => ~Deferred(key, ctx))
    BY <2>1 DEF PutOff, Passes, Good
  <2>5. TypeOK'
    BY <2>1, <2>2 DEF args, IInv, TypeOK
  <2>6. Sound'
    BY <2>1, <2>2, <2>3, <2>4 DEF args, IInv, Sound, Walking, Good
  <2>7. AsideOK'
    <3>1. ASSUME mode = "resolve"
          PROVE  \A x \in DOMAIN conds : Aside(x)' = Aside(x)
      BY <2>2, <2>3, <2>4, <3>1 DEF Aside, args
    <3> QED
      BY <2>2, <3>1 DEF args, IInv, AsideOK, Walking
  <2> QED
    BY <2>2, <2>5, <2>6, <2>7 DEF IInv, Fresh, WalkIsOrderFree
<1>3. CASE LeaveOperator
  <2>1. /\ pc = "keys" /\ keys = {} /\ pc' = "ops"
        /\ UNCHANGED <<args, ops, op, keys, deferred, ok>>
    BY <1>3 DEF LeaveOperator
  <2>2. \A x \in DOMAIN conds : Walked(x)' = Walked(x)
    BY <2>1 DEF Walked, args
  <2>3. \A x \in DOMAIN conds : Aside(x)' = Aside(x)
    BY <2>1, <2>2 DEF Aside, args
  <2>4. AsideOK'
    BY <2>1, <2>3 DEF args, IInv, AsideOK, Walking
  <2>5. Sound'
    BY <2>1, <2>2 DEF args, IInv, Sound, Walking, Good
  <2> QED
    BY <2>1, <2>4, <2>5 DEF args, IInv, TypeOK, Fresh, WalkIsOrderFree
<1> QED
  BY <1>1, <1>2, <1>3

(* A key put aside joins the ones put aside before it.                     *)
LEMMA DeferStep == ASSUME IInv, DeferKey PROVE IInv'
<1>1. PICK key \in keys :
        LET before == IF op \in DOMAIN deferred THEN DOMAIN deferred[op] ELSE {}
        IN  /\ PutOff(key) /\ keys' = keys \ {key}
            /\ deferred' = [o \in DOMAIN deferred \cup {op} |->
                              IF o = op THEN [k \in before \cup {key} |-> conds[op][k]]
                                        ELSE deferred[o]]
  BY DEF DeferKey
<1>2. /\ pc = "keys" /\ op \in DOMAIN conds \ ops /\ keys \subseteq DOMAIN conds[op]
      /\ UNCHANGED <<pc, args, ops, op, ok>>
  BY DEF DeferKey, IInv, TypeOK
<1>3. mode = "resolve" /\ Deferred(key, ctx)
  BY <1>1 DEF PutOff
<1>4. /\ \A x \in DOMAIN conds : x # op => Walked(x)' = Walked(x)
      /\ Walked(op)' = Walked(op) \cup {key}
  BY <1>1, <1>2 DEF args, Walked
<1>5. TypeOK'
  BY <1>1, <1>2 DEF args, IInv, TypeOK
<1>6. Sound'
  BY <1>2, <1>3, <1>4 DEF args, IInv, Sound, Walking, Good
<1>7. AsideOK'
  <2>1. deferred = [o \in {x \in DOMAIN conds : Aside(x) # {}} |->
                      [k \in Aside(o) |-> conds[o][k]]]
    BY <1>2, <1>3 DEF IInv, AsideOK, Walking
  <2>2. /\ \A x \in DOMAIN conds : x # op => Aside(x)' = Aside(x)
        /\ Aside(op)' = Aside(op) \cup {key}
    BY <1>2, <1>3, <1>4 DEF Aside, args
  <2>3. (IF op \in DOMAIN deferred THEN DOMAIN deferred[op] ELSE {}) = Aside(op)
    BY <1>2, <2>1
  <2>4. deferred' = [o \in DOMAIN deferred \cup {op} |->
                       IF o = op THEN [k \in Aside(op) \cup {key} |-> conds[op][k]]
                                 ELSE deferred[o]]
    BY <1>1, <2>3
  <2>5. {x \in DOMAIN conds' : Aside(x)' # {}} = DOMAIN deferred \cup {op}
    BY <1>2, <2>1, <2>2 DEF args
  <2>6. ASSUME NEW o \in DOMAIN deferred \cup {op}
        PROVE  (IF o = op THEN [k \in Aside(op) \cup {key} |-> conds[op][k]]
                          ELSE deferred[o])
                 = [k \in Aside(o)' |-> conds'[o][k]]
    BY <1>2, <2>1, <2>2, <2>6 DEF args
  <2>7. deferred' = [o \in {x \in DOMAIN conds' : Aside(x)' # {}} |->
                       [k \in Aside(o)' |-> conds'[o][k]]]
    BY <2>4, <2>5, <2>6
  <2> QED
    BY <2>7 DEF AsideOK
<1> QED
  BY <1>2, <1>5, <1>6, <1>7 DEF IInv, Fresh, WalkIsOrderFree

(* What makes a block fail, and what returning FALSE then keeps true.      *)
LEMMA Refuted ==
  ASSUME IInv, Return(FALSE), pc # "done", NEW o \in DOMAIN conds,
         ~Known(o) \/ \E key \in DOMAIN conds[o] : ~Good(o, key)
  PROVE  IInv'
<1>1. mode = "eval" => ~EvalConditions(conds, ctx, path)
  BY DEF Good, EvalConditions
<1>2. mode # "eval" => ~Resolves(conds, ctx)
  BY DEF Good, Resolves
<1>3. /\ ok' = FALSE /\ pc' = "done" /\ mode' = mode /\ conds' = conds
      /\ ctx' = ctx /\ path' = path /\ deferred' = deferred
  BY DEF Return, args
<1>4. WalkIsOrderFree'
  BY <1>1, <1>2, <1>3 DEF WalkIsOrderFree
<1> QED
  BY <1>4 DEF Return, args, IInv, TypeOK, Sound, AsideOK, Fresh, Walking

(* A walk that stops early stops at what makes the whole block fail.       *)
LEMMA StopStep == ASSUME IInv, UnknownOperator \/ FailKey PROVE IInv'
<1>1. Return(FALSE) /\ pc # "done"
  BY DEF UnknownOperator, FailKey
<1>2. CASE UnknownOperator
  <2>1. PICK o \in ops : ~Known(o)
    BY <1>2 DEF UnknownOperator
  <2>2. o \in DOMAIN conds
    BY DEF IInv, TypeOK
  <2> QED
    BY <1>1, <2>1, <2>2, Refuted
<1>3. CASE FailKey
  <2>1. PICK key \in keys : ~PutOff(key) /\ ~Passes(key)
    BY <1>3 DEF FailKey
  <2>2. op \in DOMAIN conds /\ key \in DOMAIN conds[op]
    BY <1>3 DEF FailKey, IInv, TypeOK
  <2>3. ~Good(op, key)
    BY <2>1 DEF PutOff, Passes, Good, IInv, TypeOK
  <2> QED
    BY <1>1, <2>2, <2>3, Refuted
<1> QED
  BY <1>2, <1>3

(* A walk that ends has walked every key of every operator.                *)
LEMMA EndStep == ASSUME IInv, ReturnTrue PROVE IInv'
<1>1. pc = "ops" /\ ops = {} /\ Return(TRUE)
  BY DEF ReturnTrue
<1>2. \A o \in DOMAIN conds : Walked(o) = DOMAIN conds[o]
  BY <1>1 DEF Walked
<1>3. \A o \in DOMAIN conds : Known(o) /\ \A key \in DOMAIN conds[o] : Good(o, key)
  BY <1>1, <1>2 DEF IInv, Sound, Walking
<1>4. IF mode = "eval" THEN EvalConditions(conds, ctx, path) ELSE Resolves(conds, ctx)
  BY <1>3 DEF Good, EvalConditions, Resolves
<1>5. ASSUME mode = "resolve" PROVE deferred = Residual(conds, ctx)
  <2>1. \A o \in DOMAIN conds : Aside(o) = {key \in DOMAIN conds[o] : Deferred(key, ctx)}
    BY <1>2 DEF Aside
  <2>2. deferred = [o \in {x \in DOMAIN conds : Aside(x) # {}} |->
                      [key \in Aside(o) |-> conds[o][key]]]
    BY <1>1, <1>5 DEF IInv, AsideOK, Walking
  <2>3. {x \in DOMAIN conds : Aside(x) # {}}
          = {x \in DOMAIN conds : {key \in DOMAIN conds[x] : Deferred(key, ctx)} # {}}
    BY <2>1
  <2> QED
    BY <2>1, <2>2, <2>3 DEF Residual
<1>6. /\ ok' = TRUE /\ mode' = mode /\ conds' = conds
      /\ ctx' = ctx /\ path' = path /\ deferred' = deferred
  BY <1>1 DEF Return, args
<1>7. mode \in {"eval", "resolve"}
  BY DEF IInv, TypeOK
<1>8. WalkIsOrderFree'
  BY <1>4, <1>5, <1>6, <1>7 DEF WalkIsOrderFree
<1> QED
  BY <1>1, <1>8 DEF Return, args, IInv, TypeOK, Sound, AsideOK, Fresh, Walking

LEMMA StutterStep == ASSUME IInv, UNCHANGED vars PROVE IInv'
<1>1. \A o : Walked(o)' = Walked(o) /\ Aside(o)' = Aside(o)
  BY DEF vars, Walked, Aside
<1> QED
  BY <1>1 DEF vars, IInv, TypeOK, Sound, AsideOK, Fresh, WalkIsOrderFree, Walking, Good

LEMMA Invariance == Spec => []IInv
<1>1. IInv /\ [Next]_vars => IInv'
  BY ReceiveStep, QuietStep, DeferStep, StopStep, EndStep, DeliverStep, StutterStep
     DEF Next, Walk
<1> QED
  BY InitInv, <1>1, PTL DEF Spec
-----------------------------------------------------------------------------
(* The types, for every block, context and path.                           *)
THEOREM TypeCorrect == Spec => []TypeOK
<1>1. IInv => TypeOK
  BY DEF IInv
<1> QED
  BY Invariance, <1>1, PTL

(* Whatever order the two maps are walked in, evalConditions and           *)
(* resolveConditions answer what the order-free definitions say, and what  *)
(* resolveConditions puts aside is the residual of the block.              *)
THEOREM WalkOrderFree == Spec => []WalkIsOrderFree
<1>1. IInv => WalkIsOrderFree
  BY DEF IInv
<1> QED
  BY Invariance, <1>1, PTL

(* A dropped block could hold for no row; what is left of a kept one holds *)
(* for exactly the rows the whole block holds for.                         *)
THEOREM ResolveExact == Spec => []ResolveIsExact
<1>1. WalkIsOrderFree => ResolveIsExact
  BY PartialEvaluationExact DEF WalkIsOrderFree, ResolveIsExact
<1> QED
  BY WalkOrderFree, <1>1, PTL
=============================================================================
