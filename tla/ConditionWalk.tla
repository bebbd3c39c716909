---------------------------- MODULE ConditionWalk ----------------------------
(***************************************************************************)
(* evalConditions and resolveConditions (engine/conditions.go): two nested *)
(* loops over Go maps, which the runtime walks in any order it likes, a    *)
(* different one each time.  One step takes an operator or one of its keys.*)
(***************************************************************************)
EXTENDS Conditions

CONSTANTS Blocks,      \* condition blocks
          Contexts,    \* what is known about a request or a caller
          Paths,       \* resource paths
          Attributes   \* what the store may know about a row

VARIABLES pc,        \* "idle", "ops", "keys" or "done"
          mode,      \* which of the two functions runs
          conds, ctx, path,  \* its arguments; resolve gets no path
          ops,       \* the operators not walked yet
          op, keys,  \* the operator being walked, its keys not walked yet
          deferred,  \* resolve: the conditions put aside so far
          ok         \* the result

vars == <<pc, mode, conds, ctx, path, ops, op, keys, deferred, ok>>
args == <<mode, conds, ctx, path>>

NoOp == [kind |-> "", test |-> "", not |-> FALSE, ifExists |-> FALSE]

Init ==
  /\ pc = "idle" /\ mode = "eval" /\ conds = NoConditions
  /\ ctx = [k \in {} |-> ""] /\ path = <<>> /\ ops = {} /\ op = NoOp
  /\ keys = {} /\ deferred = NoConditions /\ ok = FALSE
-----------------------------------------------------------------------------
Call(m, b, c, p) ==
  /\ pc' = "ops" /\ mode' = m /\ conds' = b /\ ctx' = c /\ path' = p
  /\ ops' = DOMAIN b
  /\ UNCHANGED <<op, keys, deferred, ok>>

Receive ==
  /\ pc = "idle"
  /\ \E b \in Blocks, c \in Contexts :
       \/ \E p \in Paths : Call("eval", b, c, p)
       \/ Call("resolve", b, c, <<>>)

Return(result) ==
  /\ pc' = "done" /\ ok' = result
  /\ UNCHANGED <<args, ops, op, keys, deferred>>

(* Mutant: an operator may be walked again.                                *)
TakeOperatorAgain ==
  /\ pc = "ops"
  /\ \E o \in ops : Known(o) /\ op' = o /\ keys' = DOMAIN conds[o]
  /\ pc' = "keys"
  /\ UNCHANGED <<args, ops, deferred, ok>>

(* for op, keyVals := range conds, with an operator of conditionOps        *)
TakeOperator ==
  /\ pc = "ops"
  /\ \E o \in ops :
       /\ Known(o)
       /\ op' = o /\ keys' = DOMAIN conds[o] /\ ops' = ops \ {o}
  /\ pc' = "keys"
  /\ UNCHANGED <<args, deferred, ok>>

UnknownOperator ==
  /\ pc = "ops" /\ \E o \in ops : ~Known(o)
  /\ Return(FALSE)

Passes(key) ==
  IF mode = "eval" THEN KeyPasses(op, ConditionValue(key, ctx, path), conds[op][key])
  ELSE Holds(op, Present(ctx[key]), conds[op][key])

PutOff(key) == mode = "resolve" /\ Deferred(key, ctx)

(* Mutant: one key that holds is enough for its operator.                  *)
TakeOneKey ==
  /\ pc = "keys"
  /\ \E key \in keys : ~PutOff(key) /\ Passes(key) /\ keys' = {}
  /\ UNCHANGED <<pc, args, ops, op, deferred, ok>>

(* for key, wants := range keyVals, with a key that holds                  *)
TakeKey ==
  /\ pc = "keys"
  /\ \E key \in keys : ~PutOff(key) /\ Passes(key) /\ keys' = keys \ {key}
  /\ UNCHANGED <<pc, args, ops, op, deferred, ok>>

FailKey ==
  /\ pc = "keys" /\ \E key \in keys : ~PutOff(key) /\ ~Passes(key)
  /\ Return(FALSE)

(* Mutant: the map of the operator is made anew for each key.              *)
DeferOverwriting ==
  /\ pc = "keys"
  /\ \E key \in keys :
       /\ PutOff(key) /\ keys' = keys \ {key}
       /\ deferred' = [o \in DOMAIN deferred \cup {op} |->
                         IF o = op THEN [k \in {key} |-> conds[op][k]] ELSE deferred[o]]
  /\ UNCHANGED <<pc, args, ops, op, ok>>

(* deferred[op][key] = wants                                               *)
DeferKey ==
  /\ pc = "keys"
  /\ \E key \in keys :
       LET before == IF op \in DOMAIN deferred THEN DOMAIN deferred[op] ELSE {}
       IN  /\ PutOff(key) /\ keys' = keys \ {key}
           /\ deferred' = [o \in DOMAIN deferred \cup {op} |->
                             IF o = op THEN [k \in before \cup {key} |-> conds[op][k]]
                                       ELSE deferred[o]]
  /\ UNCHANGED <<pc, args, ops, op, ok>>

LeaveOperator ==
  /\ pc = "keys" /\ keys = {}
  /\ pc' = "ops"
  /\ UNCHANGED <<args, ops, op, keys, deferred, ok>>

ReturnTrue ==
  /\ pc = "ops" /\ ops = {}
  /\ Return(TRUE)

Walk == \/ TakeOperator \/ UnknownOperator \/ TakeKey \/ FailKey \/ DeferKey
        \/ LeaveOperator \/ ReturnTrue

Deliver ==
  /\ pc = "done"
  /\ pc' = "idle" /\ mode' = "eval" /\ conds' = NoConditions
  /\ ctx' = [k \in {} |-> ""] /\ path' = <<>> /\ ops' = {} /\ op' = NoOp
  /\ keys' = {} /\ deferred' = NoConditions /\ ok' = FALSE

Next == Receive \/ Walk \/ Deliver

Spec == Init /\ [][Next]_vars
-----------------------------------------------------------------------------
(* Types; what is still to be walked is part of the block.                 *)
TypeOK ==
  /\ pc \in {"idle", "ops", "keys", "done"} /\ mode \in {"eval", "resolve"}
  /\ ops \subseteq DOMAIN conds
  /\ pc = "keys" => op \in DOMAIN conds \ ops /\ keys \subseteq DOMAIN conds[op]
  /\ ok \in BOOLEAN

(* However the runtime walks the two maps, and whichever failing key it    *)
(* meets first, the answer is the one the order-free definitions give: all *)
(* operators, all keys of an operator, any value of a key; and what        *)
(* resolveConditions puts aside does not depend on the walk either.        *)
WalkIsOrderFree ==
  pc = "done" =>
    IF mode = "eval" THEN ok <=> EvalConditions(conds, ctx, path)
    ELSE /\ ok <=> Resolves(conds, ctx)
         /\ ok => deferred = Residual(conds, ctx)

(* Partial evaluation loses nothing and adds nothing: a block that was     *)
(* dropped could hold for no row, and of a block that was kept, what is    *)
(* left holds for exactly the rows the whole block holds for.              *)
ResolveIsExact ==
  pc = "done" /\ mode = "resolve" =>
    \A row \in Attributes, p \in Paths :
      EvalConditions(conds, Merge(ctx, row), p)
        <=> ok /\ EvalConditions(deferred, row, p)
=============================================================================
