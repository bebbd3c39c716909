---------------------------- MODULE DeciderProofs ----------------------------
(***************************************************************************)
(* Compiled.Decide answers as promised, for every list of statements and   *)
(* every request.                                                          *)
(***************************************************************************)
EXTENDS Decider, TLAPS

S == Range(statements)

(* What the loop knows before statement i: no deny applies so far, and the *)
(* remembered allow is one that applies, if there is any.                  *)
Searched(k) == k \in 1..(i - 1)

LoopInv ==
  pc = "eval" =>
    /\ i > 1 => IsConcreteAction(request.action)
    /\ \A k \in 1..Len(statements) : Searched(k) =>
         ~(statements[k].effect = "deny" /\ Applies(statements[k], request))
    /\ \A k \in 1..Len(statements) : Searched(k) =>
         (statements[k].effect = "allow" /\ Applies(statements[k], request)
            => allow.allowed)
    /\ allow.allowed =>
         \E k \in 1..Len(statements) :
           /\ Searched(k) /\ statements[k].effect = "allow"
           /\ Applies(statements[k], request)
           /\ allow = Allowed(Reason(statements[k]))

DecisionInv ==
  pc = "done" => decision \in Acceptable(S, request)

IInv == TypeOK /\ LoopInv /\ DecisionInv

-----------------------------------------------------------------------------
(* The receiver of a call is a list of allows and denies.                  *)
LEMMA Receiver ==
  ASSUME TypeOK
  PROVE  /\ DOMAIN statements = 1..Len(statements) /\ Len(statements) \in Nat
         /\ \A k \in 1..Len(statements) : statements[k].effect \in Effects
         /\ S = {statements[k] : k \in 1..Len(statements)}
BY CompilationAssumption DEF TypeOK, S, Range

LEMMA NothingYet == 1 \in 1..(Len(<<>>) + 1)
OBVIOUS

LEMMA InitTypeOK == Init => TypeOK
<1> SUFFICES ASSUME Init PROVE TypeOK
  OBVIOUS
<1>1. i \in 1..(Len(statements) + 1)
  BY NothingYet DEF Init
<1>2. allow.allowed \in BOOLEAN /\ decision.allowed \in BOOLEAN
  BY DEF Init, NoDecision, Denied
<1>3. QED
  BY <1>1, <1>2 DEF Init, TypeOK

LEMMA StepTypeOK == TypeOK /\ [Next]_vars => TypeOK'
<1> SUFFICES ASSUME TypeOK, [Next]_vars PROVE TypeOK'
  OBVIOUS
<1> USE Receiver, RequestAssumption DEF TypeOK, NoDecision, Denied, Allowed
<1>1. ASSUME NEW c \in Compilations, NEW r \in Requests, Call(c, r)
      PROVE  TypeOK'
  <2>1. Len(c) \in Nat
    BY CompilationAssumption
  <2>2. 1 \in 1..(Len(c) + 1)
    BY <2>1
  <2>3. QED
    BY <1>1, <2>2 DEF Call
<1>2. CASE RejectAction
  BY <1>2 DEF RejectAction, Return
<1>3. CASE SkipStatement
  BY <1>3 DEF SkipStatement, Evaluating
<1>4. CASE ExplicitDeny
  BY <1>4 DEF ExplicitDeny, Evaluating, Return
<1>5. CASE RememberAllow
  <2>1. i' \in 1..(Len(statements') + 1)
    BY <1>5 DEF RememberAllow, Evaluating
  <2>2. allow' = allow \/ allow' = Allowed(Reason(statements[i]))
    BY <1>5 DEF RememberAllow
  <2>3. allow'.allowed \in BOOLEAN
    <3>1. CASE allow' = allow
      BY <3>1
    <3>2. CASE allow' = [allowed |-> TRUE, reason |-> Reason(statements[i])]
      BY <3>2
    <3>3. QED
      BY <2>2, <3>1, <3>2
  <2>4. QED
    BY <1>5, <2>1, <2>3 DEF RememberAllow, Evaluating
<1>6. CASE ReturnOutcome
  BY <1>6 DEF ReturnOutcome, Return
<1>7. CASE Deliver
  <2>1. i' \in 1..(Len(statements') + 1)
    BY <1>7, NothingYet DEF Deliver
  <2>2. allow'.allowed \in BOOLEAN /\ decision'.allowed \in BOOLEAN
    BY <1>7 DEF Deliver
  <2>3. QED
    BY <1>7, <2>1, <2>2 DEF Deliver
<1>8. CASE UNCHANGED vars
  <2>1. /\ pc' = pc /\ statements' = statements /\ request' = request
        /\ i' = i /\ allow' = allow /\ decision' = decision
    BY <1>8 DEF vars
  <2>2. QED
    BY <2>1
<1>9. QED
  BY <1>1, <1>2, <1>3, <1>4, <1>5, <1>6, <1>7, <1>8 DEF Next, Evaluate, Receive

(* Types and the position in the statement list, for every statement list. *)
THEOREM TypeCorrect == Spec => []TypeOK
<1>1. QED
  BY InitTypeOK, StepTypeOK, PTL DEF Spec
-----------------------------------------------------------------------------
LEMMA StepLoopInv == IInv /\ [Next]_vars => LoopInv'
<1> SUFFICES ASSUME IInv, [Next]_vars PROVE LoopInv'
  OBVIOUS
<1> USE Receiver DEF IInv
<1>1. ASSUME NEW c \in Compilations, NEW r \in Requests, Call(c, r)
      PROVE  LoopInv'
  <2>1. i' = 1 /\ allow'.allowed = FALSE
    BY <1>1 DEF Call, NoDecision, Denied
  <2>2. \A k \in 1..Len(statements') : ~Searched(k)'
    BY <2>1 DEF Searched
  <2>3. QED
    BY <2>1, <2>2 DEF LoopInv
<1>2. CASE SkipStatement
  <2>1. /\ statements' = statements /\ request' = request /\ allow' = allow
        /\ i' = i + 1 /\ i \in 1..Len(statements) /\ pc = "eval"
        /\ IsConcreteAction(request.action)
        /\ ~Applies(statements[i], request)
    BY <1>2 DEF SkipStatement, Evaluating, TypeOK
  <2>2. \A k \in 1..Len(statements) : Searched(k)' <=> Searched(k) \/ k = i
    BY <2>1 DEF Searched
  <2>3. QED
    BY <2>1, <2>2 DEF LoopInv
<1>3. CASE RememberAllow
  <2>1. /\ statements' = statements /\ request' = request
        /\ i' = i + 1 /\ i \in 1..Len(statements) /\ pc = "eval"
        /\ IsConcreteAction(request.action)
        /\ Applies(statements[i], request) /\ statements[i].effect = "allow"
        /\ allow' = IF allow.allowed THEN allow
                    ELSE Allowed(Reason(statements[i]))
    BY <1>3 DEF RememberAllow, Evaluating, TypeOK
  <2>2. \A k \in 1..Len(statements) : Searched(k)' <=> Searched(k) \/ k = i
    BY <2>1 DEF Searched
  <2>3. allow'.allowed
    BY <2>1 DEF Allowed
  <2>4. \E k \in 1..Len(statements) :
           /\ Searched(k)' /\ statements[k].effect = "allow"
           /\ Applies(statements[k], request)
           /\ allow' = Allowed(Reason(statements[k]))
    BY <2>1, <2>2 DEF LoopInv
  <2>5. QED
    BY <2>1, <2>2, <2>3, <2>4 DEF LoopInv
<1>4. CASE pc' # "eval"
  BY <1>4 DEF LoopInv
<1>5. CASE UNCHANGED vars
  BY <1>5 DEF vars, LoopInv, Searched
<1>6. QED
  BY <1>1, <1>2, <1>3, <1>4, <1>5
     DEF Next, Receive, Evaluate, RejectAction, ExplicitDeny, ReturnOutcome,
         Return, Deliver

(* Each of the three returns answers with an acceptable decision.          *)
LEMMA StepDecisionInv == IInv /\ [Next]_vars => DecisionInv'
<1> SUFFICES ASSUME IInv, [Next]_vars PROVE DecisionInv'
  OBVIOUS
<1> USE Receiver DEF IInv
<1>1. CASE RejectAction
  <2>1. /\ statements' = statements /\ request' = request
        /\ decision' = Denied("implicit deny")
        /\ ~IsConcreteAction(request.action)
    BY <1>1 DEF RejectAction, Return
  <2>2. decision' \in Acceptable(S, request)
    BY <2>1 DEF Acceptable, Explanations, Permitted, Denied
  <2>3. QED
    BY <2>1, <2>2 DEF DecisionInv, S
<1>2. CASE ExplicitDeny
  <2>1. /\ statements' = statements /\ request' = request
        /\ i \in 1..Len(statements) /\ IsConcreteAction(request.action)
        /\ Applies(statements[i], request) /\ statements[i].effect = "deny"
        /\ decision' = Denied(Reason(statements[i]))
    BY <1>2 DEF ExplicitDeny, Evaluating, Return, TypeOK
  <2>2. statements[i] \in Applicable(S, "deny", request)
    BY <2>1 DEF Applicable
  <2>3. decision' \in Acceptable(S, request)
    BY <2>1, <2>2 DEF Acceptable, Explanations, Permitted, Denied
  <2>4. QED
    BY <2>1, <2>3 DEF DecisionInv, S
<1>3. CASE ReturnOutcome
  <2>1. /\ statements' = statements /\ request' = request /\ pc = "eval"
        /\ i = Len(statements) + 1 /\ IsConcreteAction(request.action)
        /\ decision' = IF allow.allowed THEN allow ELSE Denied("implicit deny")
    <3>1. i \in 1..(Len(statements) + 1) /\ i > Len(statements)
      BY <1>3 DEF ReturnOutcome, TypeOK
    <3>2. i = Len(statements) + 1
      BY <3>1
    <3>3. QED
      BY <1>3, <3>2 DEF ReturnOutcome, Return
  <2>2. \A k \in 1..Len(statements) : Searched(k)
    <3>1. i = Len(statements) + 1 /\ Len(statements) \in Nat
      BY <2>1
    <3>2. i - 1 = Len(statements)
      BY <3>1
    <3>3. QED
      BY <3>2 DEF Searched
  <2>3. Applicable(S, "deny", request) = {}
    BY <2>1, <2>2 DEF LoopInv, Applicable
  <2>4. CASE allow.allowed
    <3>1. PICK k \in 1..Len(statements) :
             /\ statements[k].effect = "allow"
             /\ Applies(statements[k], request)
             /\ allow = Allowed(Reason(statements[k]))
      BY <2>1, <2>4 DEF LoopInv
    <3>2. statements[k] \in Applicable(S, "allow", request)
      BY <3>1 DEF Applicable
    <3>3. Permitted(S, request)
      BY <2>1, <2>3, <3>2 DEF Permitted
    <3>4. decision' = [allowed |-> TRUE, reason |-> Reason(statements[k])]
      BY <2>1, <2>4, <3>1 DEF Allowed
    <3>5. decision' \in Acceptable(S, request)
      BY <3>2, <3>3, <3>4 DEF Acceptable, Explanations
    <3>6. QED
      BY <2>1, <3>5 DEF DecisionInv, S
  <2>5. CASE ~allow.allowed
    <3>1. Applicable(S, "allow", request) = {}
      BY <2>1, <2>2, <2>5 DEF LoopInv, Applicable
    <3>2. decision' \in Acceptable(S, request)
      BY <2>1, <2>3, <2>5, <3>1 DEF Acceptable, Explanations, Permitted, Denied
    <3>3. QED
      BY <2>1, <3>2 DEF DecisionInv, S
  <2>6. QED
    BY <2>4, <2>5
<1>4. CASE pc' # "done"
  BY <1>4 DEF DecisionInv
<1>5. CASE UNCHANGED vars
  BY <1>5 DEF vars, DecisionInv, S
<1>6. QED
  BY <1>1, <1>2, <1>3, <1>4, <1>5
     DEF Next, Receive, Call, Evaluate, SkipStatement, RememberAllow,
         Evaluating, Deliver

LEMMA InitInv == Init => IInv
BY InitTypeOK DEF Init, IInv, LoopInv, DecisionInv

LEMMA InvStep == IInv /\ [Next]_vars => IInv'
BY StepTypeOK, StepLoopInv, StepDecisionInv DEF IInv

LEMMA InvSpec == Spec => []IInv
<1>1. QED
  BY InitInv, InvStep, PTL DEF Spec

(* A request without the published marker is allowed only on a resource of *)
(* the requesting tenant.                                                  *)
THEOREM IsolatesTenants == Spec => []TenantIsolation
<1>1. ASSUME IInv PROVE TenantIsolation
  <2> SUFFICES ASSUME pc = "done", decision.allowed, ~request.published
               PROVE  request.resource.tenant = request.tenant
    BY DEF TenantIsolation
  <2>1. Permitted(S, request)
    BY <1>1 DEF IInv, DecisionInv, Acceptable
  <2>2. PICK s \in S : s.effect = "allow" /\ Applies(s, request)
    BY <2>1 DEF Permitted, Applicable
  <2>3. MatchesResource(s, request.resource, request.tenant)
    BY <2>2 DEF Applies
  <2>4. QED
    BY <2>3 DEF MatchesResource, PatternMatches, MatchTenant
<1>2. QED
  BY <1>1, InvSpec, PTL

(* The published marker only widens what an allow already grants, and      *)
(* lifts no deny.                                                          *)
THEOREM MarkerWidensOnly == Spec => []MarkerOnlyWidens
<1>1. ASSUME IInv PROVE MarkerOnlyWidens
  <2> DEFINE unmarked == [request EXCEPT !.published = FALSE]
  <2> SUFFICES ASSUME pc = "done", request.published
               PROVE  /\ decision.allowed =>
                           \E s \in S :
                             /\ s.effect = "allow"
                             /\ ActionMatches(s.actions, request.action)
                             /\ EvalConditions(s.conditions, request.context,
                                               request.resource.resource)
                      /\ Permitted(S, unmarked) => decision.allowed
                      /\ Applicable(S, "deny", unmarked) # {} =>
                           ~decision.allowed
    BY DEF MarkerOnlyWidens, S
  <2>1. decision.allowed <=> Permitted(S, request)
    BY <1>1 DEF IInv, DecisionInv, Acceptable
  <2>2. /\ unmarked.action = request.action
        /\ unmarked.resource = request.resource
        /\ unmarked.tenant = request.tenant
        /\ unmarked.context = request.context
        /\ unmarked.published = FALSE
    BY <1>1, RequestAssumption DEF IInv, TypeOK
  <2> HIDE DEF unmarked
  <2>3. \A s \in S : s.effect = "deny" =>
           (Applies(s, unmarked) <=> Applies(s, request))
    BY <2>2 DEF Applies
  <2>4. \A s \in S : Applies(s, unmarked) => Applies(s, request)
    BY <2>2 DEF Applies
  <2>5. Applicable(S, "deny", unmarked) = Applicable(S, "deny", request)
    BY <2>3 DEF Applicable
  <2>6. Permitted(S, unmarked) => Permitted(S, request)
    BY <2>2, <2>4, <2>5 DEF Permitted, Applicable
  <2>7. decision.allowed =>
           \E s \in S : s.effect = "allow" /\ Applies(s, request)
    BY <2>1 DEF Permitted, Applicable
  <2>8. QED
    BY <2>1, <2>5, <2>6, <2>7 DEF Permitted, Applies
<1>2. QED
  BY <1>1, InvSpec, PTL

(* Decide implements the order-free promise: every step of a call is a     *)
(* step of Authorization or leaves what the caller sees unchanged.         *)
THEOREM Implements == Spec => Promise!Safety
<1>1. Init => Promise!Init
  BY DEF Init, Promise!Init
<1>2. ASSUME IInv, IInv', [Next]_vars PROVE [Promise!Next]_Promise!vars
  <2> USE DEF Promise!Next, Promise!vars
  <2>1. CASE Receive
    <3>1. PICK c \in Compilations, r \in Requests : pc = "idle" /\ Call(c, r)
      BY <2>1 DEF Receive
    <3>2. Range(c) \in PolicySets
      BY DEF PolicySets
    <3>3. Promise!Ask
      BY <3>1, <3>2 DEF Promise!Ask, Call
    <3>4. QED
      BY <3>3
  <2>2. CASE RejectAction \/ ExplicitDeny \/ ReturnOutcome
    <3>1. /\ pc = "eval" /\ pc' = "done"
          /\ statements' = statements /\ request' = request
      BY <2>2 DEF RejectAction, ExplicitDeny, ReturnOutcome, Evaluating, Return
    <3>2. decision' \in Acceptable(Range(statements), request)
      BY <1>2, <3>1 DEF IInv, DecisionInv, S
    <3>3. Promise!Answer
      BY <3>1, <3>2 DEF Promise!Answer
    <3>4. QED
      BY <3>3
  <2>3. CASE SkipStatement \/ RememberAllow
    BY <2>3 DEF SkipStatement, RememberAllow, Evaluating
  <2>4. CASE Deliver
    BY <2>4 DEF Deliver, Promise!Take
  <2>5. CASE UNCHANGED vars
    BY <2>5 DEF vars
  <2>6. QED
    BY <1>2, <2>1, <2>2, <2>3, <2>4, <2>5 DEF Next, Evaluate
<1>3. QED
  BY <1>1, <1>2, InvSpec, PTL DEF Spec, Promise!Safety
=============================================================================
