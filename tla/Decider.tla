------------------------------- MODULE Decider -------------------------------
(***************************************************************************)
(* Compiled.Decide (engine/engine.go): the loop that evaluates one request *)
(* against the compiled statements, one statement per step.  A call binds  *)
(* the receiver and the request; Deliver hands the decision to the caller  *)
(* and drops the locals of the call.                                       *)
(***************************************************************************)
EXTENDS Statements

CONSTANTS Compilations,  \* the values Compile may have returned
          Requests,
          NoRequest

ASSUME CompilationAssumption ==
  \A c \in Compilations :
    /\ DOMAIN c = 1..Len(c) /\ Len(c) \in Nat
    /\ \A k \in 1..Len(c) : c[k].effect \in Effects

ASSUME RequestAssumption ==
  /\ NoRequest \notin Requests
  /\ \A r \in Requests :
       /\ DOMAIN r = {"action", "resource", "tenant", "published", "context"}
       /\ r.published \in BOOLEAN

VARIABLES pc,          \* "idle", "eval" or "done"
          statements,  \* the receiver
          request,     \* the argument
          i,           \* the next statement
          allow,       \* the first allow met, as the decision it would give
          decision     \* the returned value

vars == <<pc, statements, request, i, allow, decision>>

Denied(why) == [allowed |-> FALSE, reason |-> why]
Allowed(why) == [allowed |-> TRUE, reason |-> why]
NoDecision == Denied("")    \* the zero value of Decision

Init ==
  /\ pc = "idle" /\ statements = <<>> /\ request = NoRequest
  /\ i = 1 /\ allow = NoDecision /\ decision = NoDecision
-----------------------------------------------------------------------------
Call(c, r) ==
  /\ pc' = "eval" /\ statements' = c /\ request' = r
  /\ i' = 1 /\ allow' = NoDecision
  /\ UNCHANGED decision

Return(d) ==
  /\ pc' = "done" /\ decision' = d
  /\ UNCHANGED <<statements, request, i, allow>>

(* if !isConcreteAction(r.Action)                                          *)
RejectAction ==
  /\ pc = "eval" /\ i = 1 /\ ~IsConcreteAction(request.action)
  /\ Return(Denied("implicit deny"))

(* The loop is at a statement of a concrete request.                       *)
Evaluating ==
  /\ pc = "eval" /\ IsConcreteAction(request.action)
  /\ i <= Len(statements)

(* Mutant: a statement that does not apply takes the next one with it.     *)
SkipTwo ==
  /\ Evaluating /\ ~Applies(statements[i], request)
  /\ i' = i + 2
  /\ UNCHANGED <<pc, statements, request, allow, decision>>

(* if !s.applies(r) { continue }                                           *)
SkipStatement ==
  /\ Evaluating /\ ~Applies(statements[i], request)
  /\ i' = i + 1
  /\ UNCHANGED <<pc, statements, request, allow, decision>>

(* Mutant: an allow met earlier keeps a deny from being final.             *)
ExplicitDenyUnlessAllowed ==
  /\ Evaluating /\ Applies(statements[i], request)
  /\ statements[i].effect = "deny"
  /\ IF allow.allowed
     THEN i' = i + 1 /\ UNCHANGED <<pc, statements, request, allow, decision>>
     ELSE Return(Denied(Reason(statements[i])))

(* case policy.Deny: return at once.                                       *)
ExplicitDeny ==
  /\ Evaluating /\ Applies(statements[i], request)
  /\ statements[i].effect = "deny"
  /\ Return(Denied(Reason(statements[i])))

(* case policy.Allow: remember the first one, a later deny may override.   *)
RememberAllow ==
  /\ Evaluating /\ Applies(statements[i], request)
  /\ statements[i].effect = "allow"
  /\ i' = i + 1
  /\ allow' = IF allow.allowed THEN allow ELSE Allowed(Reason(statements[i]))
  /\ UNCHANGED <<pc, statements, request, decision>>

(* The end of the loop.                                                    *)
ReturnOutcome ==
  /\ pc = "eval" /\ IsConcreteAction(request.action)
  /\ i > Len(statements)
  /\ Return(IF allow.allowed THEN allow ELSE Denied("implicit deny"))

Evaluate == \/ RejectAction \/ SkipStatement \/ ExplicitDeny \/ RememberAllow
            \/ ReturnOutcome

(* The caller has its decision; the locals of the call are gone.           *)
Deliver ==
  /\ pc = "done"
  /\ pc' = "idle" /\ statements' = <<>> /\ request' = NoRequest
  /\ i' = 1 /\ allow' = NoDecision /\ decision' = NoDecision

Receive == pc = "idle" /\ \E c \in Compilations, r \in Requests : Call(c, r)

Next == Receive \/ Evaluate \/ Deliver

(* Decide is sequential code: once called, it runs until it returns.       *)
Spec == Init /\ [][Next]_vars /\ WF_vars(Evaluate)
-----------------------------------------------------------------------------
(* Types; the loop never runs past the statement list by more than one.    *)
TypeOK ==
  /\ pc \in {"idle", "eval", "done"}
  /\ statements \in Compilations \cup {<<>>}
  /\ request \in Requests \cup {NoRequest}
  /\ (request = NoRequest) <=> (pc = "idle")
  /\ i \in 1..(Len(statements) + 1)
  /\ allow.allowed \in BOOLEAN /\ decision.allowed \in BOOLEAN

(* The tenant is the isolation boundary: without the published marker, a   *)
(* request is allowed only on a resource of the requesting tenant,         *)
(* whatever other tenants the statements name.                             *)
TenantIsolation ==
  pc = "done" /\ decision.allowed /\ ~request.published =>
    request.resource.tenant = request.tenant

(* The published marker widens a grant and never creates one: it allows    *)
(* only what some allow statement grants by action and conditions, keeps   *)
(* every decision already positive without it, and lifts no explicit deny. *)
MarkerOnlyWidens ==
  LET S == Range(statements)
      unmarked == [request EXCEPT !.published = FALSE]
  IN  pc = "done" /\ request.published =>
        /\ decision.allowed =>
             \E s \in S :
               /\ s.effect = "allow"
               /\ ActionMatches(s.actions, request.action)
               /\ EvalConditions(s.conditions, request.context,
                                 request.resource.resource)
        /\ Permitted(S, unmarked) => decision.allowed
        /\ Applicable(S, "deny", unmarked) # {} => ~decision.allowed

(* Decide searches the statements in order and stops early, yet what it    *)
(* answers is what the order-free specification accepts: deny wins over    *)
(* every allow wherever either stands, nothing is allowed by default, and  *)
(* the reason belongs to a statement that applies.                         *)
PolicySets == {Range(c) : c \in Compilations}

Promise == INSTANCE Authorization WITH
  Policies <- PolicySets,
  asked <- IF pc = "idle" THEN <<>> ELSE <<Range(statements), request>>,
  answer <- IF pc = "done" THEN <<decision>> ELSE <<>>

DecidesAsPromised == Promise!Spec

(* engine/engine.go:19: "an empty Tenant matches no resource".  A resource *)
(* with the published marker refutes it: applies returns before it looks   *)
(* at a tenant.                                                            *)
EmptyTenantGetsNothing ==
  pc = "done" /\ request.tenant = "" => ~decision.allowed
=============================================================================
