----------------------------- MODULE Constrainer -----------------------------
(***************************************************************************)
(* Compiled.Constrain (engine/engine.go): partial evaluation for list      *)
(* queries.  Without a concrete resource, the loop reduces the statements  *)
(* to allow and deny patterns with the conditions that are still open; the *)
(* outer loop is over the statements, the inner one over the patterns of a *)
(* statement, one pass of either per step.                                 *)
(***************************************************************************)
EXTENDS Statements

CONSTANTS Compilations,  \* the values Compile may have returned
          Queries,       \* the calls: [action, tenant, context]
          NoQuery,
          Rows           \* what may be stored: [resource, attributes]

ASSUME CompilationAssumption ==
  \A c \in Compilations :
    /\ DOMAIN c = 1..Len(c) /\ Len(c) \in Nat
    /\ \A k \in 1..Len(c) :
         /\ c[k].effect \in Effects
         /\ DOMAIN c[k].patterns = 1..Len(c[k].patterns)
         /\ Len(c[k].patterns) \in Nat
         /\ \A n \in 1..Len(c[k].patterns) :
              DOMAIN c[k].patterns[n] = FlatFields \cup {"tenant", "resource"}

ASSUME QueryAssumption == NoQuery \notin Queries

VARIABLES pc,          \* "idle", "statements", "patterns" or "done"
          statements,  \* the receiver
          query,       \* the arguments
          i, j,        \* the next statement, the next of its patterns
          residual,    \* the conditions of statement i left to the adapter
          out          \* the constraints collected so far

vars == <<pc, statements, query, i, j, residual, out>>

NoConstraints == [allow |-> <<>>, deny |-> <<>>]

Init ==
  /\ pc = "idle" /\ statements = <<>> /\ query = NoQuery
  /\ i = 1 /\ j = 1 /\ residual = NoConditions /\ out = NoConstraints
-----------------------------------------------------------------------------
Call(c, q) ==
  /\ pc' = "statements" /\ statements' = c /\ query' = q
  /\ UNCHANGED <<i, j, residual, out>>

Receive == pc = "idle" /\ \E c \in Compilations, q \in Queries : Call(c, q)

(* if !isConcreteAction(action) { return out }                             *)
RejectAction ==
  /\ pc = "statements" /\ i = 1 /\ ~IsConcreteAction(query.action)
  /\ pc' = "done"
  /\ UNCHANGED <<statements, query, i, j, residual, out>>

AtStatement ==
  /\ pc = "statements" /\ IsConcreteAction(query.action)
  /\ i <= Len(statements)

(* The statement is about the action and its known conditions hold.        *)
Relevant(s, q) ==
  ActionMatches(s.actions, q.action) /\ Resolves(s.conditions, q.context)

(* Either continue of the outer loop.                                      *)
SkipStatement ==
  /\ AtStatement /\ ~Relevant(statements[i], query)
  /\ i' = i + 1
  /\ UNCHANGED <<pc, statements, query, j, residual, out>>

(* Mutant: a statement whose conditions are all known keeps the residual   *)
(* conditions of the one before it.                                        *)
EnterKeepingResidual ==
  /\ AtStatement /\ Relevant(statements[i], query)
  /\ pc' = "patterns" /\ j' = 1
  /\ residual' = LET left == Residual(statements[i].conditions, query.context)
                 IN  IF left = NoConditions THEN residual ELSE left
  /\ UNCHANGED <<statements, query, i, out>>

EnterStatement ==
  /\ AtStatement /\ Relevant(statements[i], query)
  /\ pc' = "patterns" /\ j' = 1
  /\ residual' = Residual(statements[i].conditions, query.context)
  /\ UNCHANGED <<statements, query, i, out>>

AtPattern == pc = "patterns" /\ j <= Len(statements[i].patterns)

(* Mutant: the token is left in the pattern.                               *)
KeepUnresolved ==
  LET s == statements[i]
  IN  /\ AtPattern
      /\ s.patterns[j].tenant \in {query.tenant, PlatformTenant}
      /\ out' = [out EXCEPT ![s.effect] =
                   Append(@, [pattern |-> s.patterns[j], conditions |-> residual])]
      /\ j' = j + 1
      /\ UNCHANGED <<pc, statements, query, i, residual>>

(* The pattern is the request tenant's, or the token, which is resolved to *)
(* the request tenant.                                                     *)
KeepPattern ==
  LET s == statements[i]
      match == [pattern |-> WithTenant(s.patterns[j], query.tenant),
                conditions |-> residual]
  IN  /\ AtPattern
      /\ s.patterns[j].tenant \in {query.tenant, PlatformTenant}
      /\ out' = [out EXCEPT ![s.effect] = Append(@, match)]
      /\ j' = j + 1
      /\ UNCHANGED <<pc, statements, query, i, residual>>

(* Mutant: the pattern after a foreign one is dropped with it.             *)
DropForGood ==
  /\ AtPattern
  /\ statements[i].patterns[j].tenant \notin {query.tenant, PlatformTenant}
  /\ j' = j + 2
  /\ UNCHANGED <<pc, statements, query, i, residual, out>>

(* Another tenant's pattern can never match this request.                  *)
DropPattern ==
  /\ AtPattern
  /\ statements[i].patterns[j].tenant \notin {query.tenant, PlatformTenant}
  /\ j' = j + 1
  /\ UNCHANGED <<pc, statements, query, i, residual, out>>

LeaveStatement ==
  /\ pc = "patterns" /\ j > Len(statements[i].patterns)
  /\ pc' = "statements" /\ i' = i + 1
  /\ UNCHANGED <<statements, query, j, residual, out>>

ReturnConstraints ==
  /\ pc = "statements" /\ IsConcreteAction(query.action)
  /\ i > Len(statements)
  /\ pc' = "done"
  /\ UNCHANGED <<statements, query, i, j, residual, out>>

Collect == \/ RejectAction \/ SkipStatement \/ EnterStatement \/ KeepPattern
           \/ DropPattern \/ LeaveStatement \/ ReturnConstraints

(* The caller has its constraints; the locals of the call are gone.        *)
Deliver ==
  /\ pc = "done"
  /\ pc' = "idle" /\ statements' = <<>> /\ query' = NoQuery
  /\ i' = 1 /\ j' = 1 /\ residual' = NoConditions /\ out' = NoConstraints

Next == Receive \/ Collect \/ Deliver

Spec == Init /\ [][Next]_vars
-----------------------------------------------------------------------------
(* filterResourceMatches: those that are to be kept, in order.             *)
FilterResourceMatches(matches, kept) ==
  LET filtered[n \in 0..Len(matches)] ==
        IF n = 0 THEN <<>>
        ELSE IF matches[n] \in kept THEN Append(filtered[n-1], matches[n])
        ELSE filtered[n-1]
  IN  filtered[Len(matches)]

(* Mutant: of the denies, the others are kept.                             *)
FilterAllows(c, kept) ==
  [allow |-> FilterResourceMatches(c.allow, kept),
   deny |-> FilterResourceMatches(c.deny, Range(c.deny) \ kept)]

(* Constraints.Filter: one predicate for allows and denies.                *)
Filter(c, kept) ==
  [allow |-> FilterResourceMatches(c.allow, kept),
   deny |-> FilterResourceMatches(c.deny, kept)]

(* What an adapter has to return for the constraints c: the rows that some *)
(* allow covers and no deny covers (ResourceMatch, Constraints).           *)
Covers(match, row) ==
  /\ PatternMatches(match.pattern, row.resource, match.pattern.tenant)
  /\ EvalConditions(match.conditions, row.attributes, row.resource.resource)

Selected(c, row) ==
  /\ \E m \in Range(c.allow) : Covers(m, row)
  /\ ~\E m \in Range(c.deny) : Covers(m, row)

(* The gate's question about a row: the same action and tenant, with the   *)
(* attributes of the row where the caller of Constrain knew nothing.       *)
GateRequest(q, row) ==
  [action |-> q.action, resource |-> row.resource, tenant |-> q.tenant,
   published |-> FALSE, context |-> Merge(q.context, row.attributes)]

-----------------------------------------------------------------------------
(* Types; both loops stay inside the slices they range over.               *)
TypeOK ==
  /\ pc \in {"idle", "statements", "patterns", "done"}
  /\ statements \in Compilations \cup {<<>>}
  /\ query \in Queries \cup {NoQuery}
  /\ (query = NoQuery) <=> (pc = "idle")
  /\ i \in 1..(Len(statements) + 1)
  /\ pc = "patterns" => /\ i <= Len(statements)
                        /\ j \in 1..(Len(statements[i].patterns) + 1)
  /\ DOMAIN out = Effects

(* No constraint, allow or deny, leaves Constrain with another tenant than *)
(* the request's or with the unresolved token: adapters never interpret a  *)
(* tenant.                                                                 *)
OnlyRequestTenant ==
  pc # "idle" =>
    \A effect \in Effects : \A m \in Range(out[effect]) :
      m.pattern.tenant = query.tenant

(* A request decision and a list filter never disagree: the constraints    *)
(* select exactly the rows that Decide would allow one by one, whichever   *)
(* condition keys the context knew and whichever are left to the store.    *)
FilterAgreesWithGate ==
  pc = "done" =>
    \A row \in Rows :
      Selected(out, row) <=> Permitted(Range(statements), GateRequest(query, row))

(* Narrowing the constraints to the patterns a service's table can hold    *)
(* (the keep function of Filter's doc comment) changes nothing there.      *)
NarrowingIsExact ==
  pc = "done" =>
    \A row \in Rows :
      LET kept == {m \in Range(out.allow) \cup Range(out.deny) :
                     m.pattern.service \in {row.resource.service, Wildcard}}
      IN  Selected(Filter(out, kept), row) <=> Selected(out, row)
=============================================================================
