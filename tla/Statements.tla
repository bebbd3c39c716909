------------------------------ MODULE Statements ------------------------------
(***************************************************************************)
(* What one compiled statement says about one request (engine/engine.go,   *)
(* engine/action.go).                                                      *)
(*                                                                         *)
(* A compiled statement is [sid, effect, actions, patterns, conditions],   *)
(* with its actions and patterns in sequences.  An action, concrete or     *)
(* not, is the sequence of its ":"-separated parts: "file:get" is          *)
(* <<"file", "get">> and "*" is <<"*">>.  A request is                     *)
(* [action, resource, tenant, published, context].                         *)
(***************************************************************************)
EXTENDS Crn, Conditions, Functions

CONSTANT UnusableParts  \* action parts with a space or an embedded "*"

Effects == {"allow", "deny"}

(* splitAction: exactly one colon, no space, both parts non-empty.         *)
TwoParts(a) == Len(a) = 2 /\ \A k \in {1, 2} : a[k] \notin UnusableParts \cup {""}

IsConcreteAction(a) == TwoParts(a) /\ a[1] # Wildcard /\ a[2] # Wildcard

ValidActionPattern(a) == a = <<Wildcard>> \/ (TwoParts(a) /\ a[1] # Wildcard)

ActionMatches(actions, action) ==
  \E a \in Range(actions) :
    \/ a = <<Wildcard>>
    \/ a = action
    \/ Len(a) = 2 /\ a[2] = Wildcard /\ a[1] = action[1]

(* The reason of a decision: the sid, or a text for a statement with none. *)
Reason(s) ==
  CASE s.sid # "" -> s.sid
    [] s.sid = "" /\ s.effect = "deny" -> "explicit deny"
    [] OTHER -> "allow"

(* Mutant of the next one: a pattern of another tenant is not skipped.     *)
MatchesAnyTenant(s, c, requestTenant) ==
  \E p \in Range(s.patterns) : PatternMatches(p, c, requestTenant)

(* matchesResource: a pattern bound to another tenant than the requesting  *)
(* one is skipped before matching.                                         *)
MatchesResource(s, c, requestTenant) ==
  \E p \in Range(s.patterns) :
    /\ p.tenant \in {PlatformTenant, requestTenant}
    /\ PatternMatches(p, c, requestTenant)

(* Mutant of the next one: the marker stands in for the conditions too.    *)
AppliesIfPublished(s, r) ==
  /\ ActionMatches(s.actions, r.action)
  /\ \/ r.published /\ s.effect = "allow"
     \/ /\ EvalConditions(s.conditions, r.context, r.resource.resource)
        /\ MatchesResource(s, r.resource, r.tenant)

(* compiledStatement.applies: on a published resource an allow need not    *)
(* name the resource, a deny must.                                         *)
Applies(s, r) ==
  /\ ActionMatches(s.actions, r.action)
  /\ EvalConditions(s.conditions, r.context, r.resource.resource)
  /\ \/ r.published /\ s.effect = "allow"
     \/ MatchesResource(s, r.resource, r.tenant)

(* The statements of S with this effect that apply to r.                   *)
Applicable(S, effect, r) == {s \in S : s.effect = effect /\ Applies(s, r)}

(* What the engine promises: an explicit allow and no explicit deny, on a  *)
(* concrete action.                                                        *)
Permitted(S, r) ==
  /\ IsConcreteAction(r.action)
  /\ Applicable(S, "allow", r) # {}
  /\ Applicable(S, "deny", r) = {}

(* An allow is explained by an allow that applies, an explicit deny by a   *)
(* deny that applies; a default deny says so.                              *)
Explanations(S, r) ==
  LET denies == Applicable(S, "deny", r)
  IN  IF Permitted(S, r) THEN {Reason(s) : s \in Applicable(S, "allow", r)}
      ELSE IF IsConcreteAction(r.action) /\ denies # {}
           THEN {Reason(s) : s \in denies}
           ELSE {"implicit deny"}

Acceptable(S, r) ==
  {[allowed |-> Permitted(S, r), reason |-> why] : why \in Explanations(S, r)}
=============================================================================
