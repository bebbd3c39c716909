-------------------------------- MODULE Crn --------------------------------
(***************************************************************************)
(* Cloud resource names and the patterns that select them (crn/crn.go).    *)
(*                                                                         *)
(* A CRN and a pattern are records of the same shape                       *)
(*   [tenant, scope, service, region, type, resource]                      *)
(* whose resource is the path already split at "/", as Matches splits it.  *)
(* A pattern may hold "*" in a flat field, "*" and "**" in its resource,   *)
(* and the token PlatformTenant in its tenant.                             *)
(***************************************************************************)
EXTENDS Glob

PlatformTenant == "aic"
Wildcard == "*"
DeepWildcard == "**"

FlatFields == {"scope", "service", "region", "type"}

PathWildcards == [one |-> Wildcard, many |-> DeepWildcard]

(* What matchPath decides; PathMatcher is the loop that decides it.        *)
MatchPath(pat, seg) == Matches(PathWildcards, pat, seg)

(* The token stands for the requesting tenant, anything else for itself.   *)
MatchTenant(pat, val, requestTenant) ==
  IF pat = PlatformTenant THEN val = requestTenant ELSE pat = val

MatchField(pat, val) == pat \in {Wildcard, val}

PatternMatches(p, c, requestTenant) ==
  /\ MatchTenant(p.tenant, c.tenant, requestTenant)
  /\ \A f \in FlatFields : MatchField(p[f], c[f])
  /\ MatchPath(p.resource, c.resource)

WithTenant(p, tenant) == [p EXCEPT !.tenant = tenant]
=============================================================================
