------------------------------- MODULE CrnText -------------------------------
(***************************************************************************)
(* CRNs and patterns as text, and back (crn/crn.go).                       *)
(*                                                                         *)
(* A text is the sequence of its ":"-separated parts; a part from the      *)
(* seventh on is the sequence of its "/"-separated segments, every other   *)
(* part a string.  "crn:t:::file::a/b" is                                  *)
(*   <<"crn", "t", "", "file", "", "", <<"a", "b">>>>                      *)
(***************************************************************************)
EXTENDS Crn, FiniteSetsExt

CONSTANTS UuidOf,      \* uuid.Parse: the canonical form of what it accepts
          PartsOf,     \* the field values with a ":", and their parts
          DeepFields   \* the field values with "**" in them

ASSUME UuidAssumption ==
  /\ \A t \in DOMAIN UuidOf : /\ UuidOf[t] \in DOMAIN UuidOf
                              /\ UuidOf[UuidOf[t]] = UuidOf[t]
                              /\ UuidOf[t] \notin DOMAIN PartsOf
  /\ PlatformTenant \notin DOMAIN UuidOf

(* A result that may be an error: <<>> for the error, else <<value>>.      *)
Rejected == <<>>
Accepted(v) == <<v>>
-----------------------------------------------------------------------------
(* A UUID in any accepted form, or the token where a pattern is parsed.    *)
NormalizeTenant(tenant, allowToken) ==
  IF tenant = PlatformTenant
  THEN IF allowToken THEN Accepted(tenant) ELSE Rejected
  ELSE IF tenant \in DOMAIN UuidOf THEN Accepted(UuidOf[tenant]) ELSE Rejected

(* The segments of a resource that begins or ends with a slash.            *)
LeadingSlash(resource) == Len(resource) > 1 /\ resource[1] = ""
TrailingSlash(resource) == Len(resource) > 1 /\ resource[Len(resource)] = ""

(* strings.Trim(resource, "/")                                             *)
TrimSlashes(resource) ==
  LET filled == {k \in DOMAIN resource : resource[k] # ""}
  IN  IF filled = {} THEN <<"">>
      ELSE SubSeq(resource, Min(filled), Max(filled))

Name(tenant, scope, service, region, type, resource) ==
  [tenant |-> tenant, scope |-> scope, service |-> service,
   region |-> region, type |-> type, resource |-> resource]

(* Mutant of the next one: region and type change places.                  *)
ParseSwapped(text, allowToken) ==
  LET tenant == NormalizeTenant(text[2], allowToken)
  IN  IF \/ Len(text) # 7 \/ text[1] # "crn" \/ tenant = Rejected
         \/ LeadingSlash(text[7]) \/ TrailingSlash(text[7])
      THEN Rejected
      ELSE Accepted(Name(tenant[1], text[3], text[4], text[6], text[5], text[7]))

(* parse: seven parts, the prefix, the tenant, no slash at either end.     *)
ParseAs(text, allowToken) ==
  IF \/ Len(text) # 7
     \/ text[1] # "crn"
     \/ NormalizeTenant(text[2], allowToken) = Rejected
     \/ LeadingSlash(text[7])
     \/ TrailingSlash(text[7])
  THEN Rejected
  ELSE Accepted(Name(NormalizeTenant(text[2], allowToken)[1],
                     text[3], text[4], text[5], text[6], text[7]))

Parse(text) == ParseAs(text, FALSE)

(* "**" stands in the resource path only.                                  *)
ParsePattern(text) ==
  LET c == ParseAs(text, TRUE)
  IN  IF c # Rejected /\ \E f \in FlatFields : c[1][f] \in DeepFields
      THEN Rejected ELSE c

(* Mutant of the next one: the flat fields may hold the delimiter.         *)
BuildUnchecked(tenant, scope, service, region, type, resource) ==
  LET t == NormalizeTenant(tenant, FALSE)
  IN  IF t = Rejected THEN Rejected
      ELSE Accepted(Name(t[1], scope, service, region, type,
                         TrimSlashes(resource)))

(* Build: only the resource may hold a ":"; its outer slashes are dropped. *)
Build(tenant, scope, service, region, type, resource) ==
  LET t == NormalizeTenant(tenant, FALSE)
  IN  IF t = Rejected \/ {scope, service, region, type} \cap DOMAIN PartsOf # {}
      THEN Rejected
      ELSE Accepted(Name(t[1], scope, service, region, type,
                         TrimSlashes(resource)))
-----------------------------------------------------------------------------
Parts(field) == IF field \in DOMAIN PartsOf THEN PartsOf[field] ELSE <<field>>

(* CRN.String, and what SplitN reads of it: a ":" in a flat field moves    *)
(* the fields after it along, and what is beyond the seventh part becomes  *)
(* part of the resource.                                                   *)
String(c) ==
  LET flat == <<"crn">> \o Parts(c.tenant) \o Parts(c.scope)
                \o Parts(c.service) \o Parts(c.region) \o Parts(c.type)
  IN  SubSeq(flat, 1, 6) \o <<SubSeq(flat, 7, Len(flat)) \o c.resource>>
=============================================================================
