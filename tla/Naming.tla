------------------------------- MODULE Naming --------------------------------
(***************************************************************************)
(* The life of a resource name: a service builds it or parses it from a    *)
(* request, stores it as text, and parses that text again, as a name or as *)
(* the pattern of a policy statement (crn/crn.go).                         *)
(***************************************************************************)
EXTENDS CrnText

CONSTANTS Texts,      \* what may be parsed
          BuildArgs   \* what may be built, as [tenant, ..., resource]

(* A part of a text holds no ":" and splits into one segment at least.     *)
ASSUME TextAssumption ==
  /\ \A t \in Texts : Len(t) = 7 =>
       /\ \A k \in 2..6 : t[k] \notin DOMAIN PartsOf
       /\ t[7] \in Seq(STRING) \ {<<>>}
  /\ \A a \in BuildArgs : a.resource \in Seq(STRING) \ {<<>>}

VARIABLES name,     \* the name in hand <<crn>>, else <<>>
          text,     \* the stored text <<t>>, else <<>>
          pattern,  \* the pattern parsed from the stored text, else <<>>
          origin    \* history: the name that was stored, else <<>>

nameVars == <<name, text, pattern, origin>>

NameInit == name = <<>> /\ text = <<>> /\ pattern = <<>> /\ origin = <<>>

Empty == name = <<>> /\ text = <<>>

BuildName ==
  /\ Empty
  /\ \E a \in BuildArgs :
       name' = Build(a.tenant, a.scope, a.service, a.region, a.type, a.resource)
  /\ UNCHANGED <<text, pattern, origin>>

ParseName ==
  /\ Empty
  /\ \E t \in Texts : name' = Parse(t)
  /\ UNCHANGED <<text, pattern, origin>>

(* The name is rendered and forgotten.                                     *)
Store ==
  /\ name # <<>> /\ text = <<>>
  /\ text' = Accepted(String(name[1])) /\ origin' = name
  /\ name' = <<>>
  /\ UNCHANGED pattern

Load ==
  /\ text # <<>> /\ name = <<>>
  /\ name' = Parse(text[1])
  /\ UNCHANGED <<text, pattern, origin>>

LoadPattern ==
  /\ text # <<>> /\ pattern = <<>>
  /\ pattern' = ParsePattern(text[1])
  /\ UNCHANGED <<name, text, origin>>

Forget ==
  /\ text # <<>>
  /\ name' = <<>> /\ text' = <<>> /\ pattern' = <<>> /\ origin' = <<>>

NameNext == BuildName \/ ParseName \/ Store \/ Load \/ LoadPattern \/ Forget
-----------------------------------------------------------------------------
(* Storing a name as text loses nothing: what was built or parsed parses   *)
(* again, to the very same name.                                           *)
RoundTrip == text # <<>> => Parse(text[1]) = origin

(* A pattern written as the text of a name selects that name, whatever     *)
(* wildcards its fields happen to contain, for whoever asks.               *)
NameSelectsItself ==
  pattern # <<>> =>
    PatternMatches(pattern[1], origin[1], origin[1].tenant)
=============================================================================
