---------------------------- MODULE ConditionKeys ----------------------------
(***************************************************************************)
(* Service-owned condition keys (conditionkey/conditionkey.go): built or   *)
(* parsed by a service, written into a policy, and read there by Compile   *)
(* (engine/conditions.go).  A text is a sequence of symbols: ":", ".", a   *)
(* word over the alphabet of a service, or anything else.                  *)
(***************************************************************************)
EXTENDS SequencesExt, Integers

CONSTANTS Words,    \* words over a-z, A-Z, 0-9, "_" and "-"
          Indices,  \* words "path[N]" that pathIndex accepts, as one symbol
          Texts     \* what may be parsed, or built from

VARIABLES key,     \* the key in hand <<k>>, else <<>>
          text,    \* the text in the policy <<t>>, else <<>>
          source,  \* history: the text the key was parsed from, else <<>>
          origin   \* history: the key that was written, else <<>>

vars == <<key, text, source, origin>>

Init == key = <<>> /\ text = <<>> /\ source = <<>> /\ origin = <<>>
-----------------------------------------------------------------------------
(* Mutant of the next one: the namespace may hold dots.                    *)
DottedService(service) == Range(service) \subseteq Words \cup {"."}

ValidService(service) == Range(service) \subseteq Words

(* validate, for what Parse and Build return: <<>> is the error.           *)
Validated(service, name) ==
  IF service # <<>> /\ ValidService(service) /\ name # <<>>
  THEN <<[service |-> service, name |-> name]>> ELSE <<>>

Build(service, name) == Validated(service, name)

(* Mutant of the next one: the text is cut at its last colon.              *)
ParseLast(t) ==
  LET colons == {n \in DOMAIN t : t[n] = ":"}
  IN  IF colons = {} THEN <<>>
      ELSE Validated(SubSeq(t, 1, Max(colons) - 1), SubSeq(t, Max(colons) + 1, Len(t)))

(* strings.Cut at the first colon; the name keeps the others.              *)
Parse(t) ==
  LET colons == {n \in DOMAIN t : t[n] = ":"}
  IN  IF colons = {} THEN <<>>
      ELSE Validated(SubSeq(t, 1, Min(colons) - 1), SubSeq(t, Min(colons) + 1, Len(t)))

(* Mutant of the next one: the spaces of the name are dropped.             *)
StringTrimmed(k) == k.service \o <<":">> \o SelectSeq(k.name, LAMBDA s : s # " ")

String(k) == k.service \o <<":">> \o k.name
-----------------------------------------------------------------------------
Reserved(t) == IsPrefix(<<"resource", ".">>, t)

(* validateConditions, for one key.                                        *)
Compiles(t) ==
  /\ t # <<>>
  /\ Reserved(t) => Len(t) = 3 /\ t[3] \in Indices
  /\ ~Reserved(t) /\ ":" \in Range(t) => Parse(t) # <<>>
-----------------------------------------------------------------------------
Empty == key = <<>> /\ text = <<>>

BuildKey ==
  /\ Empty
  /\ \E service, name \in Texts : key' = Build(service, name)
  /\ source' = <<>>
  /\ UNCHANGED <<text, origin>>

ParseKey ==
  /\ Empty
  /\ \E t \in Texts : key' = Parse(t) /\ source' = IF key' = <<>> THEN <<>> ELSE <<t>>
  /\ UNCHANGED <<text, origin>>

(* The key is written into a policy.                                       *)
Write ==
  /\ key # <<>> /\ text = <<>>
  /\ text' = <<String(key[1])>> /\ origin' = key /\ key' = <<>>
  /\ UNCHANGED source

Load ==
  /\ text # <<>> /\ key = <<>>
  /\ key' = Parse(text[1])
  /\ UNCHANGED <<text, source, origin>>

Forget ==
  /\ text # <<>>
  /\ key' = <<>> /\ text' = <<>> /\ source' = <<>> /\ origin' = <<>>

Next == BuildKey \/ ParseKey \/ Write \/ Load \/ Forget

Spec == Init /\ [][Next]_vars
-----------------------------------------------------------------------------
(* A key survives the policy: whatever colons its name holds, its text     *)
(* parses to that key, so the texts of different keys differ.              *)
RoundTrip == text # <<>> => Parse(text[1]) = origin

(* "Parts are case-sensitive and are not normalized": a parsed key renders *)
(* to the text it came from, so no two keys of a policy become one.        *)
ParsedAsWritten == text # <<>> /\ source # <<>> => text = source

(* What this package accepts, Compile accepts too, and as a key of the     *)
(* service: no name a service chooses falls into the "resource." namespace *)
(* the engine answers itself.                                              *)
BuiltKeysCompile == text # <<>> => Compiles(text[1]) /\ ~Reserved(text[1])
=============================================================================
