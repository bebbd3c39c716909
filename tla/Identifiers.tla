----------------------------- MODULE Identifiers -----------------------------
(***************************************************************************)
(* The two kinds of identifier that a service writes into a policy and     *)
(* that are read back from it: resource names and condition keys.  It has  *)
(* one of them in its hands at a time.                                     *)
(***************************************************************************)
EXTENDS Naming

CONSTANTS Words, Indices, KeyTexts

ASSUME SymbolAssumption ==
  /\ "resource" \in Words /\ Words \cap (Indices \cup {":", "."}) = {}
  /\ KeyTexts \subseteq Seq(STRING)

VARIABLES key, keyText, source, keyOrigin

Keys == INSTANCE ConditionKeys WITH
  Texts <- KeyTexts, text <- keyText, origin <- keyOrigin

keyVars == <<key, keyText, source, keyOrigin>>

IdInit == NameInit /\ Keys!Init

NameStep == Keys!Empty /\ NameNext /\ UNCHANGED keyVars

KeyStep == Empty /\ Keys!Next /\ UNCHANGED nameVars

IdNext == NameStep \/ KeyStep

IdSpec == IdInit /\ [][IdNext]_<<nameVars, keyVars>>
-----------------------------------------------------------------------------
(* A key survives the policy: whatever colons its name holds, its text     *)
(* parses to that key, so the texts of different keys differ.              *)
KeyRoundTrip == Keys!RoundTrip

(* "Parts are case-sensitive and are not normalized": a parsed key renders *)
(* to the text it came from, so no two keys of a policy become one.        *)
ParsedAsWritten == Keys!ParsedAsWritten

(* What conditionkey accepts, Compile accepts too, and as a key of the     *)
(* service: no name a service chooses falls into the "resource." namespace *)
(* the engine answers itself.                                              *)
BuiltKeysCompile == Keys!BuiltKeysCompile
=============================================================================
