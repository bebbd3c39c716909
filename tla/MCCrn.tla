------------------------------- MODULE MCCrn --------------------------------
(* Package crn, and conditionkey, whose texts travel in the same policies. *)
(* A call of matchPath runs from its start to its return, and names and    *)
(* keys are handled when none does; one pattern and one path stand for all *)
(* then, since neither sees the other's variables.                         *)
(*  - For PathMatcher: every pattern of up to four tokens against every    *)
(*    path of up to three segments.  Four tokens allow two "**" with a     *)
(*    token after each; a segment may itself be the text "**".             *)
(*  - For Identifiers: two tenants, one written in three forms (one of     *)
(*    them with a ":"), fields that are empty, plain, wildcards, or hold a *)
(*    ":", resources with slashes and wildcards in every place, and every  *)
(*    text for a key of at most three symbols.                             *)
EXTENDS PathMatcher, Identifiers

UpTo(n, S) == UNION { [1..k -> S] : k \in 1..n }

MCPatterns == UpTo(4, {"a", "b", "*", "**"})
MCPaths == UpTo(3, {"a", "b", "**"})
-----------------------------------------------------------------------------
MCUuidOf == [t \in {"t1", "T1", "urn:t1", "t2"} |-> IF t = "t2" THEN "t2" ELSE "t1"]
MCPartsOf == [f \in {"a:b", "urn:t1"} |->
                IF f = "a:b" THEN <<"a", "b">> ELSE <<"urn", "t1">>]

Fields == {"", "a", "*", "**", "a:b"}
Resources == UpTo(3, {"", "a", "**"})

MCBuildArgs ==
  [ tenant : {"T1", "urn:t1", "t2", "aic", "nobody"}, scope : {"", "a:b"},
    service : Fields, region : {"", "eu"}, type : {"", "a:b"}, resource : Resources ]

MCTexts ==
  { <<p, t, "", s, "", "", r>> : p \in {"crn", "arn"},
      t \in {"T1", "t2", "aic", "nobody"}, s \in Fields \ {"a:b"}, r \in Resources }
    \cup { <<"">>, <<"crn", "t1">> }

MCKeyTexts == {<<>>} \cup UpTo(3, {"resource", "file", "path[0]", ".", ":", " "})
-----------------------------------------------------------------------------
CrnInit == Init /\ IdInit

MatchStep == Next /\ UNCHANGED <<nameVars, keyVars>>

IdStep == pc = "done" /\ pat = <<"a">> /\ seg = <<"a">> /\ IdNext /\ UNCHANGED vars

CrnSpec ==
  /\ CrnInit
  /\ [][MatchStep \/ IdStep]_<<vars, nameVars, keyVars>>
  /\ WF_vars(Next)
=============================================================================
