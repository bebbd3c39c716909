----------------------------- MODULE PathFilter -----------------------------
(***************************************************************************)
(* Prefixes (adapter/pathfilter/pathfilter.go): the constraints of a       *)
(* Constrain as path globs for a walker of one path-addressed store.  The  *)
(* matches are expanded one after the other; their conditions are folded   *)
(* into the globs in the order of Go's map iteration, that is in any.      *)
(***************************************************************************)
EXTENDS Constrainer, Adapters

CONSTANTS Slashed,  \* texts that contain a "/"
          Store     \* the flat fields all resources of the store share

VARIABLES stage,     \* "none", "match", "operators", "keys", "done" or "failed"
          given,     \* the constraints passed to Prefixes
          side, k,   \* the list being expanded, and the match of it
          ops, keys, \* operators, and keys of the current one, not yet walked
          globs,     \* the match so far, as globs
          prefixes   \* the globs returned

local == <<stage, given, side, k, ops, keys, globs, prefixes>>

NoGlobs == [allow |-> {}, deny |-> {}]

NotWalking ==
  /\ stage = "none" /\ given = NoConstraints /\ side = "allow" /\ k = 1
  /\ ops = {} /\ keys = {} /\ globs = {} /\ prefixes = NoGlobs
-----------------------------------------------------------------------------
(* The number of segments before the first "**", all of them without one.  *)
FixedWidth(g) ==
  LET deep == {n \in DOMAIN g : g[n] = DeepWildcard}
  IN  IF deep = {} THEN Len(g) ELSE (CHOOSE n \in deep : \A l \in deep : n <= l) - 1

(* A value with a wildcard has no exact encoding, and inside a "**" that   *)
(* more segments follow an index is ambiguous.                             *)
PinFails(g, n, values) ==
  \/ values \cap Starred # {}
  \/ FixedWidth(g) <= n /\ FixedWidth(g) < Len(g) - 1

(* Mutant of the next one: one segment too many before the pinned one.     *)
PinDeeper(g, n, values) ==
  {SubSeq(g, 1, FixedWidth(g)) \o [l \in 1..(n - FixedWidth(g) + 1) |-> Wildcard]
     \o <<v, DeepWildcard>> : v \in values \ Slashed}

(* pin, inside a trailing "**": pad up to n, pin, keep everything below.   *)
PinInside(g, n, values) ==
  {SubSeq(g, 1, FixedWidth(g)) \o [l \in 1..(n - FixedWidth(g)) |-> Wildcard]
     \o <<v, DeepWildcard>> : v \in values \ Slashed}

(* pin: the globs for g with its segment n among the values.               *)
Pin(g, n, values) ==
  IF n < FixedWidth(g)
  THEN IF g[n + 1] = Wildcard
       THEN {[g EXCEPT ![n + 1] = v] : v \in values \ Slashed}
       ELSE {x \in {g} : g[n + 1] \in values}
  ELSE IF FixedWidth(g) = Len(g) THEN {} ELSE PinInside(g, n, values)
-----------------------------------------------------------------------------
(* Constraints.Filter with the keep function that the store calls for.     *)
Narrowed(c) ==
  Filter(c, {m \in Range(c.allow) \cup Range(c.deny) :
               \A f \in FlatFields : MatchField(m.pattern[f], Store[f])})

Current == given[side][k]

Start ==
  /\ pc = "done" /\ stage = "none"
  /\ stage' = "match" /\ given' \in {out, Narrowed(out)}
  /\ UNCHANGED <<vars, side, k, ops, keys, globs, prefixes>>

StartMatch ==
  /\ stage = "match" /\ k <= Len(given[side])
  /\ stage' = "operators" /\ globs' = {Current.pattern.resource}
  /\ ops' = DOMAIN Current.conditions
  /\ UNCHANGED <<vars, given, side, k, keys, prefixes>>

(* The next operator of the map; only StringEquals can be folded.          *)
WalkOperator ==
  /\ stage = "operators"
  /\ \E op \in ops :
       /\ ops' = ops \ {op}
       /\ IF op = StringEquals
          THEN stage' = "keys" /\ keys' = DOMAIN Current.conditions[op]
          ELSE stage' = "failed" /\ UNCHANGED keys
  /\ UNCHANGED <<vars, given, side, k, globs, prefixes>>

Unfoldable(key) ==
  \/ key \notin DOMAIN PathIndexOf
  \/ \E g \in globs : PinFails(g, PathIndexOf[key], Current.conditions[StringEquals][key])

(* The next key of the map: every glob so far is replaced by its pins.     *)
FoldKey ==
  /\ stage = "keys"
  /\ \E key \in keys :
       /\ keys' = keys \ {key}
       /\ IF Unfoldable(key) THEN stage' = "failed" /\ UNCHANGED globs
          ELSE /\ globs' = UNION {Pin(g, PathIndexOf[key],
                                      Current.conditions[StringEquals][key]) : g \in globs}
               /\ UNCHANGED stage
  /\ UNCHANGED <<vars, given, side, k, ops, prefixes>>

LastKey ==
  /\ stage = "keys" /\ keys = {} /\ stage' = "operators"
  /\ UNCHANGED <<vars, given, side, k, ops, keys, globs, prefixes>>

(* The globs of a match join those of its list, without duplicates.        *)
FinishMatch ==
  /\ stage = "operators" /\ ops = {}
  /\ stage' = "match" /\ k' = k + 1 /\ globs' = {}
  /\ prefixes' = [prefixes EXCEPT ![side] = @ \cup globs]
  /\ UNCHANGED <<vars, given, side, ops, keys>>

FinishSide ==
  /\ stage = "match" /\ k > Len(given[side])
  /\ IF side = "allow" THEN side' = "deny" /\ k' = 1 /\ UNCHANGED stage
                       ELSE stage' = "done" /\ UNCHANGED <<side, k>>
  /\ UNCHANGED <<vars, given, ops, keys, globs, prefixes>>

Prefixes == \/ Start \/ StartMatch \/ WalkOperator \/ FoldKey \/ LastKey
            \/ FinishMatch \/ FinishSide
-----------------------------------------------------------------------------
(* The caller walks the allow globs and subtracts the deny globs.          *)
Walked(row) ==
  /\ \E g \in prefixes.allow : MatchPath(g, row.resource.resource)
  /\ ~\E g \in prefixes.deny : MatchPath(g, row.resource.resource)

(* A row of the store; the walker stays below the tenant's own root.       *)
InStore(row) ==
  /\ row.resource.tenant = query.tenant
  /\ \A f \in FlatFields : row.resource[f] = Store[f]

(* Folding conditions into a glob is exact, in any order of the maps, and  *)
(* all the way from the statements: when Prefixes returns, a walker of the *)
(* store sees the paths that Decide allows one by one, provided the        *)
(* constraints were filtered to the store first.                           *)
WalkAgreesWithGate ==
  stage = "done" /\ given = Narrowed(out) =>
    \A row \in Rows :
      InStore(row) => (Walked(row) <=> Permitted(Range(statements), GateRequest(query, row)))

(* "a request decision and a list filter can never disagree", "Adapters    *)
(* may only narrow" (docs/iam-policy-contract.md:287): a walker that takes *)
(* the constraints as Constrain returns them, as README.md:316 does, sees  *)
(* nothing that Decide refuses.  Violated.                                 *)
GlobsOnlyNarrow ==
  stage = "done" =>
    \A row \in Rows :
      InStore(row) /\ Walked(row) => Permitted(Range(statements), GateRequest(query, row))
=============================================================================
