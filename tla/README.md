# A verification model of ds-go-policy

TLA+ modules, TLC configurations and TLAPS proofs for the policy engine in
`src/`: the matching of resource names, the evaluation of conditions, `Decide`,
`Constrain` and `Compile`, a service that uses all three at once, and the
adapters that turn constraints into a SQL clause or into path globs.

## Inventory

The repository is a library of pure functions. Nothing is persisted, nothing is
sent, and no function starts a goroutine. What is hard is that one question is
answered by two algorithms (`Decide` and `Constrain`), that the answer is put
together from loops with early exits and backtracking, that conditions are
walked in Go's random map order, and that a compiled value outlives the call
that made it and is shared.

| Component | State while it runs | Operations | Interacts with | What makes it correct | Module |
|---|---|---|---|---|---|
| `crn` matching | four cursors of `matchPath` | `Pattern.Matches`, `WithTenant` | called by Decide for every pattern | decides glob matching exactly; returns | `Glob`, `Crn`, `PathMatcher` |
| `crn` names | none (values) | `Parse`, `ParsePattern`, `Build`, `String` | services store the text; Compile reads patterns | store and load lose nothing; canonical tenant | `CrnText`, `Naming`, `Identifiers` |
| `engine` conditions | the two map iterators, the deferred block | `evalConditions`, `resolveConditions`, `validateConditions`, `wildcardMatch` | Decide, Constrain, Compile | answer independent of map order; partial evaluation exact | `Conditions`, `ConditionWalk`, `LikeMatcher` |
| `Compiled.Decide` | loop index, remembered allow | `Decide` | reads a `Compiled` | deny wins, default deny, tenants apart, marker only widens | `Statements`, `Authorization`, `Decider` |
| `Compiled.Constrain` | two loop indices, residual, result | `Constrain`, `Constraints.Filter` | reads a `Compiled`; result goes to an adapter | selects exactly what Decide would allow; one tenant | `Constrainer` |
| `Compile` | two loop indices, result, cloned slices | `Compile`, `Policy.Validate` | shares condition blocks with the caller | all or nothing; a snapshot | `Documents`, `Compiler` |
| a service | a held `Compiled` | package `Decide` and `Constrain`, concurrent calls | all of the above, and the owner of the document | each answer is that of the document compiled | `Engine` |
| `conditionkey` | none | `Parse`, `Build`, `String` | services write keys into policies; Compile reads them | a key survives its text; what it accepts, Compile accepts | `ConditionKeys`, `Identifiers` |
| `policy` JSON | none | `UnmarshalJSON` | the service that loads documents | one value and an array of one are the same | not modelled |
| `sqlfilter.Where` | none | `Where`, `group`, `orGroups` | consumes `Constraints`; the database runs the clause | the clause shows what Decide allows, under NULL | `SqlFilter`, `Listing`, `LikeSql` |
| `WithPostgresPathConditions` | clones of maps and slices | one call per request | the mapping all requests share | the shared mapping stays; columns read what Decide reads | `PostgresPath`, `SqlFilter` |
| `pathfilter` | the match, its globs so far, two map iterators | `Prefixes`, `globs`, `expand`, `pin` | consumes filtered `Constraints`; a walker uses the globs | allow globs minus deny globs are what Decide allows | `PathFilter`, `Listing` |
| errors | none | formatting | - | - | not modelled (text only) |

The hazards, with the line where each bites and the property that watches it,
are in `PROJECT.json`. In short: the order of allow and deny and of the
early return; tenant isolation enforced in two places; two evaluations of one
policy drifting apart; a key decided both at list time and in the store;
random map order; slices shared with the caller; half-compiled documents;
backtracking cursors; text that contains the wildcard characters; delimiters
inside fields; and, in the adapters, NULLs, published rows and index limits.

## The modules

    Glob                       what a glob matches, without an algorithm
     +- Crn                    names, patterns, Pattern.Matches
     |   +- PathMatcher        the loop of matchPath          -> CrnProofs
     |   +- CrnText            texts and names
     |   |   +- Naming         store, load, parse as pattern
     |   |       +- Identifiers   Naming + ConditionKeys      -> CrnProofs
     |   +- Statements         what a compiled statement says about a request
     |   |   +- Decider        Compiled.Decide                -> DeciderProofs
     |   |   +- Constrainer    Compiled.Constrain, Filter     -> ConstrainerProofs
     |   |   |   +- PathFilter    Prefixes, after a Constrain -> ListingProofs
     |   |   +- Documents      what authors write, what it means
     |   |       +- Compiler   Compile, with the caller's memory -> EngineProofs
     |   |           +- Engine Compiler + Decider + Constrainer -> EngineProofs
     |   +- Adapters           what both adapters use
     |       +- SqlFilter      Where, WithPostgresPathConditions as values
     |           +- Listing    PathFilter + SqlFilter         -> ListingProofs
     |           +- PostgresPath  the helper's maps and slices -> ListingProofs
     +- LikeMatcher            the loop of wildcardMatch      -> LikeMatcherProofs
         +- LikeSql            the LIKE patterns next to it   -> LikeMatcherProofs
    Conditions                 condition blocks, both evaluations
     +- ConditionWalk          the map loops, in any order    -> ConditionWalkProofs
    ConditionKeys              keys as text, and Compile's view of them
    Authorization              the abstract service: asked once, answered once
    SharedLemmas               what several proofs rest on: positions, loops,
                               sequences, globs, partial evaluation

`Statements` and `Adapters` extend `Conditions` too. `MC<Module>` holds the
bounds of the module's runs. `MCCrn` runs `PathMatcher` and `Identifiers` side by
side, `MCAdapters` `Listing` and `PostgresPath`: no variable is shared, so the
one steps while the other is at rest, and the states add up instead of
multiplying.

How state and actions correspond to the code:

- **PathMatcher, LikeMatcher.** The variables are the locals of the function
  (`px`, `sx`, `starPx`, `starSx`, 0-based). One action is one case of the
  switch, its guard negates the cases above it; `pc` says which of the two
  loops runs. The two modules differ where the functions do: `matchPath` tests
  for its wildcard first, `wildcardMatch` for an equal character first.
- **Conditions.** `Holds`, `EvalConditions`, `Resolves` and `Residual` are the
  condition functions as set-theoretic definitions. An operator name is a
  record (kind, test, negation, IfExists); what a string parses to is a table
  given as a constant, a string outside a table does not parse. `NaN` is left
  out of `NumberOf`: in the engine it compares false with everything, as a value
  that does not parse does. In `SqlFilter` it is a number (`ColumnNumberOf`),
  since `numArgs` accepts it.
- **ConditionWalk.** `evalConditions` and `resolveConditions` as loops: a step
  picks any operator, or any key of the current operator, not yet walked. That
  is Go's map iteration.
- **Decider.** One step is one iteration of the statement loop: a statement
  that does not apply, a deny that returns, an allow that is remembered.
  `applies` (action, conditions, marker, resource) is evaluated in the step.
- **Constrainer.** The outer loop takes or skips a statement (`continue` on the
  action and on a failed condition are one action, they do the same), the inner
  one keeps or drops a pattern.
- **Compiler.** A document is the caller's memory; an action slice is a pointer
  into it or to a clone. `CompileStatement` clones the actions and parses the
  resources, and any check that fails returns the empty value. `Edit` is the
  caller writing into its own slices after the call. Condition blocks stay
  shared and are values here, because engine/engine.go:37 forbids to mutate
  them.
- **Engine.** Three goroutines and the owner of the document interleave: one
  compiles and either holds the result or uses it once (the package functions),
  one decides, one constrains. The instances of Decider and Constrainer read
  their statements out of the memory of Compiler at every step, so that a
  shared slice would show. A held value may be one whose error was ignored.
- **Naming.** A text is the sequence of its parts at ":", a resource the
  sequence of its segments at "/"; `String` moves the parts along when a flat
  field holds a ":", as the real text would.
- **ConditionKeys, Identifiers.** A text of a key is a sequence of symbols: a
  colon, a dot, words. Keys and names are two kinds of identifier of one
  service, so one run steps both; `Compiles` is the switch of
  `validateConditions` on the same text.
- **SqlFilter.** `Where` is denoted by the truth value its clause has on a row,
  in SQL's three-valued logic: `Group` is the conjunction of `group`, one
  conjunct per predicate, `OrGroups` and `FirstError` are the two results of
  `orGroups`, `WhereError` the error paths of `Where` in their order (a closed
  allow is returned before the denies are looked at). `ConditionsSupported`,
  `ResourceSupported`, `Translatable` and `ValuesSupported` are what the code
  refuses to translate. What the database makes of a comparison is its own:
  `SqlLikePairs` says which texts LIKE finds with the pattern `likePattern`
  writes for a value, `ColumnNumberOf` where a number stands in its order. Both
  are constants beside the engine's `LikePairs` and `NumberOf`, and differ from
  them on texts with a "\*" and on NaN.
- **PathFilter.** One step expands a match, takes an operator of its
  conditions, folds one key into all globs so far (`pin`), or ends a list. The
  maps are walked in any order. The caller may, or may forget to, narrow the
  constraints with `Filter` first (`Start`).
- **Listing.** A list endpoint: a `Constrain`, then either a mapping, with or
  without the path conditions, or a walk. The rows a clause or a walk shows are
  compared with what Decide answers about each row.
- **LikeSql.** `escapeLike`, `likePattern` and the prefix pattern rune by rune,
  with SQL's LIKE defined over them, in the states of `LikeMatcher`.
- **PostgresPath.** The mapping is memory: a map object per owner and slices
  with an identity, so that an uncloned slice would show. Several requests call
  the helper at once and then write into the mapping they were given.

Deliberately abstract: the wording of errors, the characters of names, JSON.
A `Deliver` action ends a call and resets its locals. Definitions marked
"Mutant" are not part of the model: each is a plausible bug of the definition
below it, and replacing the definition by it makes the named property fail.

## The runs

| Run | Question | Bounds, and why they are enough |
|---|---|---|
| `crn` | `ReturnsMatch`: is `matchPath` exactly glob matching; `Advances`, `Terminates`: does it return. `RoundTrip`, `NameSelectsItself`, `KeyRoundTrip`, `ParsedAsWritten`, `BuiltKeysCompile`: do names and keys survive their text | all patterns of up to 4 tokens and paths of up to 3 segments: two deep wildcards with a token after each, segments that are "**". Fields that are empty, plain, wildcards or hold a ":"; three spellings of one tenant; slashes everywhere in resources of up to three segments; all key texts of up to three symbols, services and names built from them. The proofs remove the bounds. |
| `like_sql` | `NoFalseMatch`, `FindsPlainMatch`, `Advances`, `Terminates` of `wildcardMatch`; `LikeAgreesWithGate`: does the LIKE pattern select what it accepts; `PrefixSelectsBelow`: does the prefix pattern select what lies below | patterns of up to 4 runes over one wildcard, of up to 3 over the wildcards of both languages and the escape rune; texts of up to 3 runes that hold them too. An escape concerns two neighbouring runes. |
| `like_literal_star` | violated: "\*" stands for any sequence | same; the counterexample needs a text of two runes |
| `condition_walk` | `WalkIsOrderFree`, `ResolveIsExact` | blocks of up to two of twenty conditions, and three; all operator kinds with negation, IfExists, unknown operator, several values; contexts and rows that agree, disagree, are silent or do not parse. The proofs remove the bound. |
| `decider` | `TenantIsolation`, `MarkerOnlyWidens`, and `DecidesAsPromised`: refinement of `Authorization` with its liveness | all lists of up to 3 of 8 statements, 108 requests: a deny before, between and after allows |
| `decider_empty_tenant` | violated: "an empty Tenant matches no resource" | same |
| `engine` | `CompiledIsSnapshot`, `ReportsFirstFault` of Compile; `KeepsPromise`: the composition refines `Authorization`, with its liveness; `ListsAsCompiled` | ten documents: pairs that one edit turns into each other with another answer, each kind of fault after a sound policy, an empty policy; `MaxClones` bounds how often Compile is called, enough to compile, edit and compile again while calls on the first result are running |
| `adapters` | `FilterAgreesWithGate`, `NarrowingIsExact`, `OnlyRequestTenant` of Constrain; `ListAgreesWithGate`, `PublishedAllOrNothing` of Where; `WalkAgreesWithGate` of Prefixes; `SharedUntouched`, `ReturnsOwnKeys`, `ColumnsReadTheSegment` of `WithPostgresPathConditions` | three sets of statement lists over the same rows. For Constrain all lists of up to two of eight statements and some of three. For Where every operator it translates, as an allow and as a deny, on rows where its column is NULL, equal and different, holds a star or NaN, every kind of resource pattern, and five tables: paths, ids, ids with a marker, a projection, ids and paths; four faulty mappings. For Prefixes globs with a wildcard of each kind in every position and conditions before, at, inside and past the deep one. `MaxIndex` = 3 puts the last index inside the paths. For the helper two callers, enough for one to see what the other leaves; keys for the first segment, one the service has mapped, the last index, whose operators it forbids, and one past it |
| `published_refused` | violated: what a list shows of published rows, Decide does not refuse | the same with the table that has a marker |
| `globs_widen` | violated: adapters only narrow | the same |
| `stars_listed` | violated: a list and a request agree, whatever text a column holds | the table with paths; the counterexample needs a "\*" in a value and in a stored text |
| `deny_misses_published` | violated: a deny subtracts published rows | the same with the table that has a marker |

Deadlock is checked except where the program stops on purpose: the matchers (`crn`, `like_sql`) end
when they have returned, and Compile is not called beyond `MaxClones`.

Each violated property is a sentence of the repository that the code does not
keep; `PROJECT.json` quotes it under `findings`.

1. `wildcardMatch` on a text that contains "\*" (engine/conditions.go:362): the
   pattern "\*" does not match the text "\*a". `NoFalseMatch` holds, so a
   condition can only fail to match, which for `StringNotLike` means it holds.
2. A request with an empty tenant is allowed on a published resource
   (engine/engine.go:19 against :171).
3. `Where` ORs the marker onto the conditions of the allows, `Decide` evaluates
   them: a published row is listed that a request is refused, with the marker
   set (docs/iam-policy-contract.md:234). `PublishedAllOrNothing` shows that
   the list is at least consistent with itself.
4. `Prefixes` reads only the resource of a pattern. Used on the result of
   `Constrain` as the example at README.md:316 does, it lets a walker see what
   an allow for another service, region, scope or type names
   (docs/iam-policy-contract.md:287-289); `WalkAgreesWithGate` shows that
   `Filter` repairs it.
5. The LIKE pattern written for a `StringLike` finds more than `wildcardMatch`
   (finding 1) in a stored text with a "\*": under `e*` the list shows a row whose
   text is `e**` and Decide refuses it (docs/iam-policy-contract.md:288). Under a
   deny or a `StringNotLike` the list hides what Decide allows.
   `ListAgreesWithGate` therefore has `LikesPlainText` as a premise.
6. A comment in `Where` (sqlfilter.go:177-179, and :115-116) sends a policy
   author to a deny to narrow published rows, and says that denies still
   subtract them. A deny group carries the tenant of the request and a published
   row is the platform's, so it subtracts none from anyone else's list.
   README.md:260-264 and the test at sqlfilter_test.go:687-692 say so, and
   `PublishedAllOrNothing` states what they say.

Smaller disagreements that no run is spent on: `numArgs` passes NaN on to the
database, which orders it, as Go does not (with PostgreSQL, where NaN equals
itself, a stored NaN is listed under `NumericEquals` NaN and refused; the premise
`ComparesNumbers` of `ListAgreesWithGate` leaves it out); README.md:422 calls path matching
linear without backtracking, and `matchPath` goes back to its last "\*\*"; a
published row that Decide allows can be missing from the list when the only
allow names another service or tenant, since then the clause is closed; with
both an ID and a Path column a "\*" shows nested rows (sqlfilter.go:328-333;
`Addressed` excludes them); an unsupported condition is not reported by
`Prefixes` when a key met before it has left no glob (pathfilter.go:62-63, 76),
which is harmless: there is nothing to walk.

## Fairness

Every fairness assumption says that a call, once made, runs until it returns:
`WF(Next)` of the matchers, `WF(Evaluate)` of Decide, and in `Engine` the steps
of the gating goroutine. The functions block on nothing, so the Go scheduler
gives them that. Nobody is obliged to call, to edit or to take a result: those
actions are not fair. The loops of Compile, Constrain and the adapters are
ranges over slices and maps; that they end needs no property, so their
specifications (`Compiler`, `Constrainer`, `Listing`, `ConditionWalk`) state no
fairness. The matchers' `Terminates` does not rest
on fairness alone: `Advances` is the variant that makes the loops finite.

## What is proved

For every value of the constants, under the named assumptions of each module.
They say what the Go types and the checks before the call give:

| Assumption | In | Why the code justifies it |
|---|---|---|
| `SplitAssumption`, `RuneAssumption` | PathMatcher, LikeMatcher | the arguments are sequences, and `strings.Split` returns a segment at least |
| `UuidAssumption`, `TextAssumption` | CrnText, Naming | the canonical form of a UUID is its own canonical form and holds no ":"; the platform token is no UUID; a part of a text was split at ":" and a path at "/" |
| `SymbolAssumption` | Identifiers | a word of a service holds no ":" and no "."; texts are sequences |
| `KeyAssumption` | Conditions | a `resource.path[N]` key is reserved and has an index; a reserved key is not a malformed one |
| `CompilationAssumption` | Decider, Constrainer | what Compile returns is a slice of statements whose effect `Validate` admitted |
| `RequestAssumption`, `QueryAssumption` | Decider, Constrainer | requests have the fields of the Go struct; the value for "no call" is none |
| `SourceAssumption` | Compiler | documents are slices of slices of statements with the fields of the types of `policy`, whose resources are a slice too |
| `CallAssumption` | Engine | requests have the fields of the Go struct; the values for "no call" are none |
| `LikeAssumption` | SqlFilter | what `wildcardMatch` accepts LIKE finds, and what it finds beyond that is a text with a star: `LikeAgreesWithGate` and `NoFalseMatch` |
| `NumberAssumption` | SqlFilter | a column keeps the numbers Go parses, in their order; NaN has a place in the order as well |
| `StarredAssumption`, `IndexAssumption` | Adapters, SqlFilter | "\*" and "\*\*" contain a star; `math.MaxInt32` is a number |
| `RowAssumption`, `PatternAssumption`, `StoredAssumption` | Listing, PostgresPath | a split path has a segment and its segments hold no slash; a marker is one value or NULL |
| `MappingAssumption`, `ServiceAssumption` | Listing, PostgresPath | a mapping is a struct of two maps that no request owns; its service leaves the path keys to the helper, as text (postgres_path.go) |

TLC evaluates every assumption on the runs' constants.

- **CrnProofs, the matcher.** `[]ReturnsMatch`. The inductive invariant has
  three parts beside the types: what is matched so far (`Sound`), that since the
  last "**" one segment was consumed per token without losing a match
  (`InStep`), and that what is left can still match (`Complete`). `InStep` is
  why one remembered wildcard is enough: if the tokens after a later "**" cannot
  match, an earlier "**" cannot help. `ReturnsMatch` alone is not inductive,
  because it says nothing before the return. `[][...]`: `Advances`.
- **CrnProofs, the texts.** `[]RoundTrip`, `[]NameSelectsItself`,
  `[]KeyRoundTrip`, `[]ParsedAsWritten`, `[]BuiltKeysCompile`. The invariant
  (`IdInv`) says that whatever is in hand or stored is in normal form
  (`Normal`, `NormalKey`): a canonical tenant, flat fields that hold no ":", a
  path without a slash at its ends; a namespace made of words. In that form
  the seven parts of a text are in their places (`TextOfNormal`), the first
  colon of a key's text ends its namespace (`KeyReadsBack`), and each token of
  a path accounts for the segment it is (`PathSelectsItself`). That `Build`
  and `Parse` return nothing else is where their checks are needed
  (`BuildIsNormal`, `ParseIsNormal`, `Trimmed`).
- **LikeMatcherProofs, the matcher.** `[]TypeOK`, and the argument of
  `matchPath` again gives `NoFalseMatch` for every text and `FindsPlainMatch`
  for texts without a star; the literal star breaks exactly `InStep`.
- **LikeMatcherProofs, the LIKE patterns.** `[]LikeAgreesWithGate` and
  `[]PrefixSelectsBelow`. The database reads a pattern in one loop, the code
  writes it rune by rune; the proof lays the one along the other. Escaping puts
  each rune of the value at a known place (`EscapedPlaces`, from the joined
  parts of `FlattenSeq`), so the pattern is cut into pieces that each read as
  one token (`CutInto`, `PiecesRead`: before every piece no escape is open). A
  cut of a match of the one glob is then a cut of the other (`LikeExact`), and
  a match of the prefix pattern gives its first tokens one rune each
  (`PrefixExact`).
- **DeciderProofs.** `[]TypeOK`, `[]TenantIsolation`, `[]MarkerOnlyWidens`, and
  `Spec => Promise!Safety`: every step of a call maps to a step of
  `Authorization` or to a stutter. The invariant says that no deny among the
  statements searched applies, and that the remembered allow is one of them.
- **SharedLemmas.** `PartialEvaluationExact`: for every block, context, row and
  path, the block holds under the merged context exactly when it resolves and
  its residual holds for the row. Key by key: a deferred key reads the same from
  the row as from both, a decided key the same with the row as without. The
  lemmas about prefixes and suffixes of a match, about loops that fill a
  sequence (`LoopValues`, `JoinedParts`) and about texts cut at a symbol are
  here too.
- **ConstrainerProofs.** `[]TypeOK`, `[]OnlyRequestTenant` and
  `[]FilterAgreesWithGate`, the library's central promise that a decision and a
  filter never disagree. The invariant (`Filled`) says which patterns have been
  emitted at each point of the two loops; at the end that is all of them, and
  `PartialEvaluationExact` and the definition of a match do the rest.
  `[]NarrowingIsExact`: what `Filter` drops selects no row of the service.
- **EngineProofs, Compile.** `[]TypeOK`, `[]CompiledIsSnapshot` and
  `[]ReportsFirstFault`. The invariant says what the slices of the result hold
  (`Memory`: action slices are clones, so an edit of the document does not reach
  them), that the statements put down so far represent the document read so far
  (`Progress`, against the flattened document), and that nothing passed over was
  faulty (`NoFaultYet`); `CompiledIsSnapshot` is what remains of it at the
  return and is kept by every `Edit` after it.
- **EngineProofs, the service.** `EngineSpec => Promise!Safety` (the safety
  part of `KeepsPromise`), `[]ListsAsCompiled`, and the three promises of
  Compile again, now with other goroutines around it (`ServiceCompiles`). The
  invariant (`EngineInv`) follows a list of compiled statements through its
  hand-overs: the value held, the one a decision reads and the one a list reads
  each *carry* the document they were compiled from (`Carries`), whatever that
  document has become. Since their slices are clones, what a goroutine reads
  out of the memory at every step is the same value from the call to the return
  (`CarriesMeans`, `Kept`), so the proofs of DeciderProofs and
  ConstrainerProofs are used as they stand, through an INSTANCE of each on that
  value (`GateMoves`, `ListMoves`); that their assumptions on a compilation hold
  of what Compile returns is a lemma here (`CompilationShape`).
- **ConditionWalkProofs.** `[]TypeOK`, `[]WalkIsOrderFree` and
  `[]ResolveIsExact`: the
  result of the two loops is that of the order-free definitions in whatever
  order the maps are walked. The invariant says of the keys walked so far that
  they hold or are put aside (`Sound`), and that the deferred block is the
  block cut down to the keys walked and put aside (`AsideOK`); the answer alone
  says nothing before the return. `ResolveIsExact` follows with
  `PartialEvaluationExact`.
- **ListingProofs, the query.** `[]ListAgreesWithGate`: the SQL query shows
  exactly the unmarked rows Decide allows, as long as no `StringLike` is asked
  of a text with a star (`LikesPlainText`) and no number compared is NaN
  (`ComparesNumbers`). That premise speaks of what the query reads in the row,
  so it is carried down to each comparison, where with `LikeAssumption` and
  `NumberAssumption` the database answers as the engine does. A listing implements Constrain
  (`ListSpec => Spec`), so `FilterAgreesWithGate` holds in it; what remains is
  that the clause is true on the rows the constraints select. That is shown
  conjunct by conjunct: resource patterns (`ResourceExact`, against the
  declarative meaning of a glob), conditions with NULLs, negation and IfExists
  (`ConditionExact`), column expressions of the helper (`ColumnExact`), flat
  fields and fixed ones (`FieldsExact`), patterns left out
  (`DisjointCoversNone`); then for the clause (`ClauseExact`), where subtracting
  a deny needs IS NOT TRUE. Also `[]PublishedAllOrNothing`.
- **ListingProofs, the walk.** `[]WalkAgreesWithGate`: the globs of `Prefixes`
  select the paths Decide allows, in every order of the two map iterators. The
  invariant (`WalkInv`) says that the globs of a list stand for the matches
  expanded so far, and the globs of the current match for its pattern and the
  keys folded into it so far. One fold is `PinExact`: what `pin` makes of a glob
  selects the paths the glob selects whose segment the value admits, by cutting
  a match at the pinned position (`FixedUpTo`, `CutOf`).
- **ListingProofs, the helper.** `[]SharedUntouched`, `[]ReturnsOwnKeys` and
  `[]ColumnsReadTheSegment` of `PostgresPath`. The invariant (`MapInv`) says
  which map object and which slices each caller owns, and that a call has added
  exactly the keys of the constraints it has read.

Only model-checked, and why:

- Liveness: `Terminates` and the fairness half of `DecidesAsPromised` and
  `KeepsPromise`. It needs ENABLED, which is outside the reach of the
  prover. `Advances` is the half of `Terminates` that is proved.

Every invariant and every action property of a passing run is a theorem, and so
is the safety part of both refinements.

## What the model does not say

- The text of the SQL clause: quoting, parentheses, placeholders, the order of
  arguments. A clause is what it is true of. Flat columns and the path are NOT
  NULL; a value list is a set; with both columns the ID and the path of a row
  are the same text. LIKE is the standard's, with `\` as its escape; `LikeSql`
  shows that on texts without a star it selects what `wildcardMatch` accepts. A
  database that compares texts without regard to case is not covered.
- `ListAgreesWithGate` is about the rows of the table (`InTable`: the service,
  the fixed fields and the stored types are as the mapping declares) and about
  tables whose ids are one segment (`Addressed`). A mapping that leaves the
  text of a condition key empty is treated as not mapping it.
- The comparison is with a gate request that is not marked published and that
  has the row's attributes where the caller of Constrain knew nothing.
- `WithPostgresPathConditions` with a blank column returns the shared mapping
  itself (postgres_path.go:45); the caller is then modelled as not writing into
  it.
- JSON reading (a `null` for the values of a key becomes the one value "") and
  mutation of shared condition data, against the contract.
- Cost: the matchers are shown to stop, not how fast.

## Not modelled

- Reading a document from JSON (policy/conditions.go, policy/policy.go): it
  decides only how a document is written down. `null` for the values of a key
  becomes the one value "".
- The text of errors (errors.go of three packages). Which error is returned is
  modelled, as its kind.

## Plan

Done: everything the inventory names except the two items above, in the order
matching, conditions, Decide, Constrain, Compile, Engine, adapters, keys; and
the proofs of every safety property of those modules.

Left: what a theorem says can still be widened where a module fixes something
the code leaves open. The candidates are the values Compile shares with the
document instead of cloning (the condition blocks, which the contract of
`Compiled` forbids to mutate) and the reading of a document from JSON.
