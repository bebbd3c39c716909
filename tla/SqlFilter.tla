------------------------------ MODULE SqlFilter ------------------------------
(***************************************************************************)
(* The WHERE clause of a list query (adapter/sqlfilter/sqlfilter.go).      *)
(*                                                                         *)
(* A clause is denoted by the truth value it has on each row of the table: *)
(* "true", "false" or SQL's "unknown".  A mapping is                       *)
(*   [service, columns, tenantAnswered, published, fixed, conditions,      *)
(*    operators]                                                           *)
(* where columns says which of "tenant", "scope", "region", "type", "id"   *)
(* and "path" have a column, and published whether the marker has one.  A  *)
(* row is [resource, attributes, marker].  Its flat columns and its path   *)
(* are never NULL; an absent attribute and an absent marker are.           *)
(***************************************************************************)
EXTENDS Adapters, Functions

CONSTANTS
  Published,       \* the value of the marker
  MaxIndex,        \* math.MaxInt32, the largest index PostgreSQL takes
  SqlLikePairs,    \* the pairs <<value, text>> with text LIKE likePattern(value)
  ColumnNumberOf   \* strconv.ParseFloat, in the order of the database

ASSUME IndexAssumption == MaxIndex \in Nat

(* LIKE finds what wildcardMatch finds, and more only in a text with a "*" *)
(* (LikeAgreesWithGate, NoFalseMatch in LikeSql).                          *)
ASSUME LikeAssumption ==
  /\ LikePairs \subseteq SqlLikePairs
  /\ \A pair \in SqlLikePairs \ LikePairs : pair[2] \in Starred

(* A number is the same number in the database; NaN, which Go orders       *)
(* nowhere, has a place in its order as well (in PostgreSQL, the last).    *)
ASSUME NumberAssumption ==
  /\ DOMAIN NumberOf \subseteq DOMAIN ColumnNumberOf
  /\ \A v \in DOMAIN NumberOf : ColumnNumberOf[v] = NumberOf[v]

(* A split path has a segment.                                             *)
NonEmptySeq(x) == x # <<>> /\ x \in Seq(Range(x))

(* Three-valued logic.                                                     *)
Truth(b) == IF b THEN "true" ELSE "false"

And(S) == CASE "false" \in S -> "false"
            [] "false" \notin S /\ "unknown" \in S -> "unknown"
            [] OTHER -> "true"

Or(S) == CASE "true" \in S -> "true"
           [] "true" \notin S /\ "unknown" \in S -> "unknown"
           [] OTHER -> "false"

Not(v) == CASE v = "true" -> "false"
            [] v = "false" -> "true"
            [] OTHER -> "unknown"

(* Mutant of the next one: NOT in place of IS NOT TRUE.                    *)
IsNot(v) == Not(v)

IsNotTrue(v) == Truth(v # "true")
-----------------------------------------------------------------------------
(* resourcePred: "**" constrains nothing; "*" excludes paths with a "/"    *)
(* unless the ID column answers for it; "prefix/**" is the prefix itself   *)
(* or LIKE 'prefix/%'; a literal is an equality.                           *)
ResourcePred(res, columns, path) ==
  CASE res = <<DeepWildcard>> -> "true"
    [] res = <<Wildcard>> -> Truth("id" \in columns \/ Len(path) = 1)
    [] res[Len(res)] = DeepWildcard /\ Len(res) > 1 ->
         Truth(/\ Len(path) >= Len(res) - 1
               /\ \A k \in 1..(Len(res) - 1) : path[k] = res[k])
    [] OTHER -> Truth(path = res)

(* The patterns resourcePred has an exact predicate for.                   *)
ResourceSupported(res, columns) ==
  LET n == Len(res)
  IN  \/ res = <<DeepWildcard>>
      \/ res = <<Wildcard>> /\ columns \cap {"id", "path"} # {}
      \/ /\ res[n] = DeepWildcard /\ n > 1 /\ "path" \in columns
         /\ \A k \in 1..(n - 1) : res[k] \notin Starred
      \/ /\ \A k \in 1..n : res[k] \notin Starred
         /\ columns \cap {"id", "path"} # {}
-----------------------------------------------------------------------------
(* The texts ParseFloat reads as NaN.                                      *)
NaNs == DOMAIN ColumnNumberOf \ DOMAIN NumberOf

(* basePred has no portable form for dates, addresses and case folding.    *)
Translatable(op) ==
  /\ Known(op)
  /\ \/ op.kind = "String" /\ op.test \in {"Equals", "Like"}
     \/ op.kind \in {"Bool", "Null", "Numeric"}

(* numArgs, boolPred and nullPred: every value of the list has to parse,   *)
(* NaN does, and Null takes one.                                           *)
ValuesSupported(op, wants) ==
  /\ wants # {}
  /\ op.kind = "Numeric" => wants \subseteq DOMAIN ColumnNumberOf
  /\ op.kind = "Bool" => \A w \in wants : Lower(w) \in DOMAIN FlagOf
  /\ op.kind = "Null" => \E w \in wants : wants = {w} /\ w \in DOMAIN FlagOf

(* The comparison written for one value, on a column that is not NULL and  *)
(* holds what the attribute a reads as in the column's type.               *)
ColumnCompares(op, a, w) ==
  CASE op.kind = "Numeric" -> Ordered(op.test, ColumnNumberOf[a], ColumnNumberOf[w])
    [] op.kind = "Bool" -> FlagOf[Lower(a)] = FlagOf[Lower(w)]
    [] op.kind = "String" /\ op.test = "Like" -> <<w, a>> \in SqlLikePairs
    [] OTHER -> a = w

Compare(op, v, w) ==
  IF v = Absent THEN "unknown" ELSE Truth(ColumnCompares(op, v[1], w))

IsNull(v) == Truth(v = Absent)

(* inPred, numCmp, likePred and boolPred OR the values; the negated forms  *)
(* are notInPred and likePred, which let a NULL pass.                      *)
BasePred(op, v, wants) ==
  CASE op.kind = "Null" ->
         Truth(\E w \in wants : FlagOf[w] <=> v = Absent)
    [] op.kind # "Null" /\ op.not ->
         Or({IsNull(v), And({Not(Compare(op, v, w)) : w \in wants})})
    [] OTHER -> Or({Compare(op, v, w) : w \in wants})

CondPred(op, v, wants) ==
  IF op.ifExists THEN Or({IsNull(v), BasePred(op, v, wants)})
                 ELSE BasePred(op, v, wants)

(* conditionPreds: the key has a column and lists the operator.            *)
ConditionsSupported(conds, m) ==
  \A op \in DOMAIN conds : \A key \in DOMAIN conds[op] :
    /\ key \in DOMAIN m.conditions \cap DOMAIN m.operators
    /\ op \in m.operators[key]
    /\ Translatable(op) /\ ValuesSupported(op, conds[op][key])

(* What the database computes for a column expression: an attribute, a     *)
(* part of the path column, or an element of its segments as an array.     *)
(* The array of the empty text is empty; an index beyond 32 bits fails.    *)
ColumnValue(e, row) ==
  LET path == row.resource.resource
  IN  CASE e.fn = "column" -> FromContext(e.key, row.attributes)
        [] e.fn = "split_part" -> Present(path[1])
        [] e.fn = "array" /\ e.index > MaxIndex -> Present("out of range")
        [] OTHER -> IF path # <<"">> /\ e.index \in 1..Len(path)
                    THEN Present(path[e.index]) ELSE Absent
-----------------------------------------------------------------------------
TableFields == {"scope", "region", "type"}

Literal(p, f) == p[f] # Wildcard

(* No row of this table can match: another service, or a field that is the *)
(* same in the whole table and not the one the pattern names.              *)
Disjoint(p, m) ==
  \/ p.service \notin {Wildcard, m.service}
  \/ \E f \in (TableFields \ m.columns) \cap DOMAIN m.fixed :
       Literal(p, f) /\ p[f] # m.fixed[f]

NoError == "none"

(* The error group returns for a pattern that is not disjoint.             *)
GroupError(match, m) ==
  LET p == match.pattern
  IN  IF \E f \in TableFields \ (m.columns \cup DOMAIN m.fixed) : Literal(p, f)
      THEN "no column"
      ELSE IF ~ResourceSupported(p.resource, m.columns) THEN "pattern"
      ELSE IF ~ConditionsSupported(match.conditions, m) THEN "condition"
      ELSE NoError

MarkerPred(row) ==
  IF row.marker = Absent THEN "unknown" ELSE Truth(row.marker[1] = Published)

(* Mutant of the next one: the marker is an alternative to the tenant, so  *)
(* the rest of the group narrows published rows too.                       *)
TenantOrMarkerPred(p, m, row) ==
  Or({Truth(m.tenantAnswered \/ row.resource.tenant = p.tenant), MarkerPred(row)})

TenantPred(p, m, row) ==
  Truth(m.tenantAnswered \/ row.resource.tenant = p.tenant)

(* The conjunction group builds for a pattern that is not disjoint; empty, *)
(* it is 1=1.                                                              *)
Group(match, m, row) ==
  LET p == match.pattern
      conds == match.conditions
      fields == {f \in TableFields \cap m.columns : Literal(p, f)}
      Pred(op, key) == CondPred(op, ColumnValue(m.conditions[key], row), conds[op][key])
  IN  And({TenantPred(p, m, row)}
          \cup {Truth(row.resource[f] = p[f]) : f \in fields}
          \cup {ResourcePred(p.resource, m.columns, row.resource.resource)}
          \cup UNION {{Pred(op, key) : key \in DOMAIN conds[op]} : op \in DOMAIN conds})

(* orGroups: the matches that contribute a group, and the first error.     *)
Contributing(matches, m) == {x \in Range(matches) : ~Disjoint(x.pattern, m)}

FirstError(matches, m) ==
  LET Fails(k) == /\ ~Disjoint(matches[k].pattern, m)
                  /\ GroupError(matches[k], m) # NoError
      failing == {k \in DOMAIN matches : Fails(k)}
  IN  IF failing = {} THEN NoError
      ELSE GroupError(matches[CHOOSE k \in failing : \A l \in failing : k <= l], m)

OrGroups(matches, m, row) ==
  Or({Group(x, m, row) : x \in Contributing(matches, m)})
-----------------------------------------------------------------------------
(* Where                                                                   *)
Closed(c, m) == Contributing(c.allow, m) = {}

MappingError(m) ==
  IF m.service = "" THEN "service required"
  ELSE IF m.service = Wildcard THEN "invalid service"
  ELSE IF "tenant" \notin m.columns /\ ~m.tenantAnswered THEN "tenant column required"
  ELSE IF "tenant" \in m.columns /\ m.tenantAnswered THEN "tenant conflict"
  ELSE NoError

(* A closed clause is returned before the denies are looked at.            *)
WhereError(c, m) ==
  IF MappingError(m) # NoError THEN MappingError(m)
  ELSE IF FirstError(c.allow, m) # NoError THEN FirstError(c.allow, m)
  ELSE IF Closed(c, m) THEN NoError
  ELSE FirstError(c.deny, m)

(* The clause Where returns, on one row.  Without a group for a deny the   *)
(* disjunction of the denies is false and there is nothing to subtract.    *)
Where(c, m, row) ==
  LET allow == OrGroups(c.allow, m, row)
      widened == IF m.published THEN Or({allow, MarkerPred(row)}) ELSE allow
  IN  IF Closed(c, m) THEN "false"
      ELSE And({widened, IsNotTrue(OrGroups(c.deny, m, row))})

(* The query shows the rows on which the clause is true.                   *)
Listed(c, m, row) == Where(c, m, row) = "true"
-----------------------------------------------------------------------------
(* WithPostgresPathConditions (adapter/sqlfilter/postgres_path.go).        *)
(* Mutant of the next one: the first segment is an array element too.      *)
ArrayExpr(n) == [fn |-> "array", index |-> n + 1]

(* Segment n, counted from zero; SQL counts from one.                      *)
PathExpr(n) ==
  IF n = 0 THEN [fn |-> "split_part"] ELSE [fn |-> "array", index |-> n + 1]

ResidualKeys(c) ==
  UNION {UNION {DOMAIN match.conditions[op] : op \in DOMAIN match.conditions} :
           match \in Range(c.allow) \cup Range(c.deny)}

(* The keys the helper adds a column for; the rest is continue.            *)
Addable(key, conditions) ==
  /\ key \in DOMAIN PathIndexOf /\ PathIndexOf[key] < MaxIndex
  /\ key \notin DOMAIN conditions

(* An explicit list of operators, even an empty one, is kept.              *)
WithPostgresPathConditions(m, c) ==
  LET added == {key \in ResidualKeys(c) : Addable(key, m.conditions)}
  IN  [m EXCEPT
        !.conditions = Merge(@, [key \in added |-> PathExpr(PathIndexOf[key])]),
        !.operators = Merge(@, [key \in added |-> {StringEquals}])]
=============================================================================
