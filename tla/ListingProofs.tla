---------------------------- MODULE ListingProofs ----------------------------
(***************************************************************************)
(* The rows a SQL query shows are the rows Decide allows one by one, for   *)
(* every table, list of statements, query and row.                         *)
(*                                                                         *)
(* The argument: listing only uses what Constrain returns, so what is      *)
(* proved of the constraints holds here too (ConstrainerProofs); and the   *)
(* clause is true on a row exactly when the constraints select it, because *)
(* each conjunct of a group is true exactly when its part of the match     *)
(* covers the row (ResourceExact, ConditionExact, FieldsExact).            *)
(*                                                                         *)
(* The same of a walker of the globs that Prefixes returns: one fold of a  *)
(* key into a glob is exact (PinExact).  And the helper of                 *)
(* postgres_path.go adds the keys of one call to a mapping of its own.     *)
(***************************************************************************)
EXTENDS Listing, PostgresPath, ConstrainerProofs

TruthValues == {"true", "false", "unknown"}
-----------------------------------------------------------------------------
(* Three-valued logic: when a conjunction and a disjunction are true.      *)
LEMMA TruthIs ==
  ASSUME NEW b \in BOOLEAN
  PROVE  Truth(b) \in TruthValues /\ (Truth(b) = "true" <=> b)
BY DEF Truth, TruthValues

LEMMA AndIs ==
  ASSUME NEW S
  PROVE  /\ And(S) \in TruthValues
         /\ "false" \in S => And(S) = "false"
         /\ S \subseteq TruthValues => (And(S) = "true" <=> \A v \in S : v = "true")
BY DEF And, TruthValues

LEMMA OrIs ==
  ASSUME NEW S
  PROVE  Or(S) \in TruthValues /\ (Or(S) = "true" <=> "true" \in S)
BY DEF Or, TruthValues
-----------------------------------------------------------------------------
(* The cut a gives the first m tokens, none of them a "**", symbols.       *)
FixedUpTo(m, a, glob, seg) ==
  /\ a[0] = 0
  /\ \A x \in 1..m : /\ Consumes(PathWildcards, glob[x], seg, a[x-1], a[x])
                     /\ glob[x] # DeepWildcard

(* Such a cut gives the x-th token the x-th symbol.                        *)
LEMMA FixedCut ==
  ASSUME NEW glob, NEW seg, NEW n \in Nat, NEW m \in 0..n, Len(seg) \in Nat,
         NEW a \in [0..n -> 0..Len(seg)], FixedUpTo(m, a, glob, seg)
  PROVE  /\ \A x \in 0..m : a[x] = x
         /\ \A x \in 1..m : glob[x] \in {Wildcard, seg[x]}
<1>1. \A x \in 1..m : a[x] = a[x-1] + 1 /\ glob[x] \in {Wildcard, seg[a[x]]}
  BY DEF FixedUpTo, Consumes, PathWildcards
<1> DEFINE P == {x \in 0..m : a[x] = x}
<1>2. 0 \in P
  BY DEF FixedUpTo
<1>3. \A x \in 0..(m-1) : x \in P => x + 1 \in P
  BY <1>1
<1>4. m \in Nat
  OBVIOUS
<1> HIDE DEF P
<1>5. \A x \in 0..m : x \in P
  BY <1>2, <1>3, <1>4, Ascent
<1>6. \A x \in 0..m : a[x] = x
  BY <1>5 DEF P
<1>7. ASSUME NEW x \in 1..m PROVE glob[x] \in {Wildcard, seg[x]}
  <2>1. a[x] = x
    BY <1>6
  <2> QED
    BY <1>1, <2>1
<1> QED
  BY <1>6, <1>7

(* resourcePred is exact for the patterns it does not refuse.              *)
LEMMA ResourceExact ==
  ASSUME NEW res, NonEmptySeq(res), NEW path, NonEmptySeq(path), NEW columns,
         ResourceSupported(res, columns), "id" \in columns => Len(path) = 1
  PROVE  ResourcePred(res, columns, path) = Truth(MatchPath(res, path))
<1> DEFINE n == Len(res)
           Cut(a) == /\ a[0] = 0 /\ a[n] = Len(path)
                     /\ \A x \in 1..n : Consumes(PathWildcards, res[x], path, a[x-1], a[x])
<1>1. /\ n \in Nat \ {0} /\ Len(path) \in Nat \ {0}
      /\ res \in Seq(Range(res)) /\ path \in Seq(Range(path))
  BY DEF NonEmptySeq
<1>2. MatchPath(res, path) <=> \E a \in [0..n -> 0..Len(path)] : Cut(a)
  BY DEF MatchPath, Matches, SuffixMatches
<1>3. PathWildcards.one = Wildcard /\ PathWildcards.many = DeepWildcard
      /\ Wildcard # DeepWildcard
  BY DEF PathWildcards, Wildcard, DeepWildcard
<1>4. CASE res = <<DeepWildcard>>
  <2> DEFINE a == [x \in 0..1 |-> IF x = 0 THEN 0 ELSE Len(path)]
  <2>1. n = 1 /\ a \in [0..n -> 0..Len(path)] /\ Cut(a)
    BY <1>1, <1>3, <1>4 DEF Consumes
  <2>2. MatchPath(res, path)
    BY <1>2, <2>1
  <2> QED
    BY <1>3, <1>4, <2>1, <2>2 DEF ResourcePred, Truth
<1>5. CASE res = <<Wildcard>>
  <2>1. n = 1 /\ res[1] = Wildcard
    BY <1>5
  <2>2. ASSUME Len(path) = 1 PROVE MatchPath(res, path)
    <3> DEFINE a == [x \in 0..1 |-> x]
    <3>1. a \in [0..n -> 0..Len(path)] /\ Cut(a)
      BY <1>3, <2>1, <2>2 DEF Consumes
    <3> QED
      BY <1>2, <3>1
  <2>3. ASSUME MatchPath(res, path) PROVE Len(path) = 1
    <3>1. PICK a \in [0..n -> 0..Len(path)] : Cut(a)
      BY <1>2, <2>3
    <3> QED
      BY <1>1, <1>3, <2>1, <3>1 DEF Consumes
  <2>4. ResourcePred(res, columns, path) = Truth("id" \in columns \/ Len(path) = 1)
    BY <1>3, <1>5 DEF ResourcePred
  <2> QED
    BY <2>2, <2>3, <2>4 DEF Truth
<1>6. CASE res[n] = DeepWildcard /\ n > 1
  <2>1. res # <<DeepWildcard>> /\ res # <<Wildcard>>
    BY <1>6
  <2>2. \A x \in 1..(n - 1) : res[x] \notin {Wildcard, DeepWildcard}
    BY <1>1, <1>6, <2>1, StarredAssumption DEF ResourceSupported
  <2>3. ASSUME MatchPath(res, path)
        PROVE  Len(path) >= n - 1 /\ \A x \in 1..(n - 1) : path[x] = res[x]
    <3>1. PICK a \in [0..n -> 0..Len(path)] : Cut(a)
      BY <1>2, <2>3
    <3>2. n - 1 \in 0..n /\ FixedUpTo(n - 1, a, res, path)
      BY <1>1, <2>2, <3>1 DEF FixedUpTo
    <3>b. n - 1 \in 0..n /\ n \in Nat /\ Len(path) \in Nat
      BY <1>1
    <3>3. /\ \A x \in 0..(n - 1) : a[x] = x
          /\ \A x \in 1..(n - 1) : res[x] \in {Wildcard, path[x]}
      BY <3>2, <3>b, FixedCut, SMTT(60)
    <3>4. a[n - 1] = n - 1 /\ a[n - 1] \in 0..Len(path)
      BY <1>1, <3>2, <3>3
    <3> QED
      BY <1>1, <2>2, <3>3, <3>4
  <2>4. ASSUME Len(path) >= n - 1, \A x \in 1..(n - 1) : path[x] = res[x]
        PROVE  MatchPath(res, path)
    <3> DEFINE a == [x \in 0..n |-> IF x = n THEN Len(path) ELSE x]
    <3>1. a \in [0..n -> 0..Len(path)] /\ a[0] = 0 /\ a[n] = Len(path)
      BY <1>1, <2>4
    <3>2. ASSUME NEW x \in 1..n
          PROVE  Consumes(PathWildcards, res[x], path, a[x-1], a[x])
      BY <1>1, <1>3, <1>6, <2>2, <2>4, <3>2 DEF Consumes
    <3> QED
      BY <1>2, <3>1, <3>2
  <2> QED
    BY <1>6, <2>1, <2>3, <2>4 DEF ResourcePred, Truth
<1>7. CASE /\ res # <<DeepWildcard>> /\ res # <<Wildcard>>
           /\ ~(res[n] = DeepWildcard /\ n > 1)
  <2>1. \A x \in 1..n : res[x] \notin {Wildcard, DeepWildcard}
    BY <1>7, StarredAssumption DEF ResourceSupported
  <2>2. ASSUME MatchPath(res, path) PROVE path = res
    <3>1. PICK a \in [0..n -> 0..Len(path)] : Cut(a)
      BY <1>2, <2>2
    <3>2. n \in 0..n /\ FixedUpTo(n, a, res, path)
      BY <1>1, <2>1, <3>1 DEF FixedUpTo
    <3>b. n \in 0..n /\ n \in Nat /\ Len(path) \in Nat
      BY <1>1
    <3>3. /\ \A x \in 0..n : a[x] = x
          /\ \A x \in 1..n : res[x] \in {Wildcard, path[x]}
      BY <3>2, <3>b, FixedCut, SMTT(60)
    <3>4. Len(path) = n
      BY <1>1, <3>1, <3>3
    <3> QED
      BY <1>1, <2>1, <3>3, <3>4
  <2>3. ASSUME path = res PROVE MatchPath(res, path)
    <3> DEFINE a == [x \in 0..n |-> x]
    <3>1. a \in [0..n -> 0..Len(path)] /\ Cut(a)
      BY <1>1, <1>3, <2>1, <2>3 DEF Consumes
    <3> QED
      BY <1>2, <3>1
  <2> QED
    BY <1>7, <2>2, <2>3 DEF ResourcePred, Truth
<1> QED
  BY <1>4, <1>5, <1>6, <1>7
-----------------------------------------------------------------------------
(* The value a column is compared by reads as the operator's type, and it  *)
(* is none that Go and the database compare in different ways.             *)
Readable(op, v, wants) ==
  v # Absent => /\ op.kind = "Numeric" => {v[1]} \cup wants \subseteq DOMAIN NumberOf
                /\ op.kind = "Bool" => Lower(v[1]) \in DOMAIN FlagOf
                /\ op.kind = "String" /\ op.test = "Like" => v[1] \notin Starred

(* The comparison with one value of a supported list.                      *)
LEMMA CompareExact ==
  ASSUME NEW op, NEW v, NEW wants, NEW w \in wants, Readable(op, v, wants),
         Translatable(op), ValuesSupported(op, wants), op.kind # "Null", v # Absent
  PROVE  ColumnCompares(op, v[1], w) <=> Satisfies(op, v[1], w)
<1>1. CASE op.kind = "Numeric"
  <2>1. {v[1], w} \subseteq DOMAIN NumberOf
    BY <1>1 DEF Readable
  <2>2. ColumnNumberOf[v[1]] = NumberOf[v[1]] /\ ColumnNumberOf[w] = NumberOf[w]
    BY <2>1, NumberAssumption
  <2> QED
    BY <1>1, <2>1, <2>2 DEF ColumnCompares, Satisfies
<1>2. CASE op.kind = "Bool"
  BY <1>2 DEF Readable, ValuesSupported, ColumnCompares, Satisfies
<1>3. CASE op.kind = "String" /\ op.test = "Like"
  <2>1. v[1] \notin Starred
    BY <1>3 DEF Readable
  <2>2. <<w, v[1]>> \in SqlLikePairs <=> <<w, v[1]>> \in LikePairs
    <3> DEFINE pair == <<w, v[1]>>
    <3>1. pair[2] = v[1]
      OBVIOUS
    <3> HIDE DEF pair
    <3>2. pair \in SqlLikePairs <=> pair \in LikePairs
      BY <2>1, <3>1, LikeAssumption
    <3> QED
      BY <3>2 DEF pair
  <2> QED
    BY <1>3, <2>2 DEF ColumnCompares, Satisfies
<1>4. CASE op.kind = "String" /\ op.test # "Like"
  BY <1>4 DEF Translatable, ColumnCompares, Satisfies
<1> QED
  BY <1>1, <1>2, <1>3, <1>4 DEF Translatable

LEMMA CompareTruth ==
  ASSUME NEW op, NEW v, NEW w
  PROVE  /\ Compare(op, v, w) \in TruthValues
         /\ Compare(op, v, w) = "true" <=> v # Absent /\ ColumnCompares(op, v[1], w)
         /\ Not(Compare(op, v, w)) \in TruthValues
         /\ Not(Compare(op, v, w)) = "true" <=> v # Absent /\ ~ColumnCompares(op, v[1], w)
BY DEF Compare, Truth, Not, TruthValues

(* The predicate of a condition, without its IfExists.                     *)
LEMMA BaseExact ==
  ASSUME NEW op, NEW v, NEW wants, Readable(op, v, wants),
         Translatable(op), ValuesSupported(op, wants)
  PROVE  /\ BasePred(op, v, wants) \in TruthValues
         /\ BasePred(op, v, wants) = "true" <=> Holds(op, v, wants)
<1>1. CASE op.kind = "Null"
  <2>1. ~op.not
    BY <1>1 DEF Translatable, Known, Negatable
  <2>2. PICK w : wants = {w} /\ w \in DOMAIN FlagOf
    BY <1>1 DEF ValuesSupported
  <2>3. BasePred(op, v, wants) = Truth(FlagOf[w] <=> v = Absent)
    BY <1>1, <2>2 DEF BasePred
  <2>4. Holds(op, v, wants) <=> (FlagOf[w] <=> v = Absent)
    BY <1>1, <2>1, <2>2 DEF Holds, HoldsPositively
  <2> QED
    BY <2>3, <2>4 DEF Truth, TruthValues
<1>2. CASE op.kind # "Null" /\ op.not
  <2> DEFINE none == And({Not(Compare(op, v, w)) : w \in wants})
  <2>1. BasePred(op, v, wants) = Or({IsNull(v), none})
    BY <1>2 DEF BasePred
  <2>2. IsNull(v) = "true" <=> v = Absent
    BY DEF IsNull, Truth
  <2>3. none = "true" <=> \A w \in wants : Not(Compare(op, v, w)) = "true"
    <3> DEFINE S == {Not(Compare(op, v, w)) : w \in wants}
    <3>1. S \subseteq TruthValues
      BY CompareTruth
    <3>2. (\A x \in S : x = "true") <=> \A w \in wants : Not(Compare(op, v, w)) = "true"
      OBVIOUS
    <3> HIDE DEF S
    <3>3. And(S) = "true" <=> \A x \in S : x = "true"
      BY <3>1, AndIs
    <3> QED
      BY <3>2, <3>3 DEF S
  <2> HIDE DEF none
  <2>4. BasePred(op, v, wants) = "true" <=> v = Absent \/ none = "true"
    BY <2>1, <2>2, OrIs
  <2>5. ASSUME v # Absent
        PROVE  none = "true" <=> ~\E w \in wants : Satisfies(op, v[1], w)
    BY <1>2, <2>3, <2>5, CompareTruth, CompareExact
  <2>6. Holds(op, v, wants)
          <=> v = Absent \/ ~\E w \in wants : Satisfies(op, v[1], w)
    BY <1>2 DEF Holds, HoldsPositively
  <2> QED
    BY <2>1, <2>4, <2>5, <2>6, OrIs
<1>3. CASE op.kind # "Null" /\ ~op.not
  <2> DEFINE some == {Compare(op, v, w) : w \in wants}
  <2>1. BasePred(op, v, wants) = Or(some)
    BY <1>3 DEF BasePred
  <2>2. "true" \in some <=> v # Absent /\ \E w \in wants : Satisfies(op, v[1], w)
    BY <1>3, CompareTruth, CompareExact
  <2> HIDE DEF some
  <2>3. Holds(op, v, wants)
          <=> v # Absent /\ \E w \in wants : Satisfies(op, v[1], w)
    BY <1>3 DEF Holds, HoldsPositively
  <2> QED
    BY <2>1, <2>2, <2>3, OrIs
<1> QED
  BY <1>1, <1>2, <1>3

(* conditionPreds is exact for the conditions it does not refuse: a NULL   *)
(* column fails and passes where an absent key does.                       *)
LEMMA ConditionExact ==
  ASSUME NEW op, NEW v, NEW wants, Readable(op, v, wants),
         Translatable(op), ValuesSupported(op, wants)
  PROVE  /\ CondPred(op, v, wants) \in TruthValues
         /\ CondPred(op, v, wants) = "true" <=> KeyPasses(op, v, wants)
<1>1. IsNull(v) = "true" <=> v = Absent
  BY DEF IsNull, Truth
<1>2. CASE op.ifExists
  <2>1. CondPred(op, v, wants) = Or({IsNull(v), BasePred(op, v, wants)})
    BY <1>2 DEF CondPred
  <2>2. CondPred(op, v, wants) = "true" <=> v = Absent \/ Holds(op, v, wants)
    BY <1>1, <2>1, BaseExact, OrIs
  <2> QED
    BY <1>2, <2>1, <2>2, OrIs DEF KeyPasses
<1>3. CASE ~op.ifExists
  <2>1. CondPred(op, v, wants) = BasePred(op, v, wants)
    BY <1>3 DEF CondPred
  <2> QED
    BY <1>3, <2>1, BaseExact DEF KeyPasses
<1> QED
  BY <1>2, <1>3
-----------------------------------------------------------------------------
(* What a mapping is, completed or not: a column of its own for an         *)
(* attribute, the helper's expression for a path key.                      *)
MapsKeys(m) ==
  /\ \A key \in DOMAIN m.conditions :
       \/ m.conditions[key].fn = "column" /\ key \notin DOMAIN PathIndexOf
       \/ /\ key \in DOMAIN PathIndexOf /\ PathIndexOf[key] < MaxIndex
          /\ m.conditions[key] = PathExpr(PathIndexOf[key])
  /\ \A key \in DOMAIN m.operators \cap DOMAIN PathIndexOf :
       \A op \in m.operators[key] : op.kind \in {"String", "Null"}

LEMMA Completed ==
  ASSUME NEW m \in Mappings, NEW c
  PROVE  MapsKeys(m) /\ MapsKeys(WithPostgresPathConditions(m, c))
<1> DEFINE added == {key \in ResidualKeys(c) : Addable(key, m.conditions)}
           extra == [key \in added |-> PathExpr(PathIndexOf[key])]
           texts == [key \in added |-> {StringEquals}]
           w == WithPostgresPathConditions(m, c)
<1>1. MapsKeys(m)
  BY MappingAssumption DEF MapsKeys
<1>2. /\ w.conditions = Merge(m.conditions, extra)
      /\ w.operators = Merge(m.operators, texts)
  BY MappingAssumption DEF WithPostgresPathConditions
<1>3. \A key \in added : key \in DOMAIN PathIndexOf /\ PathIndexOf[key] < MaxIndex
  BY DEF Addable
<1> HIDE DEF w, added
<1>4. ASSUME NEW key \in DOMAIN w.conditions
      PROVE  \/ w.conditions[key].fn = "column" /\ key \notin DOMAIN PathIndexOf
             \/ /\ key \in DOMAIN PathIndexOf /\ PathIndexOf[key] < MaxIndex
                /\ w.conditions[key] = PathExpr(PathIndexOf[key])
  <2>1. CASE key \in DOMAIN m.conditions
    BY <1>2, <2>1, MappingAssumption DEF Merge
  <2>2. CASE key \notin DOMAIN m.conditions
    BY <1>2, <1>3, <2>2 DEF Merge
  <2> QED
    BY <2>1, <2>2
<1>5. ASSUME NEW key \in DOMAIN w.operators \cap DOMAIN PathIndexOf,
             NEW op \in w.operators[key]
      PROVE  op.kind \in {"String", "Null"}
  <2>1. CASE key \in DOMAIN m.operators
    BY <1>2, <2>1, MappingAssumption DEF Merge
  <2>2. CASE key \notin DOMAIN m.operators
    <3>1. w.operators[key] = {StringEquals}
      BY <1>2, <2>2 DEF Merge
    <3> QED
      BY <3>1 DEF StringEquals
  <2> QED
    BY <2>1, <2>2
<1> QED
  BY <1>1, <1>4, <1>5 DEF MapsKeys, w

(* The column added for a path key holds what Decide would look up.        *)
LEMMA PathColumnExact ==
  ASSUME NEW row, NonEmptySeq(row.resource.resource),
         NEW key \in DOMAIN PathIndexOf, PathIndexOf[key] < MaxIndex
  PROVE  ColumnValue(PathExpr(PathIndexOf[key]), row)
           = ConditionValue(key, row.attributes, row.resource.resource)
<1> DEFINE e == PathExpr(PathIndexOf[key])
           path == row.resource.resource
           n == PathIndexOf[key]
<1>1. n \in Nat /\ n + 1 <= MaxIndex /\ Len(path) \in Nat \ {0}
  BY KeyAssumption, IndexAssumption DEF NonEmptySeq
<1>2. ConditionValue(key, row.attributes, path)
        = IF n < Len(path) THEN Present(path[n + 1]) ELSE Absent
  BY DEF ConditionValue
<1>3. CASE n = 0
  BY <1>1, <1>2, <1>3 DEF PathExpr, ColumnValue
<1>4. CASE n # 0
  <2>1. e.fn = "array" /\ e.index = n + 1
    BY <1>4 DEF PathExpr
  <2>2. /\ e.fn # "column" /\ e.fn # "split_part"
        /\ ~(e.fn = "array" /\ e.index > MaxIndex)
    BY <1>1, <2>1, IndexAssumption
  <2>3. ColumnValue(e, row) = IF path # <<"">> /\ n + 1 \in 1..Len(path)
                              THEN Present(path[n + 1]) ELSE Absent
    BY <2>1, <2>2 DEF ColumnValue
  <2>4. Len(<<"">>) = 1
    OBVIOUS
  <2>5. n + 1 \in 1..Len(path) <=> n < Len(path)
    BY <1>1
  <2> HIDE DEF e, path, n
  <2>6. ASSUME path = <<"">> PROVE ~(n < Len(path))
    <3>1. Len(path) = 1
      BY <2>4, <2>6, Zenon
    <3> QED
      BY <1>1, <1>4, <3>1
  <2>7. ColumnValue(e, row) = ConditionValue(key, row.attributes, path)
    BY <1>2, <2>3, <2>5, <2>6
  <2> QED
    BY <2>7 DEF e, path
<1> QED
  BY <1>3, <1>4

(* A column holds for a row of the table what Decide would look up.        *)
LEMMA ColumnExact ==
  ASSUME NEW m, MapsKeys(m), NEW row, NonEmptySeq(row.resource.resource),
         InTable(m, row), NEW key \in DOMAIN m.conditions
  PROVE  ColumnValue(m.conditions[key], row)
           = ConditionValue(key, row.attributes, row.resource.resource)
<1> DEFINE e == m.conditions[key]
           path == row.resource.resource
<1>1. CASE e.fn = "column" /\ key \notin DOMAIN PathIndexOf
  <2>1. e.key = key
    BY <1>1 DEF InTable
  <2> QED
    BY <1>1, <2>1 DEF ColumnValue, ConditionValue
<1>2. CASE /\ key \in DOMAIN PathIndexOf /\ PathIndexOf[key] < MaxIndex
           /\ e = PathExpr(PathIndexOf[key])
  BY <1>2, PathColumnExact
<1> QED
  BY <1>1, <1>2 DEF MapsKeys

(* LikesPlainText and ComparesNumbers, of one comparison.                  *)
Comparable(op, v, wants) ==
  /\ op.kind = "String" /\ op.test = "Like" => Range(v) \cap Starred = {}
  /\ op.kind = "Numeric" => (Range(v) \cup wants) \cap NaNs = {}

ComparableIn(conds, row) ==
  \A op \in DOMAIN conds : \A key \in DOMAIN conds[op] :
    Comparable(op, RowValue(key, row), conds[op][key])

LEMMA ValueInRange ==
  ASSUME NEW key, NEW row, RowValue(key, row) # Absent
  PROVE  RowValue(key, row)[1] \in Range(RowValue(key, row))
<1>1. PICK x : RowValue(key, row) = <<x>>
  BY DEF RowValue, ConditionValue, FromContext, Present
<1>2. 1 \in DOMAIN <<x>>
  OBVIOUS
<1> QED
  BY <1>1, <1>2 DEF Range

LEMMA ColumnReadable ==
  ASSUME NEW m, MapsKeys(m), NEW row, InTable(m, row),
         NEW key \in DOMAIN m.conditions \cap DOMAIN m.operators,
         NEW op \in m.operators[key], NEW wants, ValuesSupported(op, wants),
         Comparable(op, RowValue(key, row), wants)
  PROVE  Readable(op, RowValue(key, row), wants)
<1> DEFINE v == RowValue(key, row)
<1> SUFFICES ASSUME v # Absent
             PROVE  /\ op.kind = "Numeric" => {v[1]} \cup wants \subseteq DOMAIN NumberOf
                    /\ op.kind = "Bool" => Lower(v[1]) \in DOMAIN FlagOf
                    /\ op.kind = "String" /\ op.test = "Like" => v[1] \notin Starred
  BY DEF Readable
<1>1. v[1] \in Range(v)
  BY ValueInRange
<1>2. CASE key \in DOMAIN PathIndexOf
  <2>1. op.kind \in {"String", "Null"}
    BY <1>2 DEF MapsKeys
  <2> QED
    BY <1>1, <2>1 DEF Comparable
<1>3. CASE key \notin DOMAIN PathIndexOf
  <2>1. key \in DOMAIN row.attributes /\ v[1] = row.attributes[key]
    BY <1>3 DEF RowValue, ConditionValue, FromContext, Present
  <2>2. /\ op.kind = "Numeric" => v[1] \in DOMAIN ColumnNumberOf
        /\ op.kind = "Bool" => Lower(v[1]) \in DOMAIN FlagOf
    BY <2>1 DEF InTable
  <2> HIDE DEF v
  <2>3. ASSUME op.kind = "Numeric"
        PROVE  {v[1]} \cup wants \subseteq DOMAIN NumberOf
    <3>1. {v[1]} \cup wants \subseteq DOMAIN ColumnNumberOf
      BY <2>2, <2>3 DEF ValuesSupported
    <3>2. ({v[1]} \cup wants) \cap NaNs = {}
      BY <1>1, <2>3 DEF Comparable, v
    <3> QED
      BY <3>1, <3>2 DEF NaNs
  <2> QED
    BY <1>1, <2>2, <2>3 DEF Comparable, v
<1> QED
  BY <1>2, <1>3
-----------------------------------------------------------------------------
(* A pattern that cannot match a row of the table covers none.             *)
LEMMA DisjointCoversNone ==
  ASSUME NEW m, NEW row, InTable(m, row), NEW match, Disjoint(match.pattern, m)
  PROVE  ~Covers(match, row)
BY DEF InTable, Disjoint, Literal, Covers, PatternMatches, MatchField, FlatFields,
       TableFields, Wildcard

(* The flat fields: what the columns, the fixed fields and the service do  *)
(* not say of a pattern is that the field is a wildcard.                   *)
LEMMA FieldsExact ==
  ASSUME NEW m, NEW row, InTable(m, row), NEW match, ~Disjoint(match.pattern, m),
         GroupError(match, m) = NoError
  PROVE  (\A f \in FlatFields : MatchField(match.pattern[f], row.resource[f]))
           <=> \A f \in {x \in TableFields \cap m.columns : Literal(match.pattern, x)} :
                 row.resource[f] = match.pattern[f]
<1> DEFINE p == match.pattern
<1>1. FlatFields = TableFields \cup {"service"}
  BY DEF FlatFields, TableFields
<1>2. MatchField(p.service, row.resource.service)
  BY DEF InTable, Disjoint, MatchField
<1>3. \A f \in TableFields \ (m.columns \cup DOMAIN m.fixed) : ~Literal(p, f)
  BY DEF GroupError, NoError
<1>4. \A f \in TableFields \ m.columns : MatchField(p[f], row.resource[f])
  BY <1>3 DEF InTable, Disjoint, Literal, MatchField
<1>5. \A f \in TableFields \cap m.columns :
        MatchField(p[f], row.resource[f]) <=> (Literal(p, f) => row.resource[f] = p[f])
  BY DEF Literal, MatchField
<1> HIDE DEF p
<1>6. (\A f \in FlatFields : MatchField(p[f], row.resource[f]))
        <=> \A f \in TableFields \cap m.columns :
              Literal(p, f) => row.resource[f] = p[f]
  BY <1>1, <1>2, <1>4, <1>5
<1> QED
  BY <1>6 DEF p

(* What group asks of the conditions of a match.                           *)
LEMMA ConditionsExact ==
  ASSUME NEW m, MapsKeys(m), NEW row, NonEmptySeq(row.resource.resource),
         InTable(m, row), NEW conds, ConditionsSupported(conds, m),
         ComparableIn(conds, row),
         NEW op \in DOMAIN conds, NEW key \in DOMAIN conds[op]
  PROVE  LET pred == CondPred(op, ColumnValue(m.conditions[key], row), conds[op][key])
         IN  /\ pred \in TruthValues
             /\ pred = "true"
                  <=> KeyPasses(op, ConditionValue(key, row.attributes, row.resource.resource),
                                conds[op][key])
<1>1. /\ key \in DOMAIN m.conditions \cap DOMAIN m.operators /\ op \in m.operators[key]
      /\ Translatable(op) /\ ValuesSupported(op, conds[op][key])
  BY DEF ConditionsSupported
<1>2. ColumnValue(m.conditions[key], row)
        = ConditionValue(key, row.attributes, row.resource.resource)
  BY <1>1, ColumnExact
<1>3. Readable(op, ConditionValue(key, row.attributes, row.resource.resource), conds[op][key])
  BY <1>1, ColumnReadable DEF ComparableIn, RowValue
<1> QED
  BY <1>1, <1>2, <1>3, ConditionExact

(* A group is true on the rows of the table its match covers.              *)
LEMMA GroupExact ==
  ASSUME NEW m, MapsKeys(m), NEW row, NonEmptySeq(row.resource.resource),
         InTable(m, row), Addressed(m, row), NEW match,
         NonEmptySeq(match.pattern.resource), match.pattern.tenant = query.tenant,
         \A op \in DOMAIN match.conditions : DOMAIN match.conditions[op] # {},
         ~Disjoint(match.pattern, m), GroupError(match, m) = NoError,
         ComparableIn(match.conditions, row)
  PROVE  Group(match, m, row) = "true" <=> Covers(match, row)
<1> DEFINE p == match.pattern
           conds == match.conditions
           path == row.resource.resource
           fields == {f \in TableFields \cap m.columns : Literal(p, f)}
           Pred(op, key) == CondPred(op, ColumnValue(m.conditions[key], row), conds[op][key])
           F == {Truth(row.resource[f] = p[f]) : f \in fields}
           C == UNION {{Pred(op, key) : key \in DOMAIN conds[op]} : op \in DOMAIN conds}
           t == TenantPred(p, m, row)
           r == ResourcePred(p.resource, m.columns, path)
<1>1. ResourceSupported(p.resource, m.columns) /\ ConditionsSupported(conds, m)
  BY DEF GroupError, NoError
<1>2. t \in TruthValues /\ (t = "true" <=> MatchTenant(p.tenant, row.resource.tenant, p.tenant))
  BY DEF TenantPred, Truth, TruthValues, MatchTenant, InTable
<1>3. r \in TruthValues /\ (r = "true" <=> MatchPath(p.resource, path))
  <2>1. r = Truth(MatchPath(p.resource, path))
    BY <1>1, ResourceExact DEF Addressed
  <2> QED
    BY <2>1 DEF Truth, TruthValues
<1>4. F \subseteq TruthValues
      /\ ((\A v \in F : v = "true") <=> \A f \in FlatFields : MatchField(p[f], row.resource[f]))
  <2>1. F \subseteq TruthValues
    BY DEF Truth, TruthValues
  <2>2. (\A v \in F : v = "true") <=> \A f \in fields : row.resource[f] = p[f]
    BY DEF Truth
  <2>3. (\A f \in FlatFields : MatchField(p[f], row.resource[f]))
          <=> \A f \in fields : row.resource[f] = p[f]
    BY FieldsExact
  <2> QED
    BY <2>1, <2>2, <2>3
<1>5. C \subseteq TruthValues
      /\ ((\A v \in C : v = "true") <=> EvalConditions(conds, row.attributes, path))
  <2>1. ASSUME NEW op \in DOMAIN conds, NEW key \in DOMAIN conds[op]
        PROVE  /\ Pred(op, key) \in TruthValues
               /\ Pred(op, key) = "true"
                    <=> KeyPasses(op, ConditionValue(key, row.attributes, path), conds[op][key])
    BY <1>1, <2>1, ConditionsExact
  <2>2. \A op \in DOMAIN conds : Known(op)
    BY <1>1 DEF ConditionsSupported, Translatable
  <2>3. \A v : v \in C <=> \E op \in DOMAIN conds : \E key \in DOMAIN conds[op] :
                           v = Pred(op, key)
    OBVIOUS
  <2> HIDE DEF C, Pred
  <2>4. C \subseteq TruthValues
    BY <2>1, <2>3
  <2>5. (\A v \in C : v = "true")
          <=> \A op \in DOMAIN conds : \A key \in DOMAIN conds[op] : Pred(op, key) = "true"
    BY <2>3
  <2>6. EvalConditions(conds, row.attributes, path)
          <=> \A op \in DOMAIN conds : \A key \in DOMAIN conds[op] :
                KeyPasses(op, ConditionValue(key, row.attributes, path), conds[op][key])
    BY <2>2 DEF EvalConditions
  <2> HIDE DEF conds, path
  <2> QED
    BY <2>1, <2>4, <2>5, <2>6
<1>6. Group(match, m, row) = And({t} \cup F \cup {r} \cup C)
  BY DEF Group
<1>7. Covers(match, row)
        <=> /\ MatchTenant(p.tenant, row.resource.tenant, p.tenant)
            /\ \A f \in FlatFields : MatchField(p[f], row.resource[f])
            /\ MatchPath(p.resource, path)
            /\ EvalConditions(conds, row.attributes, path)
  BY DEF Covers, PatternMatches
<1> HIDE DEF p, conds, path, F, C, t, r
<1>8. Group(match, m, row) = "true" <=> \A v \in {t} \cup F \cup {r} \cup C : v = "true"
  <2>1. {t} \cup F \cup {r} \cup C \subseteq TruthValues
    BY <1>2, <1>3, <1>4, <1>5
  <2> QED
    BY <1>6, <2>1, AndIs
<1> QED
  BY <1>2, <1>3, <1>4, <1>5, <1>7, <1>8
-----------------------------------------------------------------------------
(* When Where reports no error, no group it built has one.                 *)
LEMMA NoErrorInGroups ==
  ASSUME NEW matches, NEW S, matches \in Seq(S), NEW m, FirstError(matches, m) = NoError,
         NEW match \in Contributing(matches, m)
  PROVE  GroupError(match, m) = NoError
<1> DEFINE failing == {n \in DOMAIN matches : /\ ~Disjoint(matches[n].pattern, m)
                                               /\ GroupError(matches[n], m) # NoError}
           first == CHOOSE n \in failing : \A l \in failing : n <= l
<1>1. PICK x \in DOMAIN matches : match = matches[x] /\ ~Disjoint(matches[x].pattern, m)
  BY DEF Contributing, Range
<1>2. SUFFICES ASSUME failing # {} PROVE FALSE
  BY <1>1
<1>3. failing \subseteq Nat
  OBVIOUS
<1>4. FirstError(matches, m) = GroupError(matches[first], m)
  BY <1>2 DEF FirstError
<1>5. first \in failing
  <2> HIDE DEF failing
  <2>1. \E n \in failing : \A l \in failing : n <= l
    BY <1>2, <1>3, FirstPosition
  <2> QED
    BY <2>1
<1> HIDE DEF first
<1>6. GroupError(matches[first], m) # NoError
  BY <1>5
<1> QED
  BY <1>4, <1>6

(* A marker that is absent, or another one, shows no row.                  *)
LEMMA UnmarkedRow ==
  ASSUME NEW row \in Rows, ~IsPublished(row)
  PROVE  MarkerPred(row) # "true"
BY RowAssumption DEF MarkerPred, IsPublished, Absent, Present, Truth

(* The clause is true on the rows the constraints select, when the groups  *)
(* of both lists are exact.                                                *)
LEMMA ClauseExact ==
  ASSUME NEW c, NEW m, NEW row \in Rows, ~IsPublished(row), WhereError(c, m) = NoError,
         NEW S, c.allow \in Seq(S), c.deny \in Seq(S),
         \A match \in Range(c.allow) \cup Range(c.deny) :
           IF Disjoint(match.pattern, m) THEN ~Covers(match, row)
           ELSE GroupError(match, m) = NoError =>
                  (Group(match, m, row) = "true" <=> Covers(match, row))
  PROVE  Listed(c, m, row) <=> Selected(c, row)
<1> DEFINE some(list) == \E match \in Range(list) : Covers(match, row)
<1>1. /\ FirstError(c.allow, m) = NoError
      /\ ~Closed(c, m) => FirstError(c.deny, m) = NoError
  BY DEF WhereError, NoError
<1>2. ASSUME NEW list \in {c.allow, c.deny}, FirstError(list, m) = NoError
      PROVE  OrGroups(list, m, row) = "true" <=> some(list)
  <2>1. OrGroups(list, m, row) = "true"
          <=> \E match \in Contributing(list, m) : Group(match, m, row) = "true"
    <3> DEFINE G == {Group(x, m, row) : x \in Contributing(list, m)}
    <3>1. "true" \in G <=> \E match \in Contributing(list, m) : Group(match, m, row) = "true"
      OBVIOUS
    <3> HIDE DEF G
    <3>2. Or(G) = "true" <=> "true" \in G
      BY OrIs
    <3> QED
      BY <3>1, <3>2 DEF OrGroups, G
  <2>2. \A match \in Contributing(list, m) : GroupError(match, m) = NoError
    BY <1>2, NoErrorInGroups
  <2>3. \A match : match \in Contributing(list, m)
                     <=> match \in Range(list) /\ ~Disjoint(match.pattern, m)
    BY DEF Contributing
  <2> QED
    BY <2>1, <2>2, <2>3
<1>3. CASE Closed(c, m)
  <2>1. ~some(c.allow)
    BY <1>3 DEF Closed, Contributing
  <2>2. Where(c, m, row) = "false"
    BY <1>3 DEF Where
  <2> QED
    BY <2>1, <2>2 DEF Listed, Selected
<1>4. CASE ~Closed(c, m)
  <2> DEFINE allow == OrGroups(c.allow, m, row)
             deny == OrGroups(c.deny, m, row)
             widened == IF m.published THEN Or({allow, MarkerPred(row)}) ELSE allow
  <2>1. allow = "true" <=> some(c.allow)
    BY <1>1, <1>2
  <2>2. deny = "true" <=> some(c.deny)
    BY <1>1, <1>2, <1>4
  <2>3. Where(c, m, row) = And({widened, IsNotTrue(deny)})
    BY <1>4 DEF Where
  <2>4. allow \in TruthValues /\ deny \in TruthValues
    BY OrIs DEF OrGroups
  <2> HIDE DEF allow, deny
  <2>5. widened \in TruthValues /\ (widened = "true" <=> allow = "true")
    BY <2>4, UnmarkedRow, OrIs
  <2>6. IsNotTrue(deny) \in TruthValues /\ (IsNotTrue(deny) = "true" <=> deny # "true")
    BY DEF IsNotTrue, Truth, TruthValues
  <2> HIDE DEF widened
  <2>7. And({widened, IsNotTrue(deny)}) = "true"
          <=> widened = "true" /\ IsNotTrue(deny) = "true"
    <3> DEFINE both == {widened, IsNotTrue(deny)}
    <3>1. both \subseteq TruthValues
      BY <2>5, <2>6
    <3>2. (\A v \in both : v = "true") <=> widened = "true" /\ IsNotTrue(deny) = "true"
      OBVIOUS
    <3> HIDE DEF both
    <3>3. And(both) = "true" <=> \A v \in both : v = "true"
      BY <3>1, AndIs
    <3> QED
      BY <3>2, <3>3 DEF both
  <2> QED
    BY <2>1, <2>2, <2>3, <2>5, <2>6, <2>7 DEF Listed, Selected
<1> QED
  BY <1>3, <1>4
-----------------------------------------------------------------------------
(* The table's mapping, once there is one, is one of the service's or its  *)
(* completion, and the constraints are final.                              *)
Mapped ==
  mapping # NoMapping =>
    /\ pc = "done"
    /\ \E m \in Mappings : mapping \in {m, WithPostgresPathConditions(m, out)}

(* A list endpoint only uses Constrain, so what is proved of Constrain     *)
(* holds while a query is answered.                                        *)
THEOREM ListingConstrains == ListSpec => Spec
<1>1. ListInit => Init
  BY DEF ListInit
<1>2. [ListNext]_listVars => [Next]_vars
  BY DEF ListNext, listVars, Query, Translate, Walk, Prefixes, Start, StartMatch,
         WalkOperator, FoldKey, LastKey, FinishMatch, FinishSide, Answer, Next
<1> QED
  BY <1>1, <1>2, PTL DEF ListSpec, Spec

LEMMA MappedInv == ListSpec => []Mapped
<1>1. ListInit => Mapped
  BY DEF ListInit, Mapped
<1>2. Mapped /\ [ListNext]_listVars => Mapped'
  <2> SUFFICES ASSUME Mapped, [ListNext]_listVars PROVE Mapped'
    OBVIOUS
  <2>1. CASE Query
    BY <2>1 DEF Query, Mapped, Receive, Call, Collect, RejectAction, SkipStatement,
       EnterStatement, KeepPattern, DropPattern, LeaveStatement, ReturnConstraints,
       AtStatement, AtPattern
  <2>2. CASE Translate
    BY <2>2 DEF Translate, Mapped, vars
  <2>3. CASE Walk
    BY <2>3 DEF Walk, Mapped
  <2>4. CASE Answer
    BY <2>4 DEF Answer, Mapped
  <2>5. CASE UNCHANGED listVars
    BY <2>5 DEF listVars, Mapped, vars
  <2> QED
    BY <2>1, <2>2, <2>3, <2>4, <2>5 DEF ListNext
<1> QED
  BY <1>1, <1>2, PTL DEF ListSpec

(* A match that Constrain collected has a pattern of the receiver's, and   *)
(* no operator without a key.                                              *)
LEMMA CollectedShape ==
  ASSUME IInv, pc = "done", NEW e \in Effects, NEW match \in Range(out[e])
  PROVE  /\ NonEmptySeq(match.pattern.resource) /\ match.pattern.tenant = query.tenant
         /\ \A op \in DOMAIN match.conditions : DOMAIN match.conditions[op] # {}
<1>0. PICK a \in 1..Len(statements) :
        \E n \in 1..Len(statements[a].patterns) : match = Emitted(statements[a], n, query)
  BY CollectedMatch
<1>1. PICK n \in 1..Len(statements[a].patterns) : match = Emitted(statements[a], n, query)
  BY <1>0
<1>2. match.conditions = Residual(statements[a].conditions, query.context)
      /\ match.pattern = WithTenant(statements[a].patterns[n], query.tenant)
  BY <1>1 DEF Emitted
<1>3. \A op \in DOMAIN match.conditions : DOMAIN match.conditions[op] # {}
  BY <1>2, ResidualParts
<1>4. statements \in Compilations /\ a \in DOMAIN statements
      /\ n \in DOMAIN statements[a].patterns
      /\ DOMAIN statements[a].patterns[n] = FlatFields \cup {"tenant", "resource"}
  BY CompilationAssumption, Receiver DEF IInv, Bound
<1>5. match.pattern.resource = statements[a].patterns[n].resource
      /\ match.pattern.tenant = query.tenant
  BY <1>2, <1>4 DEF WithTenant
<1> QED
  BY <1>3, <1>4, <1>5, PatternAssumption

(* The rows without a marker that a query shows are the rows Decide allows *)
(* one by one, as long as LIKE and the order of the numbers mean the same  *)
(* to the database (the property ListAgreesWithGate).                      *)
THEOREM ListIsGate == ListSpec => []ListAgreesWithGate
<1>1. IInv /\ Mapped /\ FilterAgreesWithGate => ListAgreesWithGate
  <2> SUFFICES ASSUME IInv, Mapped, FilterAgreesWithGate, Answered, NEW row \in Rows,
                      LikesPlainText(row), ComparesNumbers(row),
                      InTable(mapping, row), Addressed(mapping, row), ~IsPublished(row)
               PROVE  Listed(out, mapping, row)
                        <=> Permitted(Range(statements), GateRequest(query, row))
    BY DEF ListAgreesWithGate, AgreesOn
  <2>1. pc = "done" /\ WhereError(out, mapping) = NoError /\ MapsKeys(mapping)
    BY Completed DEF Answered, Mapped
  <2>2. /\ "allow" \in Effects /\ "deny" \in Effects
        /\ out["allow"] \in Seq(AllMatches) /\ out["deny"] \in Seq(AllMatches)
    BY DEF IInv, OutOK, Effects
  <2>3. ASSUME NEW match \in Range(out.allow) \cup Range(out.deny)
        PROVE  ComparableIn(match.conditions, row)
    BY DEF LikesPlainText, ComparesNumbers, ForAllCompared, ComparableIn, Comparable
  <2>4. ASSUME NEW e \in Effects, NEW match \in Range(out[e])
        PROVE  IF Disjoint(match.pattern, mapping) THEN ~Covers(match, row)
               ELSE GroupError(match, mapping) = NoError =>
                      (Group(match, mapping, row) = "true" <=> Covers(match, row))
    <3>1. NonEmptySeq(row.resource.resource)
      BY RowAssumption
    <3>2. ComparableIn(match.conditions, row)
      BY <2>3 DEF Effects
    <3> QED
      BY <2>1, <3>1, <3>2, CollectedShape, DisjointCoversNone, GroupExact
  <2>5. Listed(out, mapping, row) <=> Selected(out, row)
    BY <2>1, <2>2, <2>4, ClauseExact
  <2> QED
    BY <2>1, <2>5 DEF FilterAgreesWithGate
<1> QED
  BY <1>1, ListingConstrains, Invariance, FilterIsGate, MappedInv, PTL

(* To another tenant, the query shows all published rows of a table whose  *)
(* tenant has a column, or none (the property PublishedAllOrNothing): the  *)
(* marker lets every one of them in, and no deny is about their tenant.    *)
THEOREM MarkerIsAllOrNothing == ListSpec => []PublishedAllOrNothing
<1>1. IInv /\ Mapped => PublishedAllOrNothing
  <2> SUFFICES ASSUME IInv, Mapped, Answered, mapping.published, ~mapping.tenantAnswered,
                      NEW row \in Rows, IsPublished(row),
                      row.resource.tenant # query.tenant
               PROVE  Listed(out, mapping, row) <=> ~Closed(out, mapping)
    BY DEF PublishedAllOrNothing
  <2> DEFINE deny == OrGroups(out.deny, mapping, row)
             allow == OrGroups(out.allow, mapping, row)
  <2>1. MarkerPred(row) = "true"
    BY DEF MarkerPred, IsPublished, Absent, Present, Truth
  <2>2. ASSUME NEW match \in Range(out.deny)
        PROVE  Group(match, mapping, row) = "false"
    <3>1. match.pattern.tenant = query.tenant
      BY <2>2, CollectedShape DEF Answered, Effects
    <3>2. TenantPred(match.pattern, mapping, row) = "false"
      BY <3>1 DEF TenantPred, Truth
    <3> QED
      BY <3>2, AndIs DEF Group
  <2>3. deny # "true"
    <3> DEFINE G == {Group(x, mapping, row) : x \in Contributing(out.deny, mapping)}
    <3>1. "true" \notin G
      BY <2>2 DEF Contributing
    <3> HIDE DEF G
    <3> QED
      BY <3>1, OrIs DEF OrGroups, G
  <2>4. Or({allow, MarkerPred(row)}) = "true"
    BY <2>1, OrIs
  <2>5. And({"true"}) = "true" /\ IsNotTrue(deny) = "true"
    BY <2>3, AndIs DEF IsNotTrue, Truth, TruthValues
  <2>6. ~Closed(out, mapping) => Where(out, mapping, row) = "true"
    BY <2>4, <2>5 DEF Where
  <2>7. Closed(out, mapping) => Where(out, mapping, row) = "false"
    BY DEF Where
  <2> QED
    BY <2>6, <2>7 DEF Listed
<1> QED
  BY <1>1, ListingConstrains, Invariance, MappedInv, PTL
-----------------------------------------------------------------------------
(* How a glob splits a path.                                               *)
CutOf(g, path, a) ==
  /\ a \in [0..Len(g) -> 0..Len(path)] /\ a[0] = 0 /\ a[Len(g)] = Len(path)
  /\ \A x \in 1..Len(g) : Consumes(PathWildcards, g[x], path, a[x-1], a[x])

LEMMA MatchIsCut ==
  ASSUME NEW g, NEW path
  PROVE  MatchPath(g, path) <=> \E a : CutOf(g, path, a)
BY DEF MatchPath, Matches, SuffixMatches, CutOf

LEMMA FixedWidthIs ==
  ASSUME NEW g, NonEmptySeq(g)
  PROVE  /\ FixedWidth(g) \in 0..Len(g)
         /\ \A x \in 1..FixedWidth(g) : g[x] # DeepWildcard
         /\ FixedWidth(g) < Len(g) => g[FixedWidth(g) + 1] = DeepWildcard
<1> DEFINE deep == {n \in DOMAIN g : g[n] = DeepWildcard}
           least == CHOOSE n \in deep : \A l \in deep : n <= l
<1>1. DOMAIN g = 1..Len(g) /\ Len(g) \in Nat /\ deep \subseteq Nat
  BY DEF NonEmptySeq
<1>2. CASE deep = {}
  BY <1>1, <1>2 DEF FixedWidth
<1>3. CASE deep # {}
  <2>1. FixedWidth(g) = least - 1
    BY <1>3 DEF FixedWidth
  <2>2. least \in deep /\ \A l \in deep : least <= l
    <3> HIDE DEF deep
    <3>1. \E n \in deep : \A l \in deep : n <= l
      BY <1>1, <1>3, FirstPosition
    <3> QED
      BY <3>1
  <2> HIDE DEF least
  <2> QED
    BY <1>1, <2>1, <2>2
<1> QED
  BY <1>2, <1>3

(* Up to the first "**" the tokens stand one for one for the segments.     *)
LEMMA FixedTokens ==
  ASSUME NEW g, NonEmptySeq(g), NEW path, NonEmptySeq(path),
         NEW a, CutOf(g, path, a),
         NEW m \in 0..Len(g), \A x \in 1..m : g[x] # DeepWildcard
  PROVE  /\ m <= Len(path)
         /\ \A x \in 0..m : a[x] = x
         /\ \A x \in 1..m : g[x] \in {Wildcard, path[x]}
<1>1. Len(g) \in Nat /\ Len(path) \in Nat
  BY DEF NonEmptySeq
<1>2. FixedUpTo(m, a, g, path) /\ a \in [0..Len(g) -> 0..Len(path)]
  BY <1>1 DEF CutOf, FixedUpTo
<1>3. /\ \A x \in 0..m : a[x] = x
      /\ \A x \in 1..m : g[x] \in {Wildcard, path[x]}
  BY <1>1, <1>2, FixedCut
<1>4. a[m] = m /\ a[m] \in 0..Len(path)
  BY <1>1, <1>2, <1>3
<1> QED
  BY <1>1, <1>3, <1>4

(* Only a glob without "**" has the length of its paths.                   *)
LEMMA NoDeep ==
  ASSUME NEW g, NonEmptySeq(g), NEW path, NonEmptySeq(path), MatchPath(g, path),
         FixedWidth(g) = Len(g)
  PROVE  Len(path) = Len(g)
<1>1. PICK a : CutOf(g, path, a)
  BY MatchIsCut
<1>2. Len(g) \in Nat
  BY DEF NonEmptySeq
<1>3. \A x \in 1..Len(g) : g[x] # DeepWildcard
  BY FixedWidthIs
<1>4. \A x \in 0..Len(g) : a[x] = x
  BY <1>1, <1>2, <1>3, FixedTokens
<1> QED
  BY <1>1, <1>2, <1>4 DEF CutOf

(* A glob with one "**", at its end.                                       *)
LEMMA TrailingDeep ==
  ASSUME NEW g, NonEmptySeq(g), NEW path, NonEmptySeq(path),
         g[Len(g)] = DeepWildcard,
         \A x \in 1..(Len(g) - 1) : g[x] # DeepWildcard
  PROVE  MatchPath(g, path)
           <=> /\ Len(g) - 1 <= Len(path)
               /\ \A x \in 1..(Len(g) - 1) : g[x] \in {Wildcard, path[x]}
<1>1. Len(g) \in Nat \ {0} /\ Len(path) \in Nat
  BY DEF NonEmptySeq
<1>2. ASSUME MatchPath(g, path)
      PROVE  /\ Len(g) - 1 <= Len(path)
             /\ \A x \in 1..(Len(g) - 1) : g[x] \in {Wildcard, path[x]}
  <2>1. PICK a : CutOf(g, path, a)
    BY <1>2, MatchIsCut
  <2>2. Len(g) - 1 \in 0..Len(g)
    BY <1>1
  <2> QED
    BY <2>1, <2>2, FixedTokens
<1>3. ASSUME Len(g) - 1 <= Len(path),
             \A x \in 1..(Len(g) - 1) : g[x] \in {Wildcard, path[x]}
      PROVE  MatchPath(g, path)
  <2> DEFINE a == [x \in 0..Len(g) |-> IF x = Len(g) THEN Len(path) ELSE x]
  <2>1. a \in [0..Len(g) -> 0..Len(path)] /\ a[0] = 0 /\ a[Len(g)] = Len(path)
    BY <1>1, <1>3
  <2>2. ASSUME NEW x \in 1..Len(g)
        PROVE  Consumes(PathWildcards, g[x], path, a[x-1], a[x])
    BY <1>1, <1>3 DEF Consumes, PathWildcards
  <2>3. CutOf(g, path, a)
    BY <2>1, <2>2 DEF CutOf
  <2> QED
    BY <2>3, MatchIsCut
<1> QED
  BY <1>2, <1>3
-----------------------------------------------------------------------------
(* pin, before any "**": a literal for the wildcard.                       *)
LEMMA PinWildcard ==
  ASSUME NEW g, NonEmptySeq(g), NEW path, NonEmptySeq(path),
         NEW n \in Nat, n < FixedWidth(g), g[n + 1] = Wildcard,
         NEW v, v \notin Starred
  PROVE  /\ NonEmptySeq([g EXCEPT ![n + 1] = v])
         /\ MatchPath([g EXCEPT ![n + 1] = v], path)
              <=> MatchPath(g, path) /\ n < Len(path) /\ path[n + 1] = v
<1> DEFINE h == [g EXCEPT ![n + 1] = v]
<1>1. Len(g) \in Nat \ {0} /\ Len(path) \in Nat /\ g \in Seq(Range(g)) /\ DOMAIN g = 1..Len(g)
  BY DEF NonEmptySeq
<1>2. n + 1 \in 1..FixedWidth(g) /\ n + 1 \in 0..Len(g) /\ n + 1 \in 1..Len(g)
  BY <1>1, FixedWidthIs
<1>3. v # Wildcard /\ v # DeepWildcard
  BY StarredAssumption
<1>4. /\ DOMAIN h = 1..Len(g) /\ h[n + 1] = v
      /\ \A x \in 1..Len(g) : x # n + 1 => h[x] = g[x]
  BY <1>1, <1>2
<1>5. h = [x \in 1..Len(g) |-> h[x]]
  BY <1>1
<1> HIDE DEF h
<1>6. h \in Seq(Range(h)) /\ Len(h) = Len(g)
  <2>1. \A x \in 1..Len(g) : h[x] \in Range(h)
    BY <1>4 DEF Range
  <2>2. h \in [1..Len(g) -> Range(h)]
    BY <1>5, <2>1
  <2> QED
    BY <1>1, <2>2
<1>7. NonEmptySeq(h)
  BY <1>1, <1>6 DEF NonEmptySeq
<1>8. /\ \A x \in 1..(n + 1) : g[x] # DeepWildcard
      /\ \A x \in 1..(n + 1) : h[x] # DeepWildcard
  <2>1. FixedWidth(g) \in Nat /\ \A x \in 1..FixedWidth(g) : g[x] # DeepWildcard
    BY <1>1, FixedWidthIs
  <2>2. \A x \in 1..(n + 1) : x \in 1..FixedWidth(g) /\ x \in 1..Len(g)
    BY <1>1, <1>2, <2>1
  <2>3. \A x \in 1..(n + 1) : g[x] # DeepWildcard
    BY <2>1, <2>2
  <2>4. \A x \in 1..(n + 1) : h[x] # DeepWildcard
    BY <1>3, <1>4, <2>2, <2>3
  <2> QED
    BY <2>3, <2>4
<1>9. ASSUME MatchPath(h, path)
      PROVE  MatchPath(g, path) /\ n < Len(path) /\ path[n + 1] = v
  <2>1. PICK a : CutOf(h, path, a)
    BY <1>9, MatchIsCut
  <2>2. /\ n + 1 <= Len(path) /\ \A x \in 0..(n + 1) : a[x] = x
        /\ \A x \in 1..(n + 1) : h[x] \in {Wildcard, path[x]}
    BY <1>2, <1>6, <1>7, <1>8, <2>1, FixedTokens
  <2>3. n + 1 \in 1..(n + 1) /\ a[n] = n /\ a[n + 1] = n + 1 /\ n + 1 - 1 = n
    BY <2>2
  <2>4. path[n + 1] = v
    BY <1>3, <1>4, <2>2, <2>3
  <2>5. ASSUME NEW x \in 1..Len(g)
        PROVE  Consumes(PathWildcards, g[x], path, a[x-1], a[x])
    <3>1. CASE x = n + 1
      BY <2>3, <3>1, <1>8 DEF Consumes, PathWildcards
    <3>2. CASE x # n + 1
      BY <1>4, <1>6, <2>1, <3>2 DEF CutOf
    <3> QED
      BY <3>1, <3>2
  <2>6. CutOf(g, path, a)
    BY <1>6, <2>1, <2>5 DEF CutOf
  <2> QED
    BY <1>1, <2>2, <2>4, <2>6, MatchIsCut
<1>10. ASSUME MatchPath(g, path), n < Len(path), path[n + 1] = v
       PROVE  MatchPath(h, path)
  <2>1. PICK a : CutOf(g, path, a)
    BY <1>10, MatchIsCut
  <2>2. \A x \in 0..(n + 1) : a[x] = x
    BY <1>2, <1>8, <2>1, FixedTokens
  <2>3. a[n] = n /\ a[n + 1] = n + 1 /\ n + 1 - 1 = n
    BY <2>2
  <2>5. ASSUME NEW x \in 1..Len(h)
        PROVE  Consumes(PathWildcards, h[x], path, a[x-1], a[x])
    <3>1. CASE x = n + 1
      BY <1>3, <1>4, <1>10, <2>3, <3>1 DEF Consumes, PathWildcards
    <3>2. CASE x # n + 1
      BY <1>4, <1>6, <2>1, <3>2 DEF CutOf
    <3> QED
      BY <3>1, <3>2
  <2>6. CutOf(h, path, a)
    BY <1>6, <2>1, <2>5 DEF CutOf
  <2> QED
    BY <2>6, MatchIsCut
<1> QED
  BY <1>7, <1>9, <1>10 DEF h

(* A literal that is there already selects one segment only.               *)
LEMMA PinLiteral ==
  ASSUME NEW g, NonEmptySeq(g), NEW path, NonEmptySeq(path),
         NEW n \in Nat, n < FixedWidth(g), g[n + 1] # Wildcard, MatchPath(g, path)
  PROVE  n < Len(path) /\ path[n + 1] = g[n + 1]
<1>1. PICK a : CutOf(g, path, a)
  BY MatchIsCut
<1>2. Len(g) \in Nat /\ Len(path) \in Nat
  BY DEF NonEmptySeq
<1>3. n + 1 \in 1..(n + 1) /\ n + 1 \in 0..Len(g)
      /\ \A x \in 1..(n + 1) : g[x] # DeepWildcard
  BY <1>2, FixedWidthIs
<1>4. n + 1 <= Len(path) /\ \A x \in 1..(n + 1) : g[x] \in {Wildcard, path[x]}
  BY <1>1, <1>3, FixedTokens
<1> QED
  BY <1>2, <1>3, <1>4

(* The sequence c of elements of T is s followed by t.                     *)
Joined(c, s, t, T) ==
  /\ c \in Seq(T) /\ Len(c) = Len(s) + Len(t)
  /\ \A x \in 1..Len(s) : c[x] = s[x]
  /\ \A x \in 1..Len(t) : c[Len(s) + x] = t[x]

LEMMA ConcatJoins ==
  ASSUME NEW T, NEW s \in Seq(T), NEW t \in Seq(T)
  PROVE  Joined(s \o t, s, t, T)
BY DEF Joined

(* pin, inside a trailing "**".                                            *)
Below(g, n, v) ==
  SubSeq(g, 1, FixedWidth(g)) \o [l \in 1..(n - FixedWidth(g)) |-> Wildcard]
    \o <<v, DeepWildcard>>

LEMMA PinTrailing ==
  ASSUME NEW g, NonEmptySeq(g), NEW path, NonEmptySeq(path),
         NEW n \in Nat, FixedWidth(g) <= n, FixedWidth(g) = Len(g) - 1,
         NEW v, v \notin Starred
  PROVE  /\ NonEmptySeq(Below(g, n, v))
         /\ MatchPath(Below(g, n, v), path)
              <=> MatchPath(g, path) /\ n < Len(path) /\ path[n + 1] = v
<1> DEFINE h == Below(g, n, v)
           w == FixedWidth(g)
           T == Range(g) \cup {Wildcard, v, DeepWildcard}
           head == SubSeq(g, 1, w)
           pad == [l \in 1..(n - w) |-> Wildcard]
<1>1. Len(g) \in Nat \ {0} /\ Len(path) \in Nat /\ g \in Seq(T) /\ w \in Nat /\ w <= n
      /\ w = Len(g) - 1
  <2>1. g \in Seq(Range(g)) /\ g # <<>> /\ Range(g) \subseteq T
    BY DEF NonEmptySeq
  <2> HIDE DEF T
  <2>2. g \in Seq(T)
    BY <2>1
  <2> QED
    BY <2>1, <2>2, FixedWidthIs DEF NonEmptySeq
<1>2. v # Wildcard /\ v # DeepWildcard /\ Wildcard # DeepWildcard
  BY StarredAssumption DEF Wildcard, DeepWildcard
<1>t. Wildcard \in T /\ v \in T /\ DeepWildcard \in T
  OBVIOUS
<1> HIDE DEF w, T
<1>3. head \in Seq(T) /\ Len(head) = w /\ \A x \in 1..w : head[x] = g[x]
  BY <1>1
<1>4. pad \in Seq(T) /\ Len(pad) = n - w /\ \A x \in 1..(n - w) : pad[x] = Wildcard
  BY <1>1, <1>t
<1> HIDE DEF head, pad
<1>5. h = (head \o pad) \o <<v, DeepWildcard>>
  BY DEF head, pad, w, Below
<1> HIDE DEF h
<1>6. /\ h \in Seq(T) /\ Len(h) = n + 2
      /\ \A x \in 1..w : h[x] = g[x]
      /\ \A x \in (w + 1)..n : h[x] = Wildcard
      /\ h[n + 1] = v /\ h[n + 2] = DeepWildcard
  <2> DEFINE hp == head \o pad
             end == <<v, DeepWildcard>>
  <2>1. /\ hp \in Seq(T) /\ Len(hp) = n
        /\ \A x \in 1..w : hp[x] = g[x]
        /\ \A x \in (w + 1)..n : hp[x] = Wildcard
    <3>1. /\ hp \in Seq(T) /\ Len(hp) = w + (n - w)
          /\ \A x \in 1..w : hp[x] = head[x]
          /\ \A x \in 1..(n - w) : hp[w + x] = pad[x]
      <4>1. Joined(hp, head, pad, T)
        BY <1>3, <1>4, ConcatJoins
      <4> HIDE DEF hp
      <4> QED
        BY <1>3, <1>4, <4>1 DEF Joined
    <3> HIDE DEF hp
    <3>2. ASSUME NEW x \in (w + 1)..n
          PROVE  hp[x] = Wildcard
      <4>1. x - w \in 1..(n - w) /\ w + (x - w) = x
        BY <1>1
      <4> QED
        BY <1>4, <3>1, <4>1
    <3>3. Len(hp) = n /\ \A x \in 1..w : hp[x] = g[x]
      BY <1>1, <1>3, <3>1
    <3> QED
      BY <3>1, <3>2, <3>3
  <2>2. end \in Seq(T) /\ Len(end) = 2 /\ end[1] = v /\ end[2] = DeepWildcard
    BY <1>t
  <2> HIDE DEF hp, end
  <2>3. h = hp \o end
    BY <1>5 DEF hp, end
  <2>4. h \in Seq(T) /\ Len(h) = n + 2 /\ h[n + 1] = v /\ h[n + 2] = DeepWildcard
        /\ \A x \in 1..n : h[x] = hp[x]
    <3>1. Joined(h, hp, end, T)
      BY <2>1, <2>2, <2>3, ConcatJoins
    <3> QED
      BY <2>1, <2>2, <3>1 DEF Joined
  <2> QED
    BY <1>1, <2>1, <2>4
<1>7. NonEmptySeq(h)
  <2>1. DOMAIN h = 1..(n + 2) /\ h = [x \in 1..(n + 2) |-> h[x]]
    BY <1>6
  <2>2. \A x \in 1..(n + 2) : h[x] \in Range(h)
    BY <2>1 DEF Range
  <2>3. h \in [1..(n + 2) -> Range(h)] /\ n + 2 \in Nat
    BY <2>1, <2>2
  <2>4. h \in Seq(Range(h))
    BY <2>3
  <2> QED
    BY <1>6, <2>4 DEF NonEmptySeq
<1>8. /\ \A x \in 1..(Len(g) - 1) : g[x] # DeepWildcard
      /\ g[Len(g)] = DeepWildcard
  BY <1>1, FixedWidthIs DEF w
<1>9. MatchPath(g, path)
        <=> w <= Len(path) /\ \A x \in 1..w : g[x] \in {Wildcard, path[x]}
  BY <1>1, <1>8, TrailingDeep
<1>10. MatchPath(h, path)
         <=> n + 1 <= Len(path) /\ \A x \in 1..(n + 1) : h[x] \in {Wildcard, path[x]}
  <2>1. Len(h) - 1 = n + 1
    BY <1>6
  <2>2. \A x \in 1..(n + 1) : h[x] # DeepWildcard
    <3> TAKE x \in 1..(n + 1)
    <3>1. CASE x \in 1..w
      BY <1>1, <1>6, <1>8, <3>1
    <3>2. CASE x \in (w + 1)..n
      BY <1>2, <1>6, <3>2
    <3>3. CASE x = n + 1
      BY <1>2, <1>6, <3>3
    <3> QED
      BY <1>1, <3>1, <3>2, <3>3
  <2>3. h[Len(h)] = DeepWildcard
    BY <1>6
  <2> QED
    BY <1>7, <2>1, <2>2, <2>3, TrailingDeep
<1> QED
  BY <1>1, <1>2, <1>6, <1>7, <1>9, <1>10 DEF h
-----------------------------------------------------------------------------
SomeMatches(gs, row) == \E g \in gs : MatchPath(g, row.resource.resource)

(* The condition on segment n that pin folds into a glob.                  *)
HasSegment(path, n, values) == n < Len(path) /\ path[n + 1] \in values

(* Where pin does not fail, its globs are globs,                           *)
LEMMA PinShape ==
  ASSUME NEW g, NonEmptySeq(g), NEW n \in Nat, NEW values, ~PinFails(g, n, values),
         NEW h \in Pin(g, n, values)
  PROVE  NonEmptySeq(h)
<1>1. /\ values \cap Starred = {} /\ FixedWidth(g) \in 0..Len(g) /\ Len(g) \in Nat
      /\ FixedWidth(g) <= n => FixedWidth(g) >= Len(g) - 1
  BY FixedWidthIs DEF PinFails, NonEmptySeq
<1>2. CASE n < FixedWidth(g) /\ g[n + 1] = Wildcard
  <2>1. PICK v \in values : h = [g EXCEPT ![n + 1] = v]
    BY <1>2 DEF Pin
  <2> QED
    BY <1>1, <1>2, <2>1, PinWildcard
<1>3. CASE n < FixedWidth(g) /\ g[n + 1] # Wildcard
  BY <1>3 DEF Pin
<1>4. CASE ~(n < FixedWidth(g))
  <2>1. FixedWidth(g) <= n /\ FixedWidth(g) # Len(g)
    BY <1>1, <1>4 DEF Pin
  <2>2. FixedWidth(g) = Len(g) - 1
    BY <1>1, <2>1
  <2>3. PICK v \in values : h = Below(g, n, v)
    BY <1>4, <2>1 DEF Pin, PinInside, Below
  <2> QED
    BY <1>1, <2>1, <2>2, <2>3, PinTrailing
<1> QED
  BY <1>2, <1>3, <1>4

(* and they match the paths of the glob with one of the values in place.   *)
LEMMA PinExact ==
  ASSUME NEW g, NonEmptySeq(g), NEW path, NonEmptySeq(path),
         Range(path) \cap Slashed = {}, NEW n \in Nat, NEW values,
         ~PinFails(g, n, values)
  PROVE  (\E h \in Pin(g, n, values) : MatchPath(h, path))
           <=> MatchPath(g, path) /\ HasSegment(path, n, values)
<1>1. /\ Len(g) \in Nat \ {0} /\ Len(path) \in Nat
      /\ \A x \in 1..Len(path) : path[x] \notin Slashed
  BY DEF NonEmptySeq, Range
<1>2. /\ values \cap Starred = {}
      /\ FixedWidth(g) <= n => FixedWidth(g) >= Len(g) - 1
      /\ FixedWidth(g) \in 0..Len(g)
  BY <1>1, FixedWidthIs DEF PinFails
<1>3. n < Len(path) => path[n + 1] \notin Slashed
  BY <1>1
<1>4. CASE n < FixedWidth(g) /\ g[n + 1] = Wildcard
  <2>1. Pin(g, n, values) = {[g EXCEPT ![n + 1] = v] : v \in values \ Slashed}
    BY <1>4 DEF Pin
  <2>2. ASSUME NEW v \in values
        PROVE  MatchPath([g EXCEPT ![n + 1] = v], path)
                 <=> MatchPath(g, path) /\ n < Len(path) /\ path[n + 1] = v
    BY <1>2, <1>4, PinWildcard
  <2> QED
    BY <1>3, <2>1, <2>2 DEF HasSegment
<1>5. CASE n < FixedWidth(g) /\ g[n + 1] # Wildcard
  <2>1. \A h : h \in Pin(g, n, values) <=> h = g /\ g[n + 1] \in values
    BY <1>5 DEF Pin
  <2>2. MatchPath(g, path) => n < Len(path) /\ path[n + 1] = g[n + 1]
    BY <1>5, PinLiteral
  <2> QED
    BY <2>1, <2>2 DEF HasSegment
<1>6. CASE ~(n < FixedWidth(g)) /\ FixedWidth(g) = Len(g)
  <2>1. Pin(g, n, values) = {}
    BY <1>6 DEF Pin
  <2>2. MatchPath(g, path) => Len(path) <= n
    BY <1>1, <1>6, NoDeep
  <2> QED
    BY <1>1, <2>1, <2>2 DEF HasSegment
<1>7. CASE ~(n < FixedWidth(g)) /\ FixedWidth(g) # Len(g)
  <2>1. Pin(g, n, values) = {Below(g, n, v) : v \in values \ Slashed}
    BY <1>7 DEF Pin, PinInside, Below
  <2>2. FixedWidth(g) <= n /\ FixedWidth(g) = Len(g) - 1
    BY <1>1, <1>2, <1>7
  <2>3. ASSUME NEW v \in values
        PROVE  MatchPath(Below(g, n, v), path)
                 <=> MatchPath(g, path) /\ n < Len(path) /\ path[n + 1] = v
    BY <1>2, <2>2, PinTrailing
  <2> QED
    BY <1>3, <2>1, <2>3 DEF HasSegment
<1> QED
  BY <1>4, <1>5, <1>6, <1>7
-----------------------------------------------------------------------------
(* pathfilter.  A match of the constraints covers a row of the store when  *)
(* its pattern matches the path and its conditions hold.                   *)
PathCovers(match, row) ==
  /\ MatchPath(match.pattern.resource, row.resource.resource)
  /\ EvalConditions(match.conditions, row.attributes, row.resource.resource)

(* The number of matches of a list that are expanded.                      *)
Expanded(e) ==
  IF e = side THEN k - 1 ELSE IF e = "allow" THEN Len(given["allow"]) ELSE 0

WalkTypes ==
  /\ stage = "none" => NotWalking
  /\ stage # "none" => pc = "done" /\ given \in {out, Narrowed(out)}
  /\ side \in Effects /\ k \in 1..(Len(given[side]) + 1)
  /\ stage \in {"operators", "keys"} => k <= Len(given[side])
  /\ stage = "done" => side = "deny" /\ k = Len(given[side]) + 1
  /\ DOMAIN prefixes = Effects /\ prefixes = [e \in Effects |-> prefixes[e]]

(* The keys of the current match that are folded into its globs.           *)
FoldedKeys ==
  IF StringEquals \in ops \/ StringEquals \notin DOMAIN Current.conditions THEN {}
  ELSE IF stage = "keys" THEN DOMAIN Current.conditions[StringEquals] \ keys
       ELSE DOMAIN Current.conditions[StringEquals]

(* The globs of the current match stand for its pattern and for the        *)
(* conditions walked so far.                                               *)
Folds ==
  stage \in {"operators", "keys"} =>
    /\ ops \subseteq DOMAIN Current.conditions
    /\ DOMAIN Current.conditions \ ops \subseteq {StringEquals}
    /\ stage = "keys" => /\ StringEquals \in DOMAIN Current.conditions \ ops
                         /\ keys \subseteq DOMAIN Current.conditions[StringEquals]
    /\ FoldedKeys \subseteq DOMAIN PathIndexOf
    /\ \A g \in globs : NonEmptySeq(g)
    /\ \A row \in Rows :
         SomeMatches(globs, row) <=>
           /\ MatchPath(Current.pattern.resource, row.resource.resource)
           /\ \A key \in FoldedKeys :
                HasSegment(row.resource.resource, PathIndexOf[key],
                           Current.conditions[StringEquals][key])

(* The globs of a list stand for its matches that are expanded.            *)
Joins ==
  stage # "none" =>
    \A e \in Effects : \A row \in Rows :
      SomeMatches(prefixes[e], row)
        <=> \E n \in 1..Expanded(e) : PathCovers(given[e][n], row)

WalkInv == WalkTypes /\ Folds /\ Joins

(* What is walked are matches that Constrain collected.                    *)
LEMMA GivenShape ==
  ASSUME IInv, pc = "done", NEW c \in {out, Narrowed(out)}, NEW e \in Effects
  PROVE  /\ Len(c[e]) \in Nat /\ DOMAIN c[e] = 1..Len(c[e])
         /\ Range(c[e]) \subseteq Range(out[e])
         /\ \A n \in 1..Len(c[e]) : NonEmptySeq(c[e][n].pattern.resource)
<1>1. c[e] \in Seq(AllMatches) /\ Range(c[e]) \subseteq Range(out[e])
  <2>1. out[e] \in Seq(AllMatches)
    BY DEF IInv, OutOK
  <2>2. CASE c = out
    BY <2>1, <2>2
  <2>3. CASE c = Narrowed(out)
    <3>1. PICK kept : Narrowed(out) = Filter(out, kept)
      BY DEF Narrowed
    <3>2. c[e] = FilterResourceMatches(out[e], kept)
      BY <2>3, <3>1 DEF Filter, Effects
    <3> QED
      BY <2>1, <3>2, FilterRange
  <2> QED
    BY <2>2, <2>3
<1>2. Len(c[e]) \in Nat /\ DOMAIN c[e] = 1..Len(c[e])
  BY <1>1
<1>3. ASSUME NEW n \in 1..Len(c[e])
      PROVE  NonEmptySeq(c[e][n].pattern.resource)
  <2>1. c[e][n] \in Range(out[e])
    BY <1>1, <1>2 DEF Range
  <2> QED
    BY <2>1, CollectedShape
<1> QED
  BY <1>1, <1>2, <1>3

LEMMA WalkInitInv == ListInit => WalkInv
<1> SUFFICES ASSUME ListInit PROVE WalkInv
  OBVIOUS
<1>1. NotWalking
  BY DEF ListInit
<1> QED
  BY <1>1 DEF NotWalking, WalkInv, WalkTypes, Folds, Joins, NoConstraints, NoGlobs, Effects

LEMMA IdleWalk == NotWalking => WalkInv
BY DEF NotWalking, WalkInv, WalkTypes, Folds, Joins, NoConstraints, NoGlobs, Effects

LEMMA StartStep == ASSUME IInv, WalkInv, Start PROVE WalkInv'
<1>1. /\ pc = "done" /\ stage = "none" /\ stage' = "match" /\ given' \in {out, Narrowed(out)}
      /\ UNCHANGED <<pc, out, side, k, ops, keys, globs, prefixes>>
  BY DEF Start, vars
<1>2. side = "allow" /\ k = 1 /\ prefixes = NoGlobs
  BY <1>1 DEF WalkInv, WalkTypes, NotWalking
<1>3. \A e \in Effects : Len(given'[e]) \in Nat
  BY <1>1, GivenShape
<1>4. WalkTypes'
  <2>1. given' \in {out', Narrowed(out)'}
    BY <1>1 DEF Narrowed
  <2> QED
    BY <1>1, <1>2, <1>3, <2>1 DEF WalkInv, WalkTypes, Effects
<1>5. Folds'
  BY <1>1 DEF Folds
<1>6. Joins'
  <2>1. \A e \in Effects : prefixes'[e] = {}
    BY <1>1, <1>2 DEF NoGlobs, Effects
  <2>2. \A e \in Effects : Expanded(e)' = 0
    BY <1>1, <1>2 DEF Expanded, Effects
  <2> QED
    BY <2>1, <2>2 DEF Joins, SomeMatches
<1> QED
  BY <1>4, <1>5, <1>6 DEF WalkInv

LEMMA StartMatchStep == ASSUME IInv, WalkInv, StartMatch PROVE WalkInv'
<1>1. /\ stage = "match" /\ k <= Len(given[side]) /\ stage' = "operators"
      /\ globs' = {Current.pattern.resource} /\ ops' = DOMAIN Current.conditions
      /\ UNCHANGED <<pc, out, given, side, k, keys, prefixes>>
  BY DEF StartMatch, vars
<1>2. Current' = Current /\ Narrowed(out)' = Narrowed(out)
  BY <1>1 DEF Current, Narrowed
<1>3. WalkTypes'
  BY <1>1, <1>2 DEF WalkInv, WalkTypes
<1>4. Joins'
  BY <1>1 DEF WalkInv, Joins, Expanded
<1>5. Folds'
  <2>1. FoldedKeys' = {}
    BY <1>1, <1>2 DEF FoldedKeys
  <2>2. NonEmptySeq(Current.pattern.resource)
    <3>1. side \in Effects /\ pc = "done" /\ given \in {out, Narrowed(out)}
          /\ k \in 1..(Len(given[side]) + 1)
      BY <1>1 DEF WalkInv, WalkTypes
    <3>2. Len(given[side]) \in Nat
      BY <3>1, GivenShape
    <3>3. k \in 1..Len(given[side])
      BY <1>1, <3>1, <3>2
    <3> QED
      BY <3>1, <3>3, GivenShape DEF Current
  <2> QED
    BY <1>1, <1>2, <2>1, <2>2 DEF Folds, SomeMatches
<1> QED
  BY <1>3, <1>4, <1>5 DEF WalkInv

LEMMA WalkOperatorStep == ASSUME WalkInv, WalkOperator PROVE WalkInv'
<1>1. PICK op \in ops :
        /\ ops' = ops \ {op}
        /\ IF op = StringEquals
           THEN stage' = "keys" /\ keys' = DOMAIN Current.conditions[op]
           ELSE stage' = "failed" /\ UNCHANGED keys
  BY DEF WalkOperator
<1>2. /\ stage = "operators"
      /\ UNCHANGED <<pc, out, given, side, k, globs, prefixes>>
  BY DEF WalkOperator, vars
<1>3. Current' = Current /\ Narrowed(out)' = Narrowed(out)
  BY <1>2 DEF Current, Narrowed
<1>4. stage' \in {"keys", "failed"}
  BY <1>1
<1>5. WalkTypes'
  BY <1>2, <1>3, <1>4 DEF WalkInv, WalkTypes
<1>6. Joins'
  BY <1>2, <1>4 DEF WalkInv, Joins, Expanded
<1>7. Folds'
  <2>1. CASE op = StringEquals
    <3>1. stage' = "keys" /\ keys' = DOMAIN Current.conditions[StringEquals]
      BY <1>1, <2>1
    <3>2. FoldedKeys = {} /\ FoldedKeys' = {}
      BY <1>1, <1>3, <2>1, <3>1 DEF FoldedKeys
    <3>3. StringEquals \in DOMAIN Current.conditions /\ StringEquals \notin ops'
          /\ ops' \subseteq DOMAIN Current.conditions
          /\ DOMAIN Current.conditions \ ops' \subseteq {StringEquals}
      BY <1>1, <1>2, <2>1 DEF WalkInv, Folds
    <3> QED
      BY <1>2, <1>3, <3>1, <3>2, <3>3 DEF WalkInv, Folds
  <2>2. CASE op # StringEquals
    BY <1>1, <2>2 DEF Folds
  <2> QED
    BY <2>1, <2>2
<1> QED
  BY <1>5, <1>6, <1>7 DEF WalkInv

LEMMA FoldKeyStep == ASSUME WalkInv, FoldKey PROVE WalkInv'
<1> DEFINE wants(key) == Current.conditions[StringEquals][key]
<1>1. PICK key \in keys :
        /\ keys' = keys \ {key}
        /\ IF Unfoldable(key) THEN stage' = "failed" /\ UNCHANGED globs
           ELSE /\ globs' = UNION {Pin(g, PathIndexOf[key], wants(key)) : g \in globs}
                /\ UNCHANGED stage
  BY DEF FoldKey
<1>2. /\ stage = "keys" /\ UNCHANGED <<pc, out, given, side, k, ops, prefixes>>
  BY DEF FoldKey, vars
<1>3. Current' = Current /\ Narrowed(out)' = Narrowed(out)
  BY <1>2 DEF Current, Narrowed
<1>4. stage' \in {"keys", "failed"}
  BY <1>1, <1>2
<1>5. WalkTypes'
  BY <1>2, <1>3, <1>4 DEF WalkInv, WalkTypes
<1>6. Joins'
  BY <1>2, <1>4 DEF WalkInv, Joins, Expanded
<1>7. CASE Unfoldable(key)
  BY <1>1, <1>5, <1>6, <1>7 DEF Folds, WalkInv
<1>8. CASE ~Unfoldable(key)
  <2>1. /\ stage' = "keys" /\ key \in DOMAIN PathIndexOf /\ PathIndexOf[key] \in Nat
        /\ \A g \in globs : ~PinFails(g, PathIndexOf[key], wants(key))
        /\ \A h : h \in globs' <=> \E g \in globs : h \in Pin(g, PathIndexOf[key], wants(key))
    BY <1>1, <1>2, <1>8, KeyAssumption DEF Unfoldable
  <2>2. /\ StringEquals \in DOMAIN Current.conditions \ ops
        /\ keys \subseteq DOMAIN Current.conditions[StringEquals]
        /\ FoldedKeys \subseteq DOMAIN PathIndexOf
        /\ \A g \in globs : NonEmptySeq(g)
    BY <1>2 DEF WalkInv, Folds
  <2>3. FoldedKeys' = FoldedKeys \cup {key}
    BY <1>1, <1>2, <1>3, <2>1, <2>2 DEF FoldedKeys
  <2>4. ASSUME NEW g \in globs, NEW row \in Rows
        PROVE  (\E h \in Pin(g, PathIndexOf[key], wants(key)) :
                  MatchPath(h, row.resource.resource))
                 <=> /\ MatchPath(g, row.resource.resource)
                     /\ HasSegment(row.resource.resource, PathIndexOf[key], wants(key))
    BY <2>1, <2>2, PinExact, RowAssumption
  <2> HIDE DEF wants
  <2>5. ASSUME NEW row \in Rows
        PROVE  SomeMatches(globs', row)
                 <=> /\ SomeMatches(globs, row)
                     /\ HasSegment(row.resource.resource, PathIndexOf[key], wants(key))
    BY <2>1, <2>4 DEF SomeMatches
  <2>6. ASSUME NEW row \in Rows
        PROVE  SomeMatches(globs, row)
                 <=> /\ MatchPath(Current.pattern.resource, row.resource.resource)
                     /\ \A l \in FoldedKeys :
                          HasSegment(row.resource.resource, PathIndexOf[l], wants(l))
    BY <1>2 DEF WalkInv, Folds, wants
  <2>7. ASSUME NEW row \in Rows
        PROVE  SomeMatches(globs', row)
                 <=> /\ MatchPath(Current.pattern.resource, row.resource.resource)
                     /\ \A l \in FoldedKeys' :
                          HasSegment(row.resource.resource, PathIndexOf[l], wants(l))
    BY <2>3, <2>5, <2>6
  <2>8. \A h \in globs' : NonEmptySeq(h)
    BY <2>1, <2>2, PinShape
  <2>9. /\ ops' \subseteq DOMAIN Current.conditions
        /\ DOMAIN Current.conditions \ ops' \subseteq {StringEquals}
        /\ keys' \subseteq DOMAIN Current.conditions[StringEquals]
    BY <1>1, <1>2, <2>2 DEF WalkInv, Folds
  <2>10. FoldedKeys' \subseteq DOMAIN PathIndexOf
    BY <2>1, <2>2, <2>3
  <2>11. Folds'
    BY <1>2, <1>3, <2>1, <2>2, <2>7, <2>8, <2>9, <2>10 DEF Folds, wants
  <2> QED
    BY <1>5, <1>6, <2>11 DEF WalkInv
<1> QED
  BY <1>7, <1>8

LEMMA LastKeyStep == ASSUME WalkInv, LastKey PROVE WalkInv'
<1>1. /\ stage = "keys" /\ keys = {} /\ stage' = "operators"
      /\ UNCHANGED <<pc, out, given, side, k, ops, keys, globs, prefixes>>
  BY DEF LastKey, vars
<1>2. Current' = Current /\ Narrowed(out)' = Narrowed(out)
  BY <1>1 DEF Current, Narrowed
<1>3. WalkTypes'
  BY <1>1, <1>2 DEF WalkInv, WalkTypes
<1>4. Joins'
  BY <1>1 DEF WalkInv, Joins, Expanded
<1>5. FoldedKeys' = FoldedKeys
  BY <1>1, <1>2 DEF FoldedKeys
<1>6. Folds'
  BY <1>1, <1>2, <1>5 DEF WalkInv, Folds
<1> QED
  BY <1>3, <1>4, <1>6 DEF WalkInv

(* What StringEquals asks of a key that reads a segment.                   *)
LEMMA SegmentPasses ==
  ASSUME NEW key \in DOMAIN PathIndexOf, NEW ctx, NEW path, NEW values
  PROVE  KeyPasses(StringEquals, ConditionValue(key, ctx, path), values)
           <=> HasSegment(path, PathIndexOf[key], values)
<1> DEFINE v == ConditionValue(key, ctx, path)
           op == StringEquals
<1>1. op.kind = "String" /\ op.test = "Equals" /\ ~op.not /\ ~op.ifExists
  BY DEF StringEquals
<1>2. \A a, w : Satisfies(op, a, w) <=> a = w
  BY <1>1 DEF Satisfies
<1>3. KeyPasses(op, v, values) <=> v # Absent /\ v[1] \in values
  <2> HIDE DEF op, v
  <2> QED
    BY <1>1, <1>2 DEF KeyPasses, Holds, HoldsPositively
<1>4. v = IF PathIndexOf[key] < Len(path) THEN Present(path[PathIndexOf[key] + 1]) ELSE Absent
  BY DEF ConditionValue
<1> QED
  BY <1>3, <1>4 DEF Present, Absent, HasSegment

(* Its operators walked, the globs of a match stand for the match.         *)
LEMMA MatchWalked ==
  ASSUME WalkInv, stage = "operators", ops = {}, NEW row \in Rows
  PROVE  SomeMatches(globs, row) <=> PathCovers(Current, row)
<1> DEFINE conds == Current.conditions
           path == row.resource.resource
<1>1. DOMAIN conds \subseteq {StringEquals}
  BY DEF WalkInv, Folds
<1>2. FoldedKeys = IF StringEquals \in DOMAIN conds THEN DOMAIN conds[StringEquals] ELSE {}
  BY DEF FoldedKeys
<1>3. /\ FoldedKeys \subseteq DOMAIN PathIndexOf
      /\ SomeMatches(globs, row)
           <=> /\ MatchPath(Current.pattern.resource, path)
               /\ \A key \in FoldedKeys :
                    HasSegment(path, PathIndexOf[key], conds[StringEquals][key])
  BY DEF WalkInv, Folds
<1>4. Known(StringEquals)
  BY DEF Known, Positive, Negatable, StringEquals
<1>5. PathCovers(Current, row)
        <=> MatchPath(Current.pattern.resource, path) /\ EvalConditions(conds, row.attributes, path)
  BY DEF PathCovers
<1> HIDE DEF conds, path
<1>6. ASSUME NEW key \in FoldedKeys
      PROVE  KeyPasses(StringEquals, ConditionValue(key, row.attributes, path),
                       conds[StringEquals][key])
               <=> HasSegment(path, PathIndexOf[key], conds[StringEquals][key])
  <2>1. key \in DOMAIN PathIndexOf
    BY <1>3
  <2> QED
    BY <2>1, SegmentPasses
<1>7. EvalConditions(conds, row.attributes, path)
        <=> \A key \in FoldedKeys :
              HasSegment(path, PathIndexOf[key], conds[StringEquals][key])
  BY <1>1, <1>2, <1>4, <1>6 DEF EvalConditions
<1> QED
  BY <1>3, <1>5, <1>7

LEMMA FinishMatchStep == ASSUME IInv, WalkInv, FinishMatch PROVE WalkInv'
<1>1. /\ stage = "operators" /\ ops = {} /\ stage' = "match" /\ k' = k + 1
      /\ prefixes' = [prefixes EXCEPT ![side] = @ \cup globs]
      /\ UNCHANGED <<pc, out, given, side, ops, keys>>
  BY DEF FinishMatch, vars
<1>2. Narrowed(out)' = Narrowed(out)
  BY <1>1 DEF Narrowed
<1>3. /\ pc = "done" /\ given \in {out, Narrowed(out)} /\ side \in Effects
      /\ k \in 1..(Len(given[side]) + 1) /\ k <= Len(given[side])
      /\ DOMAIN prefixes = Effects /\ prefixes = [e \in Effects |-> prefixes[e]]
  BY <1>1 DEF WalkInv, WalkTypes
<1>4. Len(given[side]) \in Nat
  BY <1>3, GivenShape
<1>5. /\ DOMAIN prefixes' = Effects /\ prefixes' = [e \in Effects |-> prefixes'[e]]
      /\ prefixes'[side] = prefixes[side] \cup globs
      /\ \A e \in Effects : e # side => prefixes'[e] = prefixes[e]
  BY <1>1, <1>3
<1>6. WalkTypes'
  BY <1>1, <1>2, <1>3, <1>4, <1>5 DEF WalkTypes
<1>7. Folds'
  BY <1>1 DEF Folds
<1>8. ASSUME NEW e \in Effects, NEW row \in Rows
      PROVE  SomeMatches(prefixes'[e], row)
               <=> \E n \in 1..Expanded(e)' : PathCovers(given[e][n], row)
  <2>1. SomeMatches(prefixes[e], row)
          <=> \E n \in 1..Expanded(e) : PathCovers(given[e][n], row)
    BY <1>1 DEF WalkInv, Joins
  <2>2. CASE e = side
    <3>1. Expanded(e) = k - 1 /\ Expanded(e)' = k
      BY <1>1, <1>3, <1>4, <2>2 DEF Expanded
    <3>2. SomeMatches(prefixes'[e], row)
            <=> SomeMatches(prefixes[e], row) \/ SomeMatches(globs, row)
      BY <1>5, <2>2 DEF SomeMatches
    <3>3. SomeMatches(globs, row) <=> PathCovers(given[e][k], row)
      BY <1>1, <2>2, MatchWalked DEF Current
    <3>4. \A n : n \in 1..k <=> n \in 1..(k - 1) \/ n = k
      BY <1>3, <1>4
    <3> QED
      BY <2>1, <3>1, <3>2, <3>3, <3>4
  <2>3. CASE e # side
    <3>1. Expanded(e)' = Expanded(e) /\ prefixes'[e] = prefixes[e]
      BY <1>1, <1>5, <2>3 DEF Expanded
    <3> QED
      BY <2>1, <3>1
  <2> QED
    BY <2>2, <2>3
<1>9. Joins'
  BY <1>1, <1>8 DEF Joins
<1> QED
  BY <1>6, <1>7, <1>9 DEF WalkInv

LEMMA FinishSideStep == ASSUME IInv, WalkInv, FinishSide PROVE WalkInv'
<1>1. /\ stage = "match" /\ k > Len(given[side])
      /\ IF side = "allow" THEN side' = "deny" /\ k' = 1 /\ UNCHANGED stage
                           ELSE stage' = "done" /\ UNCHANGED <<side, k>>
      /\ UNCHANGED <<pc, out, given, ops, keys, globs, prefixes>>
  BY DEF FinishSide, vars
<1>2. Narrowed(out)' = Narrowed(out)
  BY <1>1 DEF Narrowed
<1>3. /\ pc = "done" /\ given \in {out, Narrowed(out)} /\ side \in {"allow", "deny"}
      /\ k \in 1..(Len(given[side]) + 1) /\ stage' \in {"match", "done"}
      /\ DOMAIN prefixes = Effects /\ prefixes = [e \in Effects |-> prefixes[e]]
  BY <1>1 DEF WalkInv, WalkTypes, Effects
<1>4. Len(given["allow"]) \in Nat /\ Len(given["deny"]) \in Nat
  BY <1>3, GivenShape DEF Effects
<1>5. k = Len(given[side]) + 1
  BY <1>1, <1>3, <1>4
<1>6. WalkTypes'
  BY <1>1, <1>2, <1>3, <1>4, <1>5 DEF WalkTypes, Effects
<1>7. Folds'
  BY <1>3 DEF Folds
<1>8. \A e \in Effects : Expanded(e)' = Expanded(e)
  BY <1>1, <1>3, <1>4, <1>5 DEF Expanded, Effects
<1>9. Joins'
  BY <1>1, <1>3, <1>8 DEF WalkInv, Joins
<1> QED
  BY <1>6, <1>7, <1>9 DEF WalkInv

LEMMA WalkStep == IInv /\ WalkInv /\ [ListNext]_listVars => WalkInv'
<1> SUFFICES ASSUME IInv, WalkInv, [ListNext]_listVars PROVE WalkInv'
  OBVIOUS
<1>1. CASE Query
  <2>1. pc # "done" /\ UNCHANGED local
    BY <1>1 DEF Query, Receive, Collect, RejectAction, SkipStatement, EnterStatement,
       KeepPattern, DropPattern, LeaveStatement, ReturnConstraints, AtStatement, AtPattern
  <2>2. NotWalking
    BY <2>1 DEF WalkInv, WalkTypes
  <2>3. NotWalking'
    BY <2>1, <2>2 DEF NotWalking, local
  <2> QED
    BY <2>3, IdleWalk, PTL
<1>2. CASE Translate
  <2>1. NotWalking /\ UNCHANGED local
    BY <1>2 DEF Translate, WalkInv, WalkTypes
  <2>2. NotWalking'
    BY <2>1 DEF NotWalking, local
  <2> QED
    BY <2>2, IdleWalk, PTL
<1>3. CASE Answer
  <2>1. NotWalking'
    BY <1>3 DEF Answer, NotWalking
  <2> QED
    BY <2>1, IdleWalk, PTL
<1>4. CASE Walk
  BY <1>4, StartStep, StartMatchStep, WalkOperatorStep, FoldKeyStep, LastKeyStep,
     FinishMatchStep, FinishSideStep DEF Walk, Prefixes
<1>5. CASE UNCHANGED listVars
  BY <1>5 DEF listVars, vars, local, WalkInv, WalkTypes, Folds, Joins, NotWalking, Current,
     Narrowed, Expanded, FoldedKeys
<1> QED
  BY <1>1, <1>2, <1>3, <1>4, <1>5 DEF ListNext

LEMMA WalkInvariance == ListSpec => []WalkInv
<1> QED
  BY WalkInitInv, WalkStep, ListingConstrains, Invariance, PTL DEF ListSpec

(* Of the matches, those that the store calls for are the ones that cover  *)
(* any of its rows.                                                        *)
LEMMA StoreCovers ==
  ASSUME IInv, pc = "done", NEW e \in Effects, NEW row \in Rows, InStore(row)
  PROVE  (\E match \in Range(Narrowed(out)[e]) : PathCovers(match, row))
           <=> \E match \in Range(out[e]) : Covers(match, row)
<1> DEFINE kept == {m \in Range(out.allow) \cup Range(out.deny) :
                      \A f \in FlatFields : MatchField(m.pattern[f], Store[f])}
<1>1. Range(Narrowed(out)[e]) = Range(out[e]) \cap kept
  <2>1. out[e] \in Seq(AllMatches)
    BY DEF IInv, OutOK
  <2>2. Narrowed(out)[e] = FilterResourceMatches(out[e], kept)
    BY DEF Narrowed, Filter, Effects
  <2> HIDE DEF kept
  <2> QED
    BY <2>1, <2>2, FilterRange
<1>2. ASSUME NEW match \in Range(out[e])
      PROVE  match \in kept /\ PathCovers(match, row) <=> Covers(match, row)
  <2>1. match \in Range(out.allow) \cup Range(out.deny)
    BY DEF Effects
  <2>2. match \in kept <=> \A f \in FlatFields : MatchField(match.pattern[f], row.resource[f])
    BY <2>1 DEF InStore
  <2>3. match.pattern.tenant = query.tenant /\ row.resource.tenant = query.tenant
    BY CollectedShape DEF InStore
  <2>4. MatchTenant(match.pattern.tenant, row.resource.tenant, match.pattern.tenant)
    BY <2>3 DEF MatchTenant
  <2> QED
    BY <2>2, <2>4 DEF PathCovers, Covers, PatternMatches
<1> QED
  BY <1>1, <1>2

(* A walker of a store sees the paths that Decide allows one by one (the   *)
(* property WalkAgreesWithGate).                                           *)
THEOREM WalkIsGate == ListSpec => []WalkAgreesWithGate
<1>1. IInv /\ WalkInv /\ FilterAgreesWithGate => WalkAgreesWithGate
  <2> SUFFICES ASSUME IInv, WalkInv, FilterAgreesWithGate, stage = "done",
                      given = Narrowed(out), NEW row \in Rows, InStore(row)
               PROVE  Walked(row) <=> Permitted(Range(statements), GateRequest(query, row))
    BY DEF WalkAgreesWithGate
  <2>1. pc = "done" /\ side = "deny" /\ k = Len(given["deny"]) + 1
    BY DEF WalkInv, WalkTypes
  <2>2. ASSUME NEW e \in Effects
        PROVE  SomeMatches(prefixes[e], row)
                 <=> \E match \in Range(out[e]) : Covers(match, row)
    <3>1. Len(given[e]) \in Nat /\ DOMAIN given[e] = 1..Len(given[e])
      BY <2>1, GivenShape
    <3>2. Expanded(e) = Len(given[e])
      BY <2>1, <3>1 DEF Expanded, Effects
    <3>3. SomeMatches(prefixes[e], row)
            <=> \E n \in 1..Len(given[e]) : PathCovers(given[e][n], row)
      BY <3>2 DEF WalkInv, Joins
    <3>4. (\E n \in 1..Len(given[e]) : PathCovers(given[e][n], row))
            <=> \E match \in Range(given[e]) : PathCovers(match, row)
      BY <3>1 DEF Range
    <3> QED
      BY <2>1, <3>3, <3>4, StoreCovers
  <2>3. Walked(row) <=> Selected(out, row)
    BY <2>2 DEF Walked, SomeMatches, Selected, Effects
  <2> QED
    BY <2>1, <2>3 DEF FilterAgreesWithGate
<1> QED
  BY <1>1, WalkInvariance, ListingConstrains, Invariance, FilterIsGate, PTL
-----------------------------------------------------------------------------
(* The helper, called by concurrent requests on one mapping.  The keys a   *)
(* call has visited, and those of them it added a column for.              *)
Visited(c) == ResidualKeys(asked[c]) \ todo[c]
Added(c) == {key \in Visited(c) : Addable(key, SharedMapping.conditions)}

MapTypes ==
  /\ at \in [Callers -> {"idle", "keys", "returned"}]
  /\ asked = [c \in Callers |-> asked[c]] /\ todo = [c \in Callers |-> todo[c]]
  /\ ref \in [Callers -> Owners]
  /\ maps = [o \in Owners |-> [conditions |-> maps[o].conditions,
                               operators |-> maps[o].operators]]

(* The service's mapping: its maps and the slices they hold.               *)
ServiceKeeps ==
  /\ maps[Service].conditions = SharedMapping.conditions
  /\ maps[Service].operators = [key \in DOMAIN SharedMapping.operators |-> <<Service, key>>]
  /\ \A key \in DOMAIN SharedMapping.operators :
       /\ <<Service, key>> \in DOMAIN slices
       /\ slices[<<Service, key>>] = SharedMapping.operators[key]

(* The maps a caller returns hold slices of its own, and columns added.    *)
Owns(c) ==
  /\ at[c] \in {"idle", "keys"} => ref[c] = c
  /\ at[c] = "idle" \/ ref[c] = Service => maps[c] = NoMaps
  /\ maps[c].operators = [key \in DOMAIN maps[c].operators |-> <<c, key>>]
  /\ \A key \in DOMAIN maps[c].operators : <<c, key>> \in DOMAIN slices
  /\ \A key \in DOMAIN maps[c].conditions \ DOMAIN SharedMapping.conditions :
       /\ Addable(key, SharedMapping.conditions)
       /\ maps[c].conditions[key] = PathExpr(PathIndexOf[key])

(* Between two keys: the service's mapping, completed for the keys visited.*)
Completes(c) ==
  at[c] = "keys" =>
    /\ todo[c] \subseteq ResidualKeys(asked[c])
    /\ maps[c].conditions =
         Merge(SharedMapping.conditions, [key \in Added(c) |-> PathExpr(PathIndexOf[key])])
    /\ DOMAIN maps[c].operators = DOMAIN SharedMapping.operators \cup Added(c)
    /\ \A key \in DOMAIN maps[c].operators :
         slices[<<c, key>>] = IF key \in DOMAIN SharedMapping.operators
                              THEN SharedMapping.operators[key] ELSE {StringEquals}

CallersKeep == \A c \in Callers : Owns(c) /\ Completes(c)

MapInv == MapTypes /\ ServiceKeeps /\ CallersKeep
-----------------------------------------------------------------------------
LEMMA ServiceShape ==
  /\ Service \in Owners /\ \A c \in Callers : c \in Owners /\ c # Service
  /\ SharedMapping.conditions = [key \in DOMAIN SharedMapping.conditions |-> SharedMapping.conditions[key]]
  /\ SharedMapping.operators = [key \in DOMAIN SharedMapping.operators |-> SharedMapping.operators[key]]
BY ServiceAssumption DEF Owners

LEMMA MapInitInv == MapInit => MapInv
<1> SUFFICES ASSUME MapInit PROVE MapInv
  OBVIOUS
<1>1. /\ maps[Service] = [SharedMapping EXCEPT
           !.operators = [key \in DOMAIN SharedMapping.operators |-> <<Service, key>>]]
      /\ \A c \in Callers : maps[c] = NoMaps
      /\ maps = [o \in Owners |-> maps[o]]
  BY ServiceShape DEF MapInit
<1>2. /\ maps[Service].conditions = SharedMapping.conditions
      /\ maps[Service].operators = [key \in DOMAIN SharedMapping.operators |-> <<Service, key>>]
      /\ maps[Service] = [conditions |-> maps[Service].conditions,
                          operators |-> maps[Service].operators]
  BY <1>1, ServiceAssumption
<1>3. MapTypes
  <2>1. \A o \in Owners : maps[o] = [conditions |-> maps[o].conditions,
                                    operators |-> maps[o].operators]
    BY <1>1, <1>2 DEF Owners, NoMaps
  <2>2. ref \in [Callers -> Owners]
    BY ServiceShape DEF MapInit
  <2> QED
    BY <1>1, <2>1, <2>2 DEF MapInit, MapTypes
<1>4. ServiceKeeps
  BY <1>2 DEF MapInit, ServiceKeeps
<1>5. CallersKeep
  <2>1. \A c \in Callers :
          /\ at[c] = "idle" /\ ref[c] = c /\ maps[c] = NoMaps
          /\ maps[c].conditions = <<>> /\ maps[c].operators = <<>>
    <3>1. \A c \in Callers : at[c] = "idle" /\ ref[c] = c
      BY DEF MapInit
    <3> QED
      BY <1>1, <3>1 DEF NoMaps
  <2>2. DOMAIN <<>> = {} /\ \A c : <<>> = [key \in DOMAIN <<>> |-> <<c, key>>]
    OBVIOUS
  <2> QED
    BY <2>1, <2>2 DEF CallersKeep, Owns, Completes
<1> QED
  BY <1>3, <1>4, <1>5 DEF MapInv

LEMMA MapTypesStep == ASSUME MapTypes, [MapNext]_mapVars PROVE MapTypes'
<1>1. ASSUME NEW c \in Callers, CallBlank(c) PROVE MapTypes'
  BY <1>1 DEF CallBlank, MapTypes, Owners
<1>2. ASSUME NEW c \in Callers, CallWithPath(c) PROVE MapTypes'
  BY <1>2 DEF CallWithPath, MapTypes, Owners
<1>3. ASSUME NEW c \in Callers, SkipKey(c) PROVE MapTypes'
  BY <1>3 DEF SkipKey, MapTypes
<1>4. ASSUME NEW c \in Callers, AddKey(c) PROVE MapTypes'
  <2>1. PICK key \in todo[c] :
          /\ todo' = [todo EXCEPT ![c] = @ \ {key}]
          /\ maps' = [maps EXCEPT ![c] =
               [conditions |-> Merge(@.conditions, [x \in {key} |-> PathExpr(PathIndexOf[key])]),
                operators |-> Merge(@.operators, [x \in {key} |-> <<c, key>>])]]
    BY <1>4 DEF AddKey
  <2> QED
    BY <1>4, <2>1 DEF AddKey, MapTypes, Owners
<1>5. ASSUME NEW c \in Callers, Return(c) PROVE MapTypes'
  BY <1>5 DEF Return, MapTypes
<1>6. ASSUME NEW c \in Callers, Overwrite(c) PROVE MapTypes'
  BY <1>6 DEF Overwrite, MapTypes
<1>7. ASSUME NEW c \in Callers, Forget(c) PROVE MapTypes'
  BY <1>7 DEF Forget, MapTypes, Owners, NoMaps
<1>8. CASE UNCHANGED mapVars
  BY <1>8 DEF mapVars, MapTypes
<1> QED
  BY <1>1, <1>2, <1>3, <1>4, <1>5, <1>6, <1>7, <1>8 DEF MapNext

MapAct(c) ==
  \/ CallBlank(c) \/ CallWithPath(c) \/ SkipKey(c) \/ AddKey(c)
  \/ Return(c) \/ Overwrite(c) \/ Forget(c)

(* A step of one caller leaves the maps of every other owner alone, and    *)
(* the slices in them.                                                     *)
LEMMA OthersKept ==
  ASSUME MapTypes, NEW c \in Callers, Owns(c), MapAct(c), NEW o \in Owners, o # c
  PROVE  /\ maps'[o] = maps[o]
         /\ \A key : <<o, key>> \in DOMAIN slices =>
              <<o, key>> \in DOMAIN slices' /\ slices'[<<o, key>>] = slices[<<o, key>>]
         /\ o \in Callers => /\ at'[o] = at[o] /\ asked'[o] = asked[o]
                             /\ todo'[o] = todo[o] /\ ref'[o] = ref[o]
<1>1. CASE CallBlank(c)
  BY <1>1 DEF CallBlank, MapTypes
<1>2. CASE CallWithPath(c)
  BY <1>2 DEF CallWithPath, MapTypes, Merge
<1>3. CASE SkipKey(c)
  BY <1>3 DEF SkipKey, MapTypes
<1>4. CASE AddKey(c)
  BY <1>4 DEF AddKey, ListAdded, MapTypes, Merge
<1>5. CASE Return(c)
  BY <1>5 DEF Return, MapTypes
<1>6. CASE Overwrite(c)
  <2>1. PICK key \in DOMAIN maps[c].operators :
          slices' = [slices EXCEPT ![maps[c].operators[key]] = OtherOperators]
    BY <1>6 DEF Overwrite
  <2>2. maps[c].operators[key] = <<c, key>>
    BY DEF Owns
  <2>3. \A x : <<o, x>> # <<c, key>>
    OBVIOUS
  <2> QED
    BY <1>6, <2>1, <2>2, <2>3 DEF Overwrite
<1>7. CASE Forget(c)
  BY <1>7 DEF Forget, MapTypes
<1> QED
  BY <1>1, <1>2, <1>3, <1>4, <1>5, <1>6, <1>7 DEF MapAct

LEMMA ServiceStep ==
  ASSUME MapTypes, ServiceKeeps, NEW c \in Callers, Owns(c), MapAct(c)
  PROVE  ServiceKeeps'
<1>1. Service \in Owners /\ Service # c
  BY ServiceShape
<1>2. /\ maps'[Service] = maps[Service]
      /\ \A key : <<Service, key>> \in DOMAIN slices =>
           /\ <<Service, key>> \in DOMAIN slices'
           /\ slices'[<<Service, key>>] = slices[<<Service, key>>]
  BY <1>1, OthersKept
<1> QED
  BY <1>2 DEF ServiceKeeps

LEMMA OtherCallerStep ==
  ASSUME MapTypes, NEW c \in Callers, Owns(c), MapAct(c),
         NEW d \in Callers, d # c, Owns(d), Completes(d)
  PROVE  Owns(d)' /\ Completes(d)'
<1>1. /\ maps'[d] = maps[d]
      /\ \A key : <<d, key>> \in DOMAIN slices =>
           /\ <<d, key>> \in DOMAIN slices'
           /\ slices'[<<d, key>>] = slices[<<d, key>>]
      /\ at'[d] = at[d] /\ asked'[d] = asked[d] /\ todo'[d] = todo[d] /\ ref'[d] = ref[d]
  BY ServiceShape, OthersKept
<1>2. Owns(d)'
  BY <1>1 DEF Owns
<1>3. Added(d)' = Added(d)
  BY <1>1 DEF Added, Visited
<1>4. Completes(d)'
  BY <1>1, <1>3 DEF Completes, Owns
<1> QED
  BY <1>2, <1>4

LEMMA IdleStep ==
  ASSUME MapTypes, NEW c \in Callers, Owns(c), CallBlank(c) \/ Forget(c)
  PROVE  Owns(c)' /\ Completes(c)'
<1>1. DOMAIN <<>> = {} /\ <<>> = [key \in DOMAIN <<>> |-> <<c, key>>]
  OBVIOUS
<1>2. maps'[c] = NoMaps
  <2>1. CASE CallBlank(c)
    BY <2>1 DEF CallBlank, Owns
  <2>2. CASE Forget(c)
    BY <2>2, ServiceShape DEF Forget, MapTypes
  <2> QED
    BY <2>1, <2>2
<1>3. /\ at'[c] \in {"idle", "returned"}
      /\ at'[c] = "idle" => ref'[c] = c
  BY DEF CallBlank, Forget, MapTypes
<1>4. maps'[c].conditions = <<>> /\ maps'[c].operators = <<>>
  BY <1>2 DEF NoMaps
<1> QED
  BY <1>1, <1>2, <1>3, <1>4 DEF Owns, Completes

LEMMA CallsStep ==
  ASSUME MapTypes, ServiceKeeps, NEW c \in Callers, Owns(c), CallWithPath(c)
  PROVE  Owns(c)' /\ Completes(c)'
<1> DEFINE D == DOMAIN SharedMapping.operators
<1>1. PICK lists \in ConstraintLists : /\ asked' = [asked EXCEPT ![c] = lists]
                                      /\ todo' = [todo EXCEPT ![c] = ResidualKeys(lists)]
  BY DEF CallWithPath
<1>2. /\ at'[c] = "keys" /\ ref'[c] = c /\ c # Service
      /\ todo'[c] = ResidualKeys(asked'[c])
  BY <1>1, ServiceShape DEF CallWithPath, MapTypes, Owns
<1>3. /\ maps'[c].conditions = SharedMapping.conditions
      /\ maps'[c].operators = [key \in D |-> <<c, key>>]
  BY ServiceShape DEF CallWithPath, Cloned, MapTypes, ServiceKeeps
<1>4. \A key \in D : /\ <<c, key>> \in DOMAIN slices'
                     /\ slices'[<<c, key>>] = SharedMapping.operators[key]
  <2> TAKE key \in D
  <2> DEFINE new == [p \in {c} \X DOMAIN maps[Service].operators |->
                       slices[maps[Service].operators[p[2]]]]
  <2>1. DOMAIN maps[Service].operators = D /\ maps[Service].operators[key] = <<Service, key>>
    BY DEF ServiceKeeps
  <2>2. <<c, key>> \in DOMAIN new /\ new[<<c, key>>] = slices[<<Service, key>>]
    BY <2>1
  <2>3. slices' = Merge(new, slices)
    BY DEF CallWithPath
  <2> HIDE DEF new
  <2> QED
    BY <2>2, <2>3 DEF Merge, ServiceKeeps
<1>5. Added(c)' = {}
  BY <1>2 DEF Added, Visited
<1>6. SharedMapping.conditions
        = Merge(SharedMapping.conditions, [key \in {} |-> PathExpr(PathIndexOf[key])])
  BY ServiceShape DEF Merge
<1>7. Owns(c)'
  BY <1>2, <1>3, <1>4 DEF Owns
<1>8. Completes(c)'
  BY <1>2, <1>3, <1>4, <1>5, <1>6 DEF Completes
<1> QED
  BY <1>7, <1>8

(* While the call runs, a key it has not visited is one it could add for   *)
(* the service's mapping or not at all.                                    *)
LEMMA NotVisited ==
  ASSUME NEW c \in Callers, at[c] = "keys", Completes(c), NEW key \in todo[c]
  PROVE  /\ key \in ResidualKeys(asked[c]) /\ key \notin Added(c)
         /\ Addable(key, maps[c].conditions) <=> Addable(key, SharedMapping.conditions)
         /\ key \in DOMAIN maps[c].operators <=> key \in DOMAIN SharedMapping.operators
<1>1. key \in ResidualKeys(asked[c]) /\ key \notin Added(c)
  BY DEF Completes, Added, Visited
<1>2. key \in DOMAIN maps[c].conditions <=> key \in DOMAIN SharedMapping.conditions
  BY <1>1 DEF Completes, Merge
<1>3. key \in DOMAIN maps[c].operators <=> key \in DOMAIN SharedMapping.operators
  BY <1>1 DEF Completes
<1> QED
  BY <1>1, <1>2, <1>3 DEF Addable

LEMMA SkipsStep ==
  ASSUME MapTypes, NEW c \in Callers, Owns(c), Completes(c), SkipKey(c)
  PROVE  Owns(c)' /\ Completes(c)'
<1>1. PICK key \in todo[c] : /\ ~Addable(key, maps[c].conditions)
                            /\ todo' = [todo EXCEPT ![c] = @ \ {key}]
  BY DEF SkipKey
<1>2. at[c] = "keys" /\ UNCHANGED <<at, asked, ref, maps, slices>>
  BY DEF SkipKey
<1>3. todo'[c] = todo[c] \ {key}
  BY <1>1 DEF MapTypes
<1>4. ~Addable(key, SharedMapping.conditions)
  BY <1>1, <1>2, NotVisited
<1>5. Added(c)' = Added(c)
  BY <1>1, <1>2, <1>3, <1>4 DEF Added, Visited
<1> QED
  BY <1>2, <1>3, <1>5 DEF Owns, Completes

LEMMA AddsStep ==
  ASSUME MapTypes, NEW c \in Callers, Owns(c), Completes(c), AddKey(c)
  PROVE  Owns(c)' /\ Completes(c)'
<1>1. PICK key \in todo[c] :
        /\ Addable(key, maps[c].conditions)
        /\ todo' = [todo EXCEPT ![c] = @ \ {key}]
        /\ maps' = [maps EXCEPT ![c] =
             [conditions |-> Merge(@.conditions, [x \in {key} |-> PathExpr(PathIndexOf[x])]),
              operators |-> Merge(@.operators, [x \in {key} |-> <<c, x>>])]]
        /\ slices' = ListAdded(c, key)
  <2>1. \A x : [z \in {x} |-> PathExpr(PathIndexOf[x])] = [y \in {x} |-> PathExpr(PathIndexOf[y])]
    OBVIOUS
  <2>2. \A x : [z \in {x} |-> <<c, x>>] = [y \in {x} |-> <<c, y>>]
    OBVIOUS
  <2> QED
    BY <2>1, <2>2 DEF AddKey
<1>2. at[c] = "keys" /\ UNCHANGED <<at, asked, ref>> /\ ref[c] = c /\ c # Service
  BY ServiceShape DEF AddKey, Owns
<1>3. todo'[c] = todo[c] \ {key}
  BY <1>1 DEF MapTypes
<1>4. /\ key \in ResidualKeys(asked[c]) /\ key \notin Added(c)
      /\ Addable(key, SharedMapping.conditions)
      /\ key \in DOMAIN maps[c].operators <=> key \in DOMAIN SharedMapping.operators
  BY <1>1, <1>2, NotVisited
<1>5. /\ maps'[c].conditions
           = Merge(maps[c].conditions, [x \in {key} |-> PathExpr(PathIndexOf[x])])
      /\ maps'[c].operators = Merge(maps[c].operators, [x \in {key} |-> <<c, x>>])
  BY <1>1, ServiceShape DEF MapTypes
<1>6. Added(c)' = Added(c) \cup {key}
  BY <1>1, <1>2, <1>3, <1>4 DEF Added, Visited, Completes
<1>7. maps'[c].conditions =
        Merge(SharedMapping.conditions, [x \in Added(c)' |-> PathExpr(PathIndexOf[x])])
  <2> DEFINE E(x) == PathExpr(PathIndexOf[x])
             f == SharedMapping.conditions
  <2>1. maps[c].conditions = Merge(f, [x \in Added(c) |-> E(x)])
    BY <1>2 DEF Completes
  <2> HIDE DEF E, f
  <2>2. Merge(Merge(f, [x \in Added(c) |-> E(x)]), [x \in {key} |-> E(x)])
          = Merge(f, [x \in Added(c) \cup {key} |-> E(x)])
    BY DEF Merge
  <2> QED
    BY <1>5, <1>6, <2>1, <2>2 DEF E, f
<1>8. maps'[c].operators = [x \in DOMAIN maps[c].operators \cup {key} |-> <<c, x>>]
  BY <1>5 DEF Owns, Merge
<1>9. \A x \in DOMAIN maps'[c].operators :
        /\ <<c, x>> \in DOMAIN slices'
        /\ slices'[<<c, x>>] = IF x \in DOMAIN SharedMapping.operators
                              THEN SharedMapping.operators[x] ELSE {StringEquals}
  <2> TAKE x \in DOMAIN maps'[c].operators
  <2>1. CASE key \in DOMAIN maps[c].operators
    BY <1>1, <1>2, <1>8, <2>1 DEF ListAdded, Owns, Completes
  <2>2. CASE key \notin DOMAIN maps[c].operators
    <3>1. slices' = Merge([p \in {<<c, key>>} |-> {StringEquals}], slices)
      BY <1>1, <2>2 DEF ListAdded
    <3>2. CASE x = key
      BY <1>4, <2>2, <3>1, <3>2 DEF Merge
    <3>3. CASE x # key
      <4>1. x \in DOMAIN maps[c].operators /\ <<c, x>> # <<c, key>>
        BY <1>8, <3>3
      <4> QED
        BY <1>2, <3>1, <4>1 DEF Merge, Owns, Completes
    <3> QED
      BY <3>2, <3>3
  <2> QED
    BY <2>1, <2>2
<1>10. Completes(c)'
  BY <1>2, <1>3, <1>4, <1>6, <1>7, <1>8, <1>9 DEF Completes
<1>11. \A x \in DOMAIN maps'[c].conditions \ DOMAIN SharedMapping.conditions :
         /\ Addable(x, SharedMapping.conditions)
         /\ maps'[c].conditions[x] = PathExpr(PathIndexOf[x])
  BY <1>7 DEF Merge, Added
<1>12. Owns(c)'
  BY <1>2, <1>8, <1>9, <1>11 DEF Owns
<1> QED
  BY <1>10, <1>12

LEMMA ReturnsStep ==
  ASSUME MapTypes, NEW c \in Callers, Owns(c), Return(c)
  PROVE  Owns(c)' /\ Completes(c)'
BY DEF Return, MapTypes, Owns, Completes

LEMMA OverwritesStep ==
  ASSUME MapTypes, NEW c \in Callers, Owns(c), Overwrite(c)
  PROVE  Owns(c)' /\ Completes(c)'
<1>1. at[c] = "returned" /\ UNCHANGED <<at, asked, todo, ref, maps>>
  BY DEF Overwrite
<1>2. DOMAIN slices' = DOMAIN slices
  BY DEF Overwrite
<1> QED
  BY <1>1, <1>2 DEF Owns, Completes

LEMMA OwnStep ==
  ASSUME MapTypes, ServiceKeeps, NEW c \in Callers, Owns(c), Completes(c), MapAct(c)
  PROVE  Owns(c)' /\ Completes(c)'
BY IdleStep, CallsStep, SkipsStep, AddsStep, ReturnsStep, OverwritesStep DEF MapAct

LEMMA MapStep == MapInv /\ [MapNext]_mapVars => MapInv'
<1> SUFFICES ASSUME MapInv, [MapNext]_mapVars PROVE MapInv'
  OBVIOUS
<1>1. CASE UNCHANGED mapVars
  BY <1>1 DEF mapVars, MapInv, MapTypes, ServiceKeeps, CallersKeep, Owns, Completes,
              Added, Visited
<1>2. ASSUME NEW c \in Callers, MapAct(c)
      PROVE  MapInv'
  <2>1. MapTypes'
    BY MapTypesStep DEF MapInv
  <2>2. ServiceKeeps'
    BY <1>2, ServiceStep DEF MapInv, CallersKeep
  <2>3. ASSUME NEW d \in Callers
        PROVE  Owns(d)' /\ Completes(d)'
    BY <1>2, <2>3, OwnStep, OtherCallerStep DEF MapInv, CallersKeep
  <2> QED
    BY <2>1, <2>2, <2>3 DEF MapInv, CallersKeep
<1> QED
  BY <1>1, <1>2 DEF MapNext, MapAct

LEMMA MapInvariance == MapSpec => []MapInv
<1> QED
  BY MapInitInv, MapStep, PTL DEF MapSpec

(* Whatever the requests do, alone or at once, and whatever they write     *)
(* into the mappings they were given, the mapping the service shares says  *)
(* what it said (the property SharedUntouched).                            *)
THEOREM MappingUntouched == MapSpec => []SharedUntouched
<1>1. MapInv => SharedUntouched
  <2> SUFFICES ASSUME MapInv PROVE SharedUntouched
    OBVIOUS
  <2>1. Contents(Service).conditions = SharedMapping.conditions
    BY DEF MapInv, ServiceKeeps, Contents
  <2>2. Contents(Service).operators
          = [key \in DOMAIN SharedMapping.operators |-> SharedMapping.operators[key]]
    BY DEF MapInv, ServiceKeeps, Contents
  <2>3. SharedMapping = [conditions |-> SharedMapping.conditions,
                         operators |-> SharedMapping.operators]
    BY ServiceAssumption
  <2> QED
    BY <2>1, <2>2, <2>3, ServiceShape DEF SharedUntouched, Contents
<1> QED
  BY <1>1, MapInvariance, PTL

(* A call returns what its own constraints call for on the service's       *)
(* mapping, whatever runs at the same time (the property ReturnsOwnKeys).  *)
THEOREM MappingReturned == MapSpec => ReturnsOwnKeys
<1> DEFINE Own(c) == at[c] = "keys" /\ at'[c] = "returned" =>
                       Contents(c)' = WithPostgresPathConditions(SharedMapping, asked[c])
<1>1. ASSUME MapInv, MapNext, NEW c \in Callers, at[c] = "keys", at'[c] = "returned"
      PROVE  Contents(c)' = WithPostgresPathConditions(SharedMapping, asked[c])
  <2>1. Return(c)
    <3>1. PICK d \in Callers : MapAct(d)
      BY <1>1 DEF MapNext, MapAct
    <3>2. d = c
      BY <1>1, <3>1, ServiceShape, OthersKept DEF MapInv, CallersKeep
    <3> QED
      BY <1>1, <3>1, <3>2 DEF MapAct, CallBlank, CallWithPath, SkipKey, AddKey, Overwrite,
                              Forget, MapInv, MapTypes
  <2>2. todo[c] = {} /\ UNCHANGED <<asked, maps, slices>>
    BY <2>1 DEF Return
  <2>3. Owns(c) /\ Completes(c)
    BY <1>1 DEF MapInv, CallersKeep
  <2> DEFINE m == SharedMapping
             added == {key \in ResidualKeys(asked[c]) : Addable(key, m.conditions)}
             exprs == Merge(m.conditions, [key \in added |-> PathExpr(PathIndexOf[key])])
             lists == Merge(m.operators, [key \in added |-> {StringEquals}])
  <2>4. Added(c) = added
    BY <2>2 DEF Added, Visited
  <2>5. Contents(c)'.conditions = exprs
    BY <1>1, <2>2, <2>3, <2>4 DEF Contents, Completes
  <2>6. Contents(c)'.operators = lists
    <3>1. DOMAIN maps[c].operators = DOMAIN lists
      BY <1>1, <2>3, <2>4 DEF Completes, Merge
    <3>2. \A key \in DOMAIN maps[c].operators : slices[maps[c].operators[key]] = lists[key]
      BY <1>1, <2>3, <2>4 DEF Completes, Owns, Merge
    <3> HIDE DEF lists
    <3>3. lists = [key \in DOMAIN lists |-> lists[key]]
      BY DEF lists, Merge
    <3> QED
      BY <2>2, <3>1, <3>2, <3>3 DEF Contents
  <2>7. WithPostgresPathConditions(m, asked[c]) = [conditions |-> exprs, operators |-> lists]
    <3> DEFINE w == WithPostgresPathConditions(m, asked[c])
    <3>1. DOMAIN w = {"conditions", "operators"}
      BY ServiceAssumption DEF WithPostgresPathConditions
    <3>2. w.conditions = exprs
      BY ServiceAssumption DEF WithPostgresPathConditions
    <3>3. w.operators = lists
      BY ServiceAssumption DEF WithPostgresPathConditions
    <3>4. w = [x \in DOMAIN w |-> w[x]]
      BY DEF WithPostgresPathConditions
    <3> HIDE DEF w, lists, exprs
    <3> QED
      BY <3>1, <3>2, <3>3, <3>4 DEF w
  <2> QED
    BY <2>5, <2>6, <2>7 DEF Contents
<1>2. MapInv /\ [MapNext]_mapVars => [\A c \in Callers : Own(c)]_mapVars
  BY <1>1
<1> QED
  BY <1>2, MapInvariance, PTL DEF MapSpec, ReturnsOwnKeys

(* What a column added for a key holds in a row is what Decide reads for   *)
(* the key (the property ColumnsReadTheSegment).                           *)
THEOREM ColumnsRead == MapSpec => []ColumnsReadTheSegment
<1>1. MapInv => ColumnsReadTheSegment
  <2> SUFFICES ASSUME MapInv, NEW c \in Callers, NEW row \in StoredRows,
                      NEW key \in DOMAIN maps[c].conditions \ DOMAIN SharedMapping.conditions
               PROVE  ColumnValue(maps[c].conditions[key], row)
                        = ConditionValue(key, row.attributes, row.resource.resource)
    BY DEF ColumnsReadTheSegment
  <2>1. /\ Addable(key, SharedMapping.conditions)
        /\ maps[c].conditions[key] = PathExpr(PathIndexOf[key])
    BY DEF MapInv, CallersKeep, Owns
  <2> QED
    BY <2>1, StoredAssumption, PathColumnExact DEF Addable
<1> QED
  BY <1>1, MapInvariance, PTL
=============================================================================
