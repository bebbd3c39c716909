------------------------------ MODULE Listing -------------------------------
(***************************************************************************)
(* A list endpoint: Constrain, and then an adapter.  For a table it is     *)
(* sqlfilter.Where with the mapping of the table; for a path-addressed     *)
(* store it is pathfilter.Prefixes.  What the query or the walk shows is   *)
(* compared with what Decide answers row by row.                           *)
(***************************************************************************)
EXTENDS PathFilter, SqlFilter

CONSTANTS Mappings,  \* the tables' mappings
          NoMapping

(* A row has a path, whose segments have no slash in them, and a marker    *)
(* one value at most.                                                      *)
ASSUME RowAssumption ==
  \A row \in Rows : /\ NonEmptySeq(row.resource.resource)
                    /\ Range(row.resource.resource) \cap Slashed = {}
                    /\ row.marker = Absent \/ row.marker = Present(row.marker[1])

ASSUME PatternAssumption ==
  \A c \in Compilations : \A a \in DOMAIN c : \A n \in DOMAIN c[a].patterns :
    NonEmptySeq(c[a].patterns[n].resource)

(* The service maps attributes to columns of their own, and leaves the     *)
(* path keys to WithPostgresPathConditions, as text.                       *)
ASSUME MappingAssumption ==
  \A m \in Mappings :
    /\ {"conditions", "operators"} \subseteq DOMAIN m
    /\ m = [f \in DOMAIN m |-> m[f]]
    /\ \A key \in DOMAIN m.conditions :
         m.conditions[key].fn = "column" /\ key \notin DOMAIN PathIndexOf
    /\ \A key \in DOMAIN m.operators \cap DOMAIN PathIndexOf :
         \A op \in m.operators[key] : op.kind \in {"String", "Null"}

VARIABLE mapping  \* what Where is called with, after Constrain

listVars == <<vars, local, mapping>>

ListInit == Init /\ NotWalking /\ mapping = NoMapping

Query == (Receive \/ Collect) /\ UNCHANGED <<local, mapping>>

(* The service passes its mapping, or first completes it with the path     *)
(* keys the constraints are about.                                         *)
Translate ==
  /\ pc = "done" /\ mapping = NoMapping /\ stage = "none"
  /\ \E m \in Mappings : mapping' \in {m, WithPostgresPathConditions(m, out)}
  /\ UNCHANGED <<vars, local>>

Walk == mapping = NoMapping /\ Prefixes /\ UNCHANGED mapping

Answer ==
  /\ mapping # NoMapping \/ stage \in {"done", "failed"}
  /\ Deliver /\ mapping' = NoMapping
  /\ stage' = "none" /\ given' = NoConstraints /\ side' = "allow" /\ k' = 1
  /\ ops' = {} /\ keys' = {} /\ globs' = {} /\ prefixes' = NoGlobs

ListNext == Query \/ Translate \/ Walk \/ Answer

ListSpec == ListInit /\ [][ListNext]_listVars
-----------------------------------------------------------------------------
(* Where returned a clause, and the service may run its query.             *)
Answered ==
  pc = "done" /\ mapping # NoMapping /\ WhereError(out, mapping) = NoError

IsPublished(row) == row.marker = Present(Published)

(* What the mapping declares holds of the rows of the table: the service,  *)
(* the fixed fields, the tenant if it is answered elsewhere, and that an   *)
(* attribute is stored under its own key in a column of its type.          *)
InTable(m, row) ==
  /\ row.resource.service = m.service
  /\ \A f \in (TableFields \ m.columns) \cap DOMAIN m.fixed : row.resource[f] = m.fixed[f]
  /\ m.tenantAnswered => row.resource.tenant = query.tenant
  /\ \A key \in DOMAIN m.conditions :
       /\ m.conditions[key].fn = "column" => m.conditions[key].key = key
       /\ key \in DOMAIN row.attributes /\ key \in DOMAIN m.operators =>
            \A op \in m.operators[key] :
              /\ op.kind = "Numeric" => row.attributes[key] \in DOMAIN ColumnNumberOf
              /\ op.kind = "Bool" => Lower(row.attributes[key]) \in DOMAIN FlagOf

(* "Id-addressed resources are always one segment."                        *)
Addressed(m, row) == "id" \in m.columns => Len(row.resource.resource) = 1

(* The gate's question about a row, with the marker read off the row.      *)
ReadRequest(q, row) == [GateRequest(q, row) EXCEPT !.published = IsPublished(row)]

(* What is left to the store to compare: an operator, what it reads in the *)
(* row and the values of the policy, for each key of each constraint.      *)
RowValue(key, row) == ConditionValue(key, row.attributes, row.resource.resource)

ForAllCompared(row, Holding(_, _, _)) ==
  \A match \in Range(out.allow) \cup Range(out.deny) :
    \A op \in DOMAIN match.conditions : \A key \in DOMAIN match.conditions[op] :
      Holding(op, RowValue(key, row), match.conditions[op][key])

(* No text with a "*" in it is matched against a StringLike.               *)
LikesPlainText(row) ==
  LET Plainly(op, v, wants) ==
        op.kind = "String" /\ op.test = "Like" => Range(v) \cap Starred = {}
  IN  ForAllCompared(row, Plainly)

(* NaN is on neither side of a comparison of numbers.                      *)
ComparesNumbers(row) ==
  LET Numbers(op, v, wants) ==
        op.kind = "Numeric" => (Range(v) \cup wants) \cap NaNs = {}
  IN  ForAllCompared(row, Numbers)

(* The query shows a row of the table without the marker exactly if Decide *)
(* allows it.                                                              *)
AgreesOn(row) ==
  InTable(mapping, row) /\ Addressed(mapping, row) /\ ~IsPublished(row) =>
    (Listed(out, mapping, row) <=> Permitted(Range(statements), GateRequest(query, row)))

(* "A request decision and a list filter can never disagree"               *)
(* (docs/iam-policy-contract.md:288), through the SQL clause and with NULL *)
(* columns, as long as LIKE and the order of the numbers mean the same to  *)
(* the database.  Patterns Where cannot express, keys without a column and *)
(* operators not listed have failed before.                                *)
ListAgreesWithGate ==
  Answered => \A row \in Rows : LikesPlainText(row) /\ ComparesNumbers(row) => AgreesOn(row)

(* The same sentence, whatever texts the table stores.  Violated: the "%"  *)
(* written for a "*" also matches a text that begins with a "*", and       *)
(* wildcardMatch uses the two stars up against each other.                 *)
StarsListedAsDecided ==
  Answered => \A row \in Rows : ComparesNumbers(row) => AgreesOn(row)

(* "The marker is all-or-nothing by design" (README.md:260-264, and the    *)
(* test at adapter/sqlfilter/sqlfilter_test.go:687-692): to anyone but the *)
(* platform, the query shows all published rows of a table or none.  No    *)
(* id, owner or condition of an allow and no deny narrows them, as long as *)
(* the tenant has a column.                                                *)
PublishedAllOrNothing ==
  Answered /\ mapping.published /\ ~mapping.tenantAnswered =>
    LET shared == {row \in Rows : /\ InTable(mapping, row) /\ IsPublished(row)
                                  /\ row.resource.tenant # query.tenant}
    IN  {Listed(out, mapping, row) : row \in shared} # BOOLEAN

(* "A narrowing meant to cover published rows too belongs in a deny - and  *)
(* the deny composition below still subtracts them"                        *)
(* (adapter/sqlfilter/sqlfilter.go:177-179): no listed published row has   *)
(* all that a deny asks for, the owner apart.  Violated: the deny carries  *)
(* the tenant of the query, and the row is the platform's.                 *)
DenySubtractsPublished ==
  Answered /\ mapping.published =>
    \A row \in Rows :
      /\ InTable(mapping, row) /\ Addressed(mapping, row) /\ IsPublished(row)
      /\ Listed(out, mapping, row)
      => ~\E deny \in Range(out.deny) :
            Covers([deny EXCEPT !.pattern.tenant = row.resource.tenant], row)

(* "Without it Decide would refuse a row that Constrain returns": with it, *)
(* no listed row is refused (docs/iam-policy-contract.md:234).  Violated.  *)
NothingListedIsRefused ==
  Answered /\ mapping.published =>
    \A row \in Rows :
      InTable(mapping, row) /\ Addressed(mapping, row) /\ Listed(out, mapping, row) =>
        Permitted(Range(statements), ReadRequest(query, row))
=============================================================================
