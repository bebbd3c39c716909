---------------------------- MODULE PostgresPath ----------------------------
(***************************************************************************)
(* WithPostgresPathConditions (adapter/sqlfilter/postgres_path.go) called  *)
(* by concurrent requests on the one mapping a service keeps.  A mapping   *)
(* is a struct of maps, so what is passed and returned points into shared  *)
(* memory: a map object per owner, and the operator slices its map holds.  *)
(***************************************************************************)
EXTENDS SqlFilter

CONSTANTS Callers,
          Service,          \* the owner of the shared mapping
          SharedMapping,    \* its contents: [conditions, operators]
          ConstraintLists,  \* what Constrain may have returned
          OtherOperators,   \* a list a caller may write into its own mapping
          StoredRows        \* the rows of the table

(* A mapping is a struct of two maps, and no request owns the service's.   *)
ASSUME ServiceAssumption ==
  /\ Service \notin Callers
  /\ DOMAIN SharedMapping = {"conditions", "operators"}
  /\ SharedMapping = [f \in DOMAIN SharedMapping |->
                         [key \in DOMAIN SharedMapping[f] |-> SharedMapping[f][key]]]

ASSUME StoredAssumption == \A row \in StoredRows : NonEmptySeq(row.resource.resource)

VARIABLES at,      \* for each caller: "idle", "keys" or "returned"
          asked,   \* for each caller: the constraints of its call
          todo,    \* for each caller: the residual keys not yet visited
          ref,     \* for each caller: the owner of the maps it returns
          maps,    \* for each owner: [conditions, operators], key to slice
          slices   \* the operator slices, by the owner and key of their maker

mapVars == <<at, asked, todo, ref, maps, slices>>

Owners == Callers \cup {Service}
NoMaps == [conditions |-> <<>>, operators |-> <<>>]
NoConstraint == [allow |-> <<>>, deny |-> <<>>]

MapInit ==
  /\ at = [c \in Callers |-> "idle"] /\ todo = [c \in Callers |-> {}]
  /\ asked = [c \in Callers |-> NoConstraint] /\ ref = [c \in Callers |-> c]
  /\ maps = [o \in Owners |->
       IF o = Service
       THEN [SharedMapping EXCEPT
               !.operators = [key \in DOMAIN SharedMapping.operators |-> <<Service, key>>]]
       ELSE NoMaps]
  /\ slices = [p \in {Service} \X DOMAIN SharedMapping.operators |-> SharedMapping.operators[p[2]]]
-----------------------------------------------------------------------------
(* strings.TrimSpace(pathColumn) == "": the mapping itself is returned.    *)
CallBlank(c) ==
  /\ at[c] = "idle"
  /\ at' = [at EXCEPT ![c] = "returned"] /\ ref' = [ref EXCEPT ![c] = Service]
  /\ UNCHANGED <<asked, todo, maps, slices>>

(* Mutant of the next one: the map is cloned, the slices in it not.        *)
SameSlices(c, operators) == operators

(* cloneOperators: a slice of its own for every key.                       *)
Cloned(c, operators) == [key \in DOMAIN operators |-> <<c, key>>]

(* Both maps and every operator slice are cloned.                          *)
CallWithPath(c) ==
  /\ at[c] = "idle"
  /\ at' = [at EXCEPT ![c] = "keys"]
  /\ \E k \in ConstraintLists :
       /\ asked' = [asked EXCEPT ![c] = k]
       /\ todo' = [todo EXCEPT ![c] = ResidualKeys(k)]
  /\ maps' = [maps EXCEPT ![c] = [conditions |-> maps[Service].conditions,
                                  operators |-> Cloned(c, maps[Service].operators)]]
  /\ slices' = Merge([p \in {c} \X DOMAIN maps[Service].operators |->
                        slices[maps[Service].operators[p[2]]]], slices)
  /\ UNCHANGED ref

(* Continue: not a path key, beyond 32 bits, or the service has mapped it. *)
SkipKey(c) ==
  /\ at[c] = "keys"
  /\ \E key \in todo[c] :
       /\ ~Addable(key, maps[c].conditions)
       /\ todo' = [todo EXCEPT ![c] = @ \ {key}]
  /\ UNCHANGED <<at, asked, ref, maps, slices>>

(* Mutant of the next one: an explicit list of operators is replaced.      *)
ListReplaced(c, key) == Merge([p \in {<<c, key>>} |-> {StringEquals}], slices)

(* StringEquals, unless the service lists operators for the key.           *)
ListAdded(c, key) ==
  IF key \in DOMAIN maps[c].operators THEN slices
  ELSE Merge([p \in {<<c, key>>} |-> {StringEquals}], slices)

(* The keys come in the order of Go's map iteration, that is in any.       *)
AddKey(c) ==
  /\ at[c] = "keys"
  /\ \E key \in todo[c] :
       /\ Addable(key, maps[c].conditions)
       /\ todo' = [todo EXCEPT ![c] = @ \ {key}]
       /\ maps' = [maps EXCEPT ![c] =
            [conditions |-> Merge(@.conditions, [k \in {key} |-> PathExpr(PathIndexOf[key])]),
             operators |-> Merge(@.operators, [k \in {key} |-> <<c, key>>])]]
       /\ slices' = ListAdded(c, key)
  /\ UNCHANGED <<at, asked, ref>>

Return(c) ==
  /\ at[c] = "keys" /\ todo[c] = {}
  /\ at' = [at EXCEPT ![c] = "returned"]
  /\ UNCHANGED <<asked, todo, ref, maps, slices>>

(* The caller writes into an operator list of the mapping it was given,    *)
(* which is its own as long as it named a path column.                     *)
Overwrite(c) ==
  /\ at[c] = "returned" /\ ref[c] = c
  /\ \E key \in DOMAIN maps[c].operators :
       slices' = [slices EXCEPT ![maps[c].operators[key]] = OtherOperators]
  /\ UNCHANGED <<at, asked, todo, ref, maps>>

(* The request ends; its maps and slices are garbage.                      *)
Forget(c) ==
  /\ at[c] = "returned"
  /\ at' = [at EXCEPT ![c] = "idle"] /\ ref' = [ref EXCEPT ![c] = c]
  /\ asked' = [asked EXCEPT ![c] = NoConstraint]
  /\ maps' = [maps EXCEPT ![c] = NoMaps]
  /\ slices' = [p \in {x \in DOMAIN slices : x[1] # c} |-> slices[p]]
  /\ UNCHANGED todo

MapNext == \E c \in Callers :
  CallBlank(c) \/ CallWithPath(c) \/ SkipKey(c) \/ AddKey(c) \/ Return(c) \/ Overwrite(c) \/ Forget(c)

MapSpec == MapInit /\ [][MapNext]_mapVars
-----------------------------------------------------------------------------
(* What the mapping of an owner says, its slices read from memory.         *)
Contents(o) ==
  [conditions |-> maps[o].conditions,
   operators |-> [key \in DOMAIN maps[o].operators |-> slices[maps[o].operators[key]]]]

(* No call, nor what a caller does with the mapping it got from one,       *)
(* changes the mapping the service shares between its requests.            *)
SharedUntouched == Contents(Service) = SharedMapping

(* What a call returns depends on its own constraints and the service's    *)
(* mapping alone: no key of another request, no order of the maps, and no  *)
(* explicit column or operator list replaced.                              *)
ReturnsOwnKeys ==
  [][\A c \in Callers : at[c] = "keys" /\ at'[c] = "returned" =>
       Contents(c)' = WithPostgresPathConditions(SharedMapping, asked[c])]_mapVars

(* A column the helper adds holds, in every row, what Decide reads for the *)
(* key: NULL for a missing segment, the empty text for an empty one.       *)
ColumnsReadTheSegment ==
  \A c \in Callers : \A row \in StoredRows :
    \A key \in DOMAIN maps[c].conditions \ DOMAIN SharedMapping.conditions :
      ColumnValue(maps[c].conditions[key], row) = ConditionValue(key, row.attributes, row.resource.resource)
=============================================================================
