------------------------------ MODULE Conditions ------------------------------
(***************************************************************************)
(* The condition block of a statement and its two evaluations              *)
(* (engine/conditions.go).                                                 *)
(*                                                                         *)
(* A block is a function from operators to functions from keys to sets of  *)
(* acceptable values, as the Go value is a map of maps of value lists.  An *)
(* operator name such as "StringNotEqualsIfExists" is the record           *)
(*   [kind |-> "String", test |-> "Equals", not |-> TRUE, ifExists |-> TRUE]*)
(* Keys, values and context entries are strings; what the code reads out   *)
(* of a string (a number, an instant, a segment index) is a table.  A      *)
(* string outside a table's domain does not parse.                         *)
(***************************************************************************)
EXTENDS Integers, Sequences

CONSTANTS
  PathIndexOf,    \* pathIndex: the keys "resource.path[N]", and their N
  ReservedKeys,   \* keys that begin with "resource."
  MalformedKeys,  \* other keys with a ":" that conditionkey.Parse rejects
  LowerOf,        \* case folding, for the values that are not in lower case
  FlagOf,         \* strconv.ParseBool
  NumberOf,       \* strconv.ParseFloat, but for NaN, which equals nothing
  InstantOf,      \* time.Parse in RFC 3339, as a number that orders instants
  AddressOf,      \* net.ParseIP
  NetworkOf,      \* net.ParseCIDR, as the set of addresses of the network
  LikePairs       \* the pairs <<pattern, text>> wildcardMatch accepts

ASSUME KeyAssumption ==
  /\ DOMAIN PathIndexOf \subseteq ReservedKeys
  /\ \A key \in DOMAIN PathIndexOf : PathIndexOf[key] \in Nat
  /\ MalformedKeys \cap ReservedKeys = {}

(* The condition block of a statement that has none.                       *)
NoConditions == [op \in {} |-> {}]

Orders == {"Equals", "LessThan", "LessThanEquals",
           "GreaterThan", "GreaterThanEquals"}

(* conditionOps: only equality and likeness have a negated operator.       *)
Positive(op) ==
  \/ op.kind = "String" /\ op.test \in {"Equals", "EqualsIgnoreCase", "Like"}
  \/ op.kind \in {"Numeric", "Date"} /\ op.test \in Orders
  \/ op.kind \in {"Bool", "IpAddress", "Null"} /\ op.test = "Equals"

Negatable(op) ==
  \/ op.kind = "String"
  \/ op.kind \in {"Numeric", "Date", "IpAddress"} /\ op.test = "Equals"

Known(op) == Positive(op) /\ (op.not => Negatable(op))
-----------------------------------------------------------------------------
(* Values.  A looked-up value is a sequence: <<>> is an absent key.        *)
Absent == <<>>
Present(v) == <<v>>

Lower(v) == IF v \in DOMAIN LowerOf THEN LowerOf[v] ELSE v

Ordered(test, x, y) ==
  \/ test = "Equals" /\ x = y
  \/ test = "LessThan" /\ x < y
  \/ test = "LessThanEquals" /\ x <= y
  \/ test = "GreaterThan" /\ x > y
  \/ test = "GreaterThanEquals" /\ x >= y

(* The actual value a satisfies the policy value w: opStringEquals and the *)
(* other positive operators, for one value.                                *)
Satisfies(op, a, w) ==
  \/ /\ op.kind = "String"
     /\ \/ op.test = "Equals" /\ a = w
        \/ op.test = "EqualsIgnoreCase" /\ Lower(a) = Lower(w)
        \/ op.test = "Like" /\ <<w, a>> \in LikePairs
  \/ /\ op.kind = "Bool"
     /\ {Lower(a), Lower(w)} \subseteq DOMAIN FlagOf
     /\ FlagOf[Lower(a)] = FlagOf[Lower(w)]
  \/ /\ op.kind = "Numeric"
     /\ {a, w} \subseteq DOMAIN NumberOf
     /\ Ordered(op.test, NumberOf[a], NumberOf[w])
  \/ /\ op.kind = "Date"
     /\ {a, w} \subseteq DOMAIN InstantOf
     /\ Ordered(op.test, InstantOf[a], InstantOf[w])
  \/ /\ op.kind = "IpAddress" /\ a \in DOMAIN AddressOf
     /\ IF w \in DOMAIN NetworkOf THEN AddressOf[a] \in NetworkOf[w]
        ELSE w \in DOMAIN AddressOf /\ AddressOf[a] = AddressOf[w]

(* conditionOps[op] applied to a looked-up value: the wants OR together,   *)
(* Null asks for presence itself, every other positive operator fails on   *)
(* an absent key, and a negated one is the negation of its positive form.  *)
HoldsPositively(op, value, wants) ==
  IF op.kind = "Null"
  THEN \E w \in wants : w \in DOMAIN FlagOf /\ (FlagOf[w] <=> value = Absent)
  ELSE value # Absent /\ \E w \in wants : Satisfies(op, value[1], w)

Holds(op, value, wants) ==
  IF op.not THEN ~HoldsPositively(op, value, wants)
            ELSE HoldsPositively(op, value, wants)
-----------------------------------------------------------------------------
FromContext(key, ctx) ==
  IF key \in DOMAIN ctx THEN Present(ctx[key]) ELSE Absent

(* conditionValue: a resource.path[N] key reads the resource, never ctx.   *)
ConditionValue(key, ctx, path) ==
  IF key \in DOMAIN PathIndexOf
  THEN IF PathIndexOf[key] < Len(path)
       THEN Present(path[PathIndexOf[key] + 1]) ELSE Absent
  ELSE FromContext(key, ctx)

(* evalConditions: all operators and all keys must pass; an absent key     *)
(* passes an IfExists operator.                                            *)
KeyPasses(op, value, wants) ==
  (value = Absent /\ op.ifExists) \/ Holds(op, value, wants)

EvalConditions(conds, ctx, path) ==
  \A op \in DOMAIN conds :
    /\ Known(op)
    /\ \A key \in DOMAIN conds[op] :
         KeyPasses(op, ConditionValue(key, ctx, path), conds[op][key])

(* Mutant of the next one: a context entry may shadow a reserved key.      *)
DeferredUnlessInContext(key, ctx) == key \notin DOMAIN ctx

(* resolveConditions: a key is decided now when the context has it and it  *)
(* is not one that reads the resource.                                     *)
Deferred(key, ctx) == key \in DOMAIN PathIndexOf \/ key \notin DOMAIN ctx

Resolves(conds, ctx) ==
  \A op \in DOMAIN conds :
    /\ Known(op)
    /\ \A key \in DOMAIN conds[op] :
         ~Deferred(key, ctx) => Holds(op, Present(ctx[key]), conds[op][key])

(* The conditions left to the adapter, under their original operators.     *)
Residual(conds, ctx) ==
  LET Left(op) == {key \in DOMAIN conds[op] : Deferred(key, ctx)}
  IN  [op \in {o \in DOMAIN conds : Left(o) # {}} |->
         [key \in Left(op) |-> conds[op][key]]]

(* The context f, completed by g.                                          *)
Merge(f, g) ==
  [k \in DOMAIN f \cup DOMAIN g |-> IF k \in DOMAIN f THEN f[k] ELSE g[k]]
-----------------------------------------------------------------------------
(* validateConditions                                                      *)
ValidKey(key) ==
  /\ key # ""
  /\ key \in ReservedKeys => key \in DOMAIN PathIndexOf
  /\ key \notin MalformedKeys

ValidConditions(conds) ==
  \A op \in DOMAIN conds :
    /\ Known(op) /\ DOMAIN conds[op] # {}
    /\ \A key \in DOMAIN conds[op] : ValidKey(key)
=============================================================================
