--------------------------- MODULE MCConditionWalk ---------------------------
(* Bounds for ConditionWalk: every block of up to two conditions out of    *)
(* twenty that cover the operator kinds, their negations, IfExists and     *)
(* an operator that does not exist, and some of three; contexts and rows   *)
(* that know nothing, agree, disagree, or hold what does not parse.        *)
EXTENDS ConditionWalk, FiniteSetsExt

MCPathIndexOf == [key \in {"resource.path[1]"} |-> 1]
MCReservedKeys == {"resource.path[1]"}
MCLowerOf == [v \in {"ENG", "True"} |-> IF v = "ENG" THEN "eng" ELSE "true"]
MCFlagOf == [v \in {"true", "false", "True"} |-> v # "false"]
MCNumberOf == [v \in {"1", "2", "3"} |->
                 CASE v = "1" -> 1 [] v = "2" -> 2 [] v = "3" -> 3]
MCInstantOf == [v \in {"2026", "2027"} |-> IF v = "2026" THEN 0 ELSE 1]
MCAddressOf == [v \in {"10.0.0.1", "10.0.0.2", "::ffff:10.0.0.2"} |->
                  IF v = "10.0.0.1" THEN 1 ELSE 2]
MCNetworkOf == [v \in {"10.0.0.1/32"} |-> {1}]
MCLikePairs == {<<"e*", "eng">>}

On(kind, test, key, wants) ==
  <<[kind |-> kind, test |-> test, not |-> FALSE, ifExists |-> FALSE], key, wants>>
Not(atom) == <<[atom[1] EXCEPT !.not = TRUE], atom[2], atom[3]>>
IfExists(atom) == <<[atom[1] EXCEPT !.ifExists = TRUE], atom[2], atom[3]>>

InEng == On("String", "Equals", "dept", {"eng"})
UnderB == On("String", "Equals", "resource.path[1]", {"b"})
Like == On("String", "Like", "dept", {"e*", "x*"})
One == On("Numeric", "Equals", "n", {"1", "many"})
Net == On("IpAddress", "Equals", "n", {"10.0.0.1/32", "10.0.0.2"})

Atoms ==
  { InEng, Not(InEng), IfExists(InEng), UnderB, Not(UnderB), IfExists(UnderB),
    On("String", "EqualsIgnoreCase", "dept", {"ENG"}), Like, IfExists(Not(Like)),
    On("Bool", "Equals", "n", {"True"}), One, Not(One),
    On("Numeric", "LessThan", "n", {"2"}), On("Numeric", "GreaterThanEquals", "n", {"2"}),
    On("Date", "GreaterThan", "n", {"2026"}), Net, Not(Net),
    On("Null", "Equals", "dept", {"true"}), On("Null", "Equals", "n", {"false"}),
    On("String", "LessThan", "dept", {"eng"}) }

Block(S) ==
  LET Op(a) == a[1]
  IN  [o \in {Op(a) : a \in S} |->
         [k \in {a[2] : a \in {b \in S : b[1] = o}} |->
            (CHOOSE a \in S : a[1] = o /\ a[2] = k)[3]]]

(* Two atoms of the same operator and key would need two values there.     *)
MCBlocks ==
  { Block(S) : S \in {{}} \cup kSubset(1, Atoms) \cup kSubset(2, Atoms)
                       \cup { {InEng, UnderB, a} : a \in Atoms } }

Known1(key, value) == [k \in {key} |-> value]
Known2(d, n) == [k \in {"dept", "n"} |-> IF k = "dept" THEN d ELSE n]
Nothing == [k \in {} |-> ""]

MCContexts ==
  { Nothing, Known1("dept", "eng"), Known1("n", "1"), Known2("ENG", "3"),
    Known1("resource.path[1]", "b") }

MCAttributes ==
  { Nothing, Known1("dept", "eng"), Known1("dept", "ops"), Known2("ENG", "2027"),
    Known2("eng", "10.0.0.1"), Known2("eng", "::ffff:10.0.0.2"), Known1("n", "true") }

MCPaths == { <<"a">>, <<"a", "b">>, <<"a", "c">> }
=============================================================================
