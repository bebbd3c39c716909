------------------------------ MODULE MCListing ------------------------------
(* Bounds for Listing, in three parts that share queries and rows.         *)
(*  - For Constrain: every list of up to two of eight statements, one of   *)
(*    them with two patterns, and some of three.                           *)
(*  - For Where: every operator it translates, as an allow and as a deny,  *)
(*    against rows on which its column is NULL, equal, other, a text with  *)
(*    a star and NaN, which PostgreSQL orders last; an allow and           *)
(*    a deny over the kinds of resource pattern; five tables: paths, ids,  *)
(*    ids with published rows, a projection whose tenant is answered       *)
(*    elsewhere, ids and paths.                                            *)
(*  - For Prefixes: globs with literals, single and deep wildcards in      *)
(*    every position, under no, one or two path conditions at, before,     *)
(*    inside and past the deep wildcard; values with a wildcard or a       *)
(*    slash; conditions and operators that no glob expresses.              *)
(* The contexts are empty, know a condition key, or try to shadow a        *)
(* reserved key.                                                           *)
EXTENDS Listing

Op(kind, test, not, ifExists) ==
  [kind |-> kind, test |-> test, not |-> not, ifExists |-> ifExists]

If(op, key, wants) == [o \in {op} |-> [x \in {key} |-> wants]]
Known1(key, value) == [x \in {key} |-> value]
Nothing == [x \in {} |-> ""]

PathKey(n) == CASE n = 0 -> "resource.path[0]" [] n = 1 -> "resource.path[1]"
                [] n = 2 -> "resource.path[2]" [] OTHER -> "resource.path[3]"
MCPathKeys == {PathKey(n) : n \in 0..3}
MCPathIndexOf == [key \in MCPathKeys |-> CHOOSE n \in 0..3 : PathKey(n) = key]
MCReservedKeys == MCPathKeys \cup {"resource.path[two]"}
MCFlagOf == [v \in {"true", "false"} |-> v = "true"]
MCNumberOf == [v \in {"1", "2"} |-> IF v = "1" THEN 1 ELSE 2]
MCColumnNumberOf == [v \in {"1", "2", "NaN"} |-> IF v = "NaN" THEN 3 ELSE MCNumberOf[v]]
MCLikePairs == {<<"e*", "eng">>, <<"eng", "eng">>, <<"a", "a">>}
MCSqlLikePairs == MCLikePairs \cup {<<"e*", "e**">>}
MCStarred == {Wildcard, DeepWildcard, "a*", "e*", "e**"}
NoTable == [v \in {} |-> 0]

Pattern(tenant, service, resource) ==
  [tenant |-> tenant, scope |-> Wildcard, service |-> service,
   region |-> Wildcard, type |-> Wildcard, resource |-> resource]

Stmt(effect, action, patterns, conds) ==
  [sid |-> "", effect |-> effect, actions |-> <<action>>,
   patterns |-> patterns, conditions |-> conds]

IsEng(not, ifExists) == If(Op("String", "Equals", not, ifExists), "dept", {"eng"})
UnderB == If(Op("String", "Equals", FALSE, FALSE), "resource.path[1]", {"b"})
NoDept == If(Op("Null", "Equals", FALSE, FALSE), "dept", {"true"})
Both == [o \in {Op("String", "Equals", FALSE, FALSE)} |->
           [x \in {"dept", "resource.path[1]"} |->
              IF x = "dept" THEN {"eng"} ELSE {"b"}]]

Own == Pattern("aic", Wildcard, <<"**">>)

ShortStatements ==
  { Stmt("allow", <<"file", "get">>, <<Own>>, NoConditions),
    Stmt("allow", <<"*">>, <<Pattern("t2", "file", <<"**">>), Pattern("t1", "file", <<"*">>)>>, NoConditions),
    Stmt("allow", <<"file", "*">>, <<Own>>, IsEng(FALSE, TRUE)),
    Stmt("allow", <<"file", "get">>, <<Own>>, Both),
    Stmt("allow", <<"file", "get">>, <<Own>>, NoDept),
    Stmt("deny", <<"file", "get">>, <<Pattern("aic", "group", <<"**">>)>>, NoConditions),
    Stmt("deny", <<"*">>, <<Pattern("aic", Wildcard, <<"a", "**">>)>>, IsEng(TRUE, FALSE)),
    Stmt("deny", <<"file", "get">>, <<Pattern("t2", Wildcard, <<"**">>)>>, UnderB) }

ShortLists ==
  UNION { [1..n -> ShortStatements] : n \in 0..2 }
    \cup { <<s, t, u>> : s \in {x \in ShortStatements : x.conditions = NoConditions},
                        t, u \in {x \in ShortStatements : x.effect = "deny"} }

-----------------------------------------------------------------------------
Ops(kind, tests, negations) ==
  {Op(kind, test, not, ifExists) : test \in tests, not \in negations, ifExists \in BOOLEAN}
DeptOps == Ops("String", {"Equals", "Like"}, BOOLEAN) \cup Ops("Null", {"Equals"}, {FALSE})
SizeOps == Ops("Numeric", {"Equals"}, BOOLEAN) \cup Ops("Numeric", {"LessThan", "GreaterThanEquals"}, {FALSE})
HotOps == Ops("Bool", {"Equals"}, {FALSE})
Untranslatable == {Op("Date", "Equals", FALSE, FALSE), Op("String", "EqualsIgnoreCase", FALSE, FALSE)}

Blocks ==
  {If(op, "dept", w) : op \in DeptOps, w \in {{"eng"}, {"eng", "e*"}, {"true"}, {}}}
    \cup {If(op, "size", w) : op \in SizeOps, w \in {{"2"}, {"1", "2"}, {"1", "NaN"}, {"many"}}}
    \cup {If(op, "hot", w) : op \in HotOps, w \in {{"true"}, {"false", "true"}, {"warm"}}}
    \cup {If(op, "dept", {"eng"}) : op \in Untranslatable}
    \cup {If(StringEquals, key, {"", "b"}) : key \in MCPathKeys}
    \cup {If(StringEquals, "colour", {"red"})}

All == Stmt("allow", <<"*">>, <<Own>>, NoConditions)

In(scope, region, type, resource) ==
  [Pattern("aic", "file", resource) EXCEPT !.scope = scope, !.region = region, !.type = type]

Shapes ==
  {Own, Pattern("t2", Wildcard, <<"**">>), Pattern("t1", "group", <<"**">>),
   In(Wildcard, "", "object", <<"*">>), In(Wildcard, Wildcard, Wildcard, <<"a">>),
   In(Wildcard, Wildcard, "folder", <<"a", "b">>), In(Wildcard, "eu", "object", <<"a", "**">>),
   In("s", Wildcard, "object", <<"a", "**">>), In(Wildcard, Wildcard, Wildcard, <<"a", "*">>),
   In(Wildcard, Wildcard, Wildcard, <<"a*", "**">>)}

Get(effect, p, conds) == Stmt(effect, <<"file", "get">>, <<p>>, conds)

TableLists ==
  {<<Get("allow", Own, b)>> : b \in Blocks} \cup {<<All, Get("deny", Own, b)>> : b \in Blocks}
    \cup {<<Get("allow", p, NoConditions), Get("deny", r, NoConditions)>> : p, r \in Shapes}
    \cup {<<Get("allow", Own, NoDept), Get("deny", Own, IsEng(TRUE, FALSE))>>}
-----------------------------------------------------------------------------
Globs == {<<"**">>, <<"*">>, <<"a", "**">>, <<"a", "*", "b">>, <<"*", "**">>, <<"**", "a">>, <<"a", "**", "*">>}

Pins(f) == [op \in {StringEquals} |-> f]
Pinned == {PathKey(n) : n \in 0..2}
Foldable ==
  {NoConditions} \cup {If(StringEquals, key, w) : key \in Pinned, w \in {{"a"}, {"a", "b", "b/a"}, {}}}
    \cup {Pins([key \in {p, q} |-> IF key = p THEN {"a"} ELSE {"b"}]) : p, q \in Pinned}
    \cup {If(StringEquals, "resource.path[1]", {"a*"}),
          Pins([key \in Pinned |-> IF key = "resource.path[2]" THEN {"a*"} ELSE {"b"}])}
Others == {If(StringEquals, "dept", {"eng"}), If(Op("String", "Like", FALSE, FALSE), "resource.path[0]", {"a"})}

At(effect, service, glob, conds) ==
  Stmt(effect, <<"*">>, <<Pattern("aic", service, glob)>>, conds)

StoreLists ==
  {<<At("allow", Wildcard, g, b)>> : g \in Globs, b \in Foldable \cup Others}
    \cup {<<At("allow", "file", <<"**">>, NoConditions), At("deny", s, g, b)>> :
            s \in {"file", "group"}, g \in {<<"*", "**">>}, b \in Foldable}
    \cup {<<At("allow", "group", <<"**">>, NoConditions), At("allow", "file", <<"a", "**">>, NoConditions)>>}

MCStore == [scope |-> "", service |-> "file", region |-> "", type |-> "object"]

MCCompilations == ShortLists \cup TableLists \cup StoreLists

Ask(action, tenant, context) == [action |-> action, tenant |-> tenant, context |-> context]

MCQueries ==
  {Ask(<<"file", "get">>, "t1", context) :
     context \in {Nothing, Known1("dept", "eng"), Known1("resource.path[1]", "b")}}
    \cup {Ask(<<"file", "put">>, "t2", Nothing), Ask(<<"*">>, "t1", Nothing)}
-----------------------------------------------------------------------------
Column(key) == [fn |-> "column", key |-> key]
Stored == [key \in {"dept", "size", "hot"} |-> Column(key)]
Allowed == [key \in {"dept", "size", "hot"} |->
  CASE key = "dept" -> DeptOps \cup Untranslatable [] key = "size" -> SizeOps [] OTHER -> HotOps]

Mapping(service, columns, fixed) ==
  [service |-> service, columns |-> columns, tenantAnswered |-> "tenant" \notin columns,
   published |-> FALSE, fixed |-> fixed, conditions |-> Stored, operators |-> Allowed]
Objects == [f \in {"scope", "region", "type"} |-> IF f = "type" THEN "object" ELSE ""]

Paths == Mapping("file", {"tenant", "scope", "type", "path"}, [f \in {"region"} |-> ""])
Ids == Mapping("file", {"tenant", "type", "id"}, [f \in {"region", "type"} |-> ""])
Catalog == [Mapping("file", {"tenant", "id"}, Objects) EXCEPT !.published = TRUE]
Projection == Mapping("file", {"id"}, Objects)
IdsAndPaths == Mapping("file", {"tenant", "id", "path"}, Objects)
Faulty == {Mapping("", {"tenant"}, Objects), Mapping(Wildcard, {"tenant"}, Objects),
           [Paths EXCEPT !.tenantAnswered = TRUE], [Projection EXCEPT !.tenantAnswered = FALSE]}

MCMappings == {Paths, Ids, Catalog, Projection, IdsAndPaths} \cup Faulty
CatalogOnly == {Catalog}
PathsOnly == {Paths}

Resource(tenant, service, type, path) ==
  [tenant |-> tenant, scope |-> "", service |-> service,
   region |-> "", type |-> type, resource |-> path]
Row(resource, attributes, marker) ==
  [resource |-> resource, attributes |-> attributes, marker |-> marker]
Full(dept, size, hot) ==
  [key \in {"dept", "size", "hot"} |-> CASE key = "dept" -> dept [] key = "size" -> size [] OTHER -> hot]
Bare(tenant, service, type, path) == Row(Resource(tenant, service, type, path), Nothing, Absent)

ShortPaths == UNION {[1..n -> {"a", "b"}] : n \in 1..3}

MCRows ==
  {Bare("t1", "file", "object", path) : path \in ShortPaths \cup {<<"">>, <<"a", "">>, <<"a", "b", "a", "b">>}}
    \cup {Bare("t1", "file", "folder", <<"a", "b">>), Bare("t1", "group", "object", <<"a">>),
          [Bare("t1", "file", "object", <<"a">>) EXCEPT !.resource.region = "eu"],
          [Bare("t1", "file", "object", <<"a">>) EXCEPT !.resource.scope = "s"]}
    \cup {Row(Resource("t1", "file", "object", path), Full(dept, size, "true"), Present("tenant")) :
            path \in {<<"a">>, <<"c", "b">>}, dept \in {"eng", "ops"}, size \in {"1", "2"}}
    \cup {Row(Resource("t1", "file", "object", <<"a">>), Full("e**", "NaN", "true"), Absent)}
    \cup {Row(Resource("t2", "file", "object", <<"a">>), Known1("hot", "false"), Absent),
          Row(Resource("t2", "file", "object", <<"c", "d">>), Known1("dept", "ops"), Absent)}
    \cup {Row(Resource("aic-id", "file", "object", <<id>>), attributes, Present("public")) :
            id \in {"a", "d"}, attributes \in {Nothing, Known1("dept", "eng"), Known1("dept", "ops")}}
=============================================================================
