------------------------------ MODULE MCDecider ------------------------------
(* Bounds for Decider: every list of up to three of eight statements that  *)
(* differ in effect, sid, action form, tenant form, resource and condition *)
(* kind, against every request over two operations, three tenants,         *)
(* three resources, two contexts and both values of the marker.            *)
EXTENDS Decider

Op(kind, test, not, ifExists) ==
  [kind |-> kind, test |-> test, not |-> not, ifExists |-> ifExists]

If(op, key, wants) == [o \in {op} |-> [k \in {key} |-> wants]]

MCPathIndexOf == [key \in {"resource.path[1]"} |-> 1]
MCReservedKeys == {"resource.path[1]", "resource.path[two]"}
NoTable == [v \in {} |-> 0]

Pattern(tenant, resource) ==
  [tenant |-> tenant, scope |-> Wildcard, service |-> "file",
   region |-> Wildcard, type |-> Wildcard, resource |-> resource]

Resource(tenant, path) ==
  [tenant |-> tenant, scope |-> "", service |-> "file",
   region |-> "", type |-> "object", resource |-> path]

Stmt(sid, effect, action, pattern, conds) ==
  [sid |-> sid, effect |-> effect, actions |-> <<action>>,
   patterns |-> <<pattern>>, conditions |-> conds]

InEng == If(Op("String", "Equals", FALSE, FALSE), "dept", {"eng"})
NotEng == If(Op("String", "Equals", TRUE, FALSE), "dept", {"eng"})
UnderB == If(Op("String", "Equals", FALSE, FALSE), "resource.path[1]", {"b"})

MCStatements ==
  { Stmt("own", "allow", <<"file", "get">>, Pattern("aic", <<"**">>), NoConditions),
    Stmt("all", "allow", <<"*">>, Pattern("aic", <<"a", "**">>), InEng),
    Stmt("", "allow", <<"file", "*">>, Pattern("t1", <<"*">>), NoConditions),
    Stmt("foreign", "allow", <<"file", "get">>, Pattern("t2", <<"**">>), NoConditions),
    Stmt("inb", "allow", <<"file", "get">>, Pattern("aic", <<"**">>), UnderB),
    Stmt("", "deny", <<"file", "put">>, Pattern("aic", <<"**">>), NoConditions),
    Stmt("nob", "deny", <<"*">>, Pattern("aic", <<"*", "b">>), NoConditions),
    Stmt("dept", "deny", <<"file", "*">>, Pattern("t1", <<"**">>), NotEng) }

MCCompilations == UNION { [1..n -> MCStatements] : n \in 0..3 }

MCRequests ==
  [ action : {<<"file", "get">>, <<"file", "put">>, <<"file", "*">>},
    resource : {Resource("t1", <<"a">>), Resource("t1", <<"a", "b">>),
                Resource("t2", <<"a">>)},
    tenant : {"t1", "t2", ""},
    published : BOOLEAN,
    context : {[k \in {} |-> ""], [k \in {"dept"} |-> "eng"]} ]
=============================================================================
