------------------------------- MODULE Engine --------------------------------
(***************************************************************************)
(* A service that uses the engine (engine/engine.go).  One goroutine       *)
(* compiles the caller's document and holds the result for later calls, or *)
(* drops it after one call, as the package functions Decide and Constrain  *)
(* do; one gates requests with Decide and one lists with Constrain.  They  *)
(* share the compiled value, and the owner of the document goes on writing *)
(* into it while all of them run.                                          *)
(*                                                                         *)
(* Compiler, Decider and Constrainer are the three calls; here are the     *)
(* hand-overs between them.                                                *)
(***************************************************************************)
EXTENDS Compiler

CONSTANTS Requests, NoRequest, Queries, NoQuery, Rows

ASSUME CallAssumption ==
  /\ NoRequest \notin Requests /\ NoQuery \notin Queries
  /\ \A r \in Requests :
       /\ DOMAIN r = {"action", "resource", "tenant", "published", "context"}
       /\ r.published \in BOOLEAN

VARIABLES held,        \* the compiled value held <<[statements, source]>>, or <<>>
          gatePc, gateStatements, request, gateAt, allow, decision,
          gateSource,  \* history: the document the gate's statements are from
          listPc, listStatements, query, listAt, patternAt, residual, out,
          listSource   \* history: the document the list's statements are from

compileVars == <<document, clones, phase, policyAt, statementAt, compiled, fault, source>>
gateVars == <<gatePc, gateStatements, request, gateAt, allow, decision, gateSource>>
listVars == <<listPc, listStatements, query, listAt, patternAt, residual, out, listSource>>
allVars == <<compileVars, held, gateVars, listVars>>

Compilations == {Result(d) : d \in Sources}

Gate == INSTANCE Decider WITH
  pc <- gatePc, statements <- ReadBack(gateStatements), i <- gateAt

List == INSTANCE Constrainer WITH
  pc <- listPc, statements <- ReadBack(listStatements),
  i <- listAt, j <- patternAt

EngineInit ==
  /\ Init /\ held = <<>>
  /\ gateStatements = <<>> /\ gateSource = <<>> /\ Gate!Init
  /\ listStatements = <<>> /\ listSource = <<>> /\ List!Init
-----------------------------------------------------------------------------
(* The compiling goroutine, and the owner of the document.                 *)
CompileStep == (Call \/ Compile) /\ UNCHANGED <<held, gateVars, listVars>>

OwnerEdits == Edit /\ UNCHANGED <<held, gateVars, listVars>>

(* The service keeps the result, also one it did not check for an error.   *)
Hold ==
  /\ held' = <<[statements |-> compiled, source |-> source]>>
  /\ Drop /\ UNCHANGED <<gateVars, listVars>>

(* h.Decide(r) on the value held at the time of the call.                  *)
DecideHeld ==
  /\ held # <<>> /\ gatePc = "idle"
  /\ gateStatements' = held[1].statements /\ gateSource' = held[1].source
  /\ UNCHANGED <<compileVars, held, listVars>>
  /\ \E r \in Requests : Gate!Call(ReadBack(held[1].statements), r)

(* The package function: Compile, then Decide on what it returned, with an *)
(* "invalid policy" denial for an error.                                   *)
DecideOnce ==
  /\ phase = "done" /\ gatePc = "idle"
  /\ gateStatements' = compiled /\ gateSource' = source
  /\ Drop /\ UNCHANGED <<held, listVars>>
  /\ \E r \in Requests :
       IF fault = "none" THEN Gate!Call(ReadBack(compiled), r)
       ELSE /\ gatePc' = "failed" /\ request' = r
            /\ UNCHANGED <<gateAt, allow, decision>>

GateFails ==
  /\ gatePc = "failed"
  /\ gatePc' = "done" /\ decision' = FaultDecision
  /\ UNCHANGED <<compileVars, held, gateStatements, request, gateAt, allow,
                 gateSource, listVars>>

ConstrainHeld ==
  /\ held # <<>> /\ listPc = "idle"
  /\ listStatements' = held[1].statements /\ listSource' = held[1].source
  /\ UNCHANGED <<compileVars, held, gateVars>>
  /\ \E q \in Queries : List!Call(ReadBack(held[1].statements), q)

ConstrainOnce ==
  /\ phase = "done" /\ listPc = "idle"
  /\ listStatements' = compiled /\ listSource' = source
  /\ Drop /\ UNCHANGED <<held, gateVars>>
  /\ \E q \in Queries :
       IF fault = "none" THEN List!Call(ReadBack(compiled), q)
       ELSE /\ listPc' = "done" /\ query' = q /\ out' = List!NoConstraints
            /\ UNCHANGED <<listAt, patternAt, residual>>

GateStep ==
  /\ UNCHANGED <<compileVars, held, gateStatements, gateSource, listVars>>
  /\ Gate!Evaluate

GateReturns ==
  /\ gateStatements' = <<>> /\ gateSource' = <<>>
  /\ UNCHANGED <<compileVars, held, listVars>>
  /\ Gate!Deliver

ListStep ==
  /\ UNCHANGED <<compileVars, held, gateVars, listStatements, listSource>>
  /\ List!Collect

ListReturns ==
  /\ listStatements' = <<>> /\ listSource' = <<>>
  /\ UNCHANGED <<compileVars, held, gateVars>>
  /\ List!Deliver

EngineNext ==
  \/ CompileStep \/ OwnerEdits \/ Hold
  \/ DecideHeld \/ DecideOnce \/ GateStep \/ GateFails \/ GateReturns
  \/ ConstrainHeld \/ ConstrainOnce \/ ListStep \/ ListReturns

(* The scheduler runs a goroutine that is inside Decide; nobody has to     *)
(* call.                                                                   *)
EngineSpec ==
  EngineInit /\ [][EngineNext]_allVars /\ WF_allVars(GateStep \/ GateFails)
-----------------------------------------------------------------------------
(* The result of a compile that failed denies everything: "implicit deny"  *)
(* when the service held it, "invalid policy" from the package function.   *)
AcceptableFrom(d, r) ==
  IF FirstFault(d) = "none" THEN Acceptable(Range(Meaning(d)), r)
  ELSE {FaultDecision, [FaultDecision EXCEPT !.reason = "implicit deny"]}

Promise == INSTANCE Authorization WITH
  Policies <- Sources, Acceptable <- AcceptableFrom,
  asked <- IF gatePc = "idle" THEN <<>> ELSE <<gateSource, request>>,
  answer <- IF gatePc = "done" THEN <<decision>> ELSE <<>>

(* Whatever the owner writes into the document meanwhile, and whatever     *)
(* else is compiled meanwhile, a request is answered once, and as the      *)
(* document said when it was compiled; a document with a fault denies.     *)
KeepsPromise == Promise!Spec

(* A list shows the rows its document permitted when it was compiled, and  *)
(* none under a document with a fault.                                     *)
ListsAsCompiled ==
  listPc = "done" =>
    \A row \in Rows :
      List!Selected(out, row) <=>
        /\ FirstFault(listSource) = "none"
        /\ Permitted(Range(Meaning(listSource)), List!GateRequest(query, row))
=============================================================================
