------------------------------ MODULE Compiler -------------------------------
(***************************************************************************)
(* Compile (engine/engine.go): the loop over the policies of a document    *)
(* and the statements of a policy.  The document lives in the caller's     *)
(* memory and the caller goes on editing it, in place, after the call; a   *)
(* slice that the engine cloned is its own.                                *)
(*                                                                         *)
(* A slice is <<"caller", p, s>>, the actions of statement s of policy p,  *)
(* or <<"engine", n>>, the n-th clone.  Condition blocks are shared and    *)
(* their contract forbids to edit them, so they are plain values here.     *)
(***************************************************************************)
EXTENDS Documents

CONSTANTS Sources,    \* the documents a caller may write
          MaxClones   \* bound: Compile is not called again beyond it

(* The statements that occur in documents: a document is a list of         *)
(* policies, a policy a list of statements.                                *)
Written == UNION {UNION {Range(policy) : policy \in Range(d)} : d \in Sources}

ASSUME SourceAssumption ==
  /\ Sources \subseteq Seq(Seq(Written))
  /\ \A st \in Written : /\ Len(st.resources) \in Nat
                         /\ DOMAIN st.resources = 1..Len(st.resources)

VARIABLES document,     \* the caller's policies, as they are now
          clones,       \* the action slices the engine allocated
          phase,        \* "idle", "policy", "statement" or "done"
          policyAt,     \* the policy Compile is at
          statementAt,  \* the statement Compile is at
          compiled,     \* the result; an action list is a slice
          fault,        \* the error of the result, or "none"
          source        \* history: the document when Compile was called

vars == <<document, clones, phase, policyAt, statementAt, compiled, fault, source>>

Init ==
  /\ document \in Sources
  /\ clones = <<>> /\ phase = "idle" /\ policyAt = 1 /\ statementAt = 1
  /\ compiled = <<>> /\ fault = "none" /\ source = <<>>
-----------------------------------------------------------------------------
Call ==
  /\ phase = "idle" /\ Len(clones) < MaxClones
  /\ phase' = "policy" /\ policyAt' = 1 /\ statementAt' = 1
  /\ compiled' = <<>> /\ fault' = "none" /\ source' = document
  /\ UNCHANGED <<document, clones>>

(* Mutant: the statements compiled so far are returned with the error.     *)
FailPartly(kind) ==
  /\ phase' = "done" /\ fault' = kind
  /\ UNCHANGED <<document, clones, policyAt, statementAt, compiled, source>>

(* return Compiled{}, &ParseError{...}                                     *)
Fail(kind) ==
  /\ phase' = "done" /\ fault' = kind /\ compiled' = <<>>
  /\ UNCHANGED <<document, clones, policyAt, statementAt, source>>

AtPolicy == phase = "policy" /\ policyAt <= Len(document)

RejectPolicy ==
  /\ AtPolicy /\ ~Valid(document[policyAt])
  /\ Fail("invalid policy")

(* Mutant: an invalid policy is compiled for what it is worth.             *)
EnterAnyPolicy ==
  /\ AtPolicy
  /\ phase' = "statement" /\ statementAt' = 1
  /\ UNCHANGED <<document, clones, policyAt, compiled, fault, source>>

EnterPolicy ==
  /\ AtPolicy /\ Valid(document[policyAt])
  /\ phase' = "statement" /\ statementAt' = 1
  /\ UNCHANGED <<document, clones, policyAt, compiled, fault, source>>

Statement == document[policyAt][statementAt]

AtStatement ==
  phase = "statement" /\ statementAt <= Len(document[policyAt])

RejectStatement ==
  /\ AtStatement /\ StatementFault(Statement) # "none"
  /\ Fail(StatementFault(Statement))

Keep(slice) ==
  compiled' = Append(compiled, [Translation(Statement) EXCEPT !.actions = slice])

(* Mutant: the statement keeps the caller's action slice.                  *)
CompileSharing ==
  /\ AtStatement /\ StatementFault(Statement) = "none"
  /\ Keep(<<"caller", policyAt, statementAt>>)
  /\ statementAt' = statementAt + 1
  /\ UNCHANGED <<document, clones, phase, policyAt, fault, source>>

(* slices.Clone, then c.statements = append(c.statements, cs)              *)
CompileStatement ==
  /\ AtStatement /\ StatementFault(Statement) = "none"
  /\ clones' = Append(clones, Statement.actions)
  /\ Keep(<<"engine", Len(clones) + 1>>)
  /\ statementAt' = statementAt + 1
  /\ UNCHANGED <<document, phase, policyAt, fault, source>>

(* Mutant: every other policy is skipped.                                  *)
NextPolicyButOne ==
  /\ phase = "statement" /\ statementAt > Len(document[policyAt])
  /\ phase' = "policy" /\ policyAt' = policyAt + 2
  /\ UNCHANGED <<document, clones, statementAt, compiled, fault, source>>

NextPolicy ==
  /\ phase = "statement" /\ statementAt > Len(document[policyAt])
  /\ phase' = "policy" /\ policyAt' = policyAt + 1
  /\ UNCHANGED <<document, clones, statementAt, compiled, fault, source>>

ReturnCompiled ==
  /\ phase = "policy" /\ policyAt > Len(document)
  /\ phase' = "done"
  /\ UNCHANGED <<document, clones, policyAt, statementAt, compiled, fault, source>>

Compile == \/ RejectPolicy \/ EnterPolicy \/ RejectStatement \/ CompileStatement
           \/ NextPolicy \/ ReturnCompiled
-----------------------------------------------------------------------------
SameShape(d, e) ==
  /\ Len(d) = Len(e)
  /\ \A k \in DOMAIN d :
       /\ Len(d[k]) = Len(e[k])
       /\ \A m \in DOMAIN d[k] :
            /\ Len(d[k][m].actions) = Len(e[k][m].actions)
            /\ d[k][m].conditions = e[k][m].conditions

(* The caller writes into the slices of its document.                      *)
Edit ==
  /\ phase \in {"idle", "done"}
  /\ document' \in {d \in Sources : SameShape(d, document)} \ {document}
  /\ UNCHANGED <<clones, phase, policyAt, statementAt, compiled, fault, source>>

(* The caller is done with the result and may compile again.               *)
Drop ==
  /\ phase = "done"
  /\ phase' = "idle" /\ policyAt' = 1 /\ statementAt' = 1
  /\ compiled' = <<>> /\ fault' = "none" /\ source' = <<>>
  /\ UNCHANGED <<document, clones>>

Next == Call \/ Compile \/ Edit \/ Drop

Spec == Init /\ [][Next]_vars
-----------------------------------------------------------------------------
Content(slice) ==
  IF slice[1] = "caller" THEN document[slice[2]][slice[3]].actions
                         ELSE clones[slice[2]]

(* What the statements st mean with the memory as it is now.               *)
ReadBack(statements) ==
  [k \in DOMAIN statements |->
     [statements[k] EXCEPT !.actions = Content(@)]]

(* Types; the two loops stay inside the slices they range over.            *)
TypeOK ==
  /\ document \in Sources /\ source \in Sources \cup {<<>>}
  /\ phase \in {"idle", "policy", "statement", "done"}
  /\ phase \in {"policy", "statement"} =>
       policyAt \in 1..(Len(document) + 1)
  /\ phase = "statement" =>
       /\ policyAt <= Len(document)
       /\ statementAt \in 1..(Len(document[policyAt]) + 1)

(* A compiled document goes on meaning what the document said when it was  *)
(* compiled, all of it and in its order, whatever the caller writes into   *)
(* its own action and resource slices afterwards.                          *)
CompiledIsSnapshot ==
  phase = "done" /\ fault = "none" => ReadBack(compiled) = Meaning(source)

(* The error names the first fault of the document, and a sound document   *)
(* has none: nothing is skipped silently.                                  *)
ReportsFirstFault == phase = "done" => fault = FirstFault(source)
=============================================================================
