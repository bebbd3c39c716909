------------------------------ MODULE Documents ------------------------------
(***************************************************************************)
(* Policy documents as their authors write them, and what Compile makes of *)
(* them (policy/policy.go, engine/engine.go).                              *)
(*                                                                         *)
(* A document is the list of policies a caller is under; a policy is the   *)
(* list of its statements; a statement is                                  *)
(*   [sid, effect, actions, resources, conditions]                         *)
(* with its resources still texts.                                         *)
(***************************************************************************)
EXTENDS Statements, CrnText, SequencesExt

EmptyText == <<"">>    \* an action or a resource that is ""

(* Policy.Validate                                                         *)
Valid(policy) ==
  \A st \in Range(policy) :
    /\ st.effect \in Effects
    /\ st.actions # <<>> /\ st.resources # <<>>
    /\ EmptyText \notin Range(st.actions) \cup Range(st.resources)

(* compileStatement: the kind of its error, or "none"; the conditions are  *)
(* looked at first, then the actions, then the resources.                  *)
StatementFault(st) ==
  CASE ~ValidConditions(st.conditions) -> "invalid conditions"
    [] OTHER ->
       IF \E a \in Range(st.actions) : ~ValidActionPattern(a)
       THEN "invalid action"
       ELSE IF \E t \in Range(st.resources) : ParsePattern(t) = Rejected
            THEN "invalid pattern" ELSE "none"

Patterns(texts) == [k \in DOMAIN texts |-> ParsePattern(texts[k])[1]]

(* The compiled statement, as a value.                                     *)
Translation(st) ==
  [sid |-> st.sid, effect |-> st.effect, actions |-> st.actions,
   patterns |-> Patterns(st.resources), conditions |-> st.conditions]
-----------------------------------------------------------------------------
(* The reference: what is wrong with a whole document, if anything, is the *)
(* first thing wrong in it, and the shape of a policy comes before the     *)
(* text of any of its statements.                                          *)
Faulty(policy) ==
  ~Valid(policy) \/ \E st \in Range(policy) : StatementFault(st) # "none"

FirstFault(document) ==
  LET bad == {k \in DOMAIN document : Faulty(document[k])}
      policy == document[Min(bad)]
  IN  IF bad = {} THEN "none"
      ELSE IF ~Valid(policy) THEN "invalid policy"
      ELSE StatementFault(
             policy[Min({m \in DOMAIN policy : StatementFault(policy[m]) # "none"})])

(* What a sound document means: all its statements, in order.              *)
Meaning(document) ==
  LET all == FlattenSeq(document)
  IN  [k \in DOMAIN all |-> Translation(all[k])]

(* What Compile returns: nothing of a document with a fault.               *)
Result(document) ==
  IF FirstFault(document) = "none" THEN Meaning(document) ELSE <<>>

(* What the package function Decide answers under a faulty document.       *)
FaultDecision == [allowed |-> FALSE, reason |-> "invalid policy"]
=============================================================================
