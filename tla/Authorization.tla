---------------------------- MODULE Authorization ----------------------------
(***************************************************************************)
(* What a caller of the engine may rely on: it asks about a request under  *)
(* a set of statements and is answered once, with a decision that does not *)
(* depend on the order of the statements or on how they are searched.      *)
(***************************************************************************)
CONSTANTS Policies,           \* the sets of statements a caller may be under
          Requests,
          Acceptable(_, _)    \* the acceptable decisions for a policy and a request

VARIABLES asked,       \* the open question <<policy, request>>, else <<>>
          answer       \* its decision <<d>>, else <<>>

vars == <<asked, answer>>

Init == asked = <<>> /\ answer = <<>>

Ask ==
  /\ asked = <<>>
  /\ asked' \in Policies \X Requests
  /\ UNCHANGED answer

Answer ==
  /\ asked # <<>> /\ answer = <<>>
  /\ answer' \in {<<d>> : d \in Acceptable(asked[1], asked[2])}
  /\ UNCHANGED asked

Take ==
  /\ answer # <<>>
  /\ asked' = <<>> /\ answer' = <<>>

Next == Ask \/ Answer \/ Take

Safety == Init /\ [][Next]_vars

(* Every question is answered.                                             *)
Spec == Safety /\ WF_vars(Answer)
=============================================================================
