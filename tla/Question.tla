------------------------------ MODULE Question ------------------------------
(***************************************************************************)
(* Functions without state of their own are checked as questions: a        *)
(* behaviour picks one call, `question', a tuple that starts with the name *)
(* of what is asked, and one step computes its results into `answer'.      *)
(***************************************************************************)
EXTENDS Integers, Sequences

CONSTANT NONE            \* the answer before it is computed, a model value

VARIABLES question, answer

askVars == <<question, answer>>

Unanswered == answer = NONE

\* One call of F.
Ask(F(_)) ==
  /\ Unanswered
  /\ answer' = F(question)
  /\ UNCHANGED question
=============================================================================
