----------------------------- MODULE MCEvaluator -----------------------------
(* Model-checking instances of Evaluator: one set of forms per question.   *)
EXTENDS Evaluator
=============================================================================
