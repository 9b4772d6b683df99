---------------------------- MODULE MCEvaluation ----------------------------
(* Evaluation alone, for the plans whose promises the code does not keep. *)
EXTENDS Evaluation, EvaluationPlans
=============================================================================
