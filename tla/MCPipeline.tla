---------------------------- MODULE MCPipeline ----------------------------
(***************************************************************************)
(* Small instances of Pipeline: the configurations give it the shape of    *)
(* one of the detections of Handlers and the bounds.                       *)
(***************************************************************************)
EXTENDS Pipeline, Handlers, TLC

RuleSymmetry == Permutations(SgRules)
=============================================================================
