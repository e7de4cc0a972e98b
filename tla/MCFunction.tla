----------------------------- MODULE MCFunction -----------------------------
(***************************************************************************)
(* Small instances of Function: environments that are right, in dry-run    *)
(* by default, and wrong in one way each.                                  *)
(***************************************************************************)
EXTENDS Function, TLC

Armed == [detectionId |-> "set", tableName |-> "set", dryRun |-> "falsy",
          limits |-> "positive", secretArn |-> "set"]

MCEnvironments ==
    {Armed,
     [Armed EXCEPT !.dryRun = "unset", !.limits = "unset"],
     [Armed EXCEPT !.secretArn = "unset"],
     [Armed EXCEPT !.dryRun = "malformed"],
     [Armed EXCEPT !.tableName = "unset"]}

Symmetry == Permutations(Containers) \cup Permutations(Webhooks)
=============================================================================
