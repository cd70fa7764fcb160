--------------------------- MODULE MCCompensation ---------------------------
(***************************************************************************)
(* Lists of up to three plans: every branch of the loop, and three         *)
(* attemptable effects in a row.                                           *)
(***************************************************************************)
EXTENDS Compensation

Plan(done, effect, compensator) ==
    [succeeded |-> done, effect_type |-> effect, compensator |-> compensator]

MCPlans ==
    {Plan(FALSE, "reversible", TRUE), Plan(TRUE, "read_only", TRUE),
     Plan(TRUE, "irreversible", TRUE), Plan(TRUE, "idempotent", TRUE),
     Plan(TRUE, "compensatable", FALSE), Plan(TRUE, "reversible", TRUE),
     Plan(TRUE, "stageable", TRUE)}

MCPlanLists == UNION {[1..n -> MCPlans] : n \in 0..3}
=============================================================================
