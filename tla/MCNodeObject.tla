---------------------------- MODULE MCNodeObject ----------------------------
(***************************************************************************)
(* The values of an annotation: what the metadata service says of the node *)
(* and what someone else may say.                                          *)
(***************************************************************************)
EXTENDS NodeObject

MCValues   == {"own", "other"}
MCMetadata == [kind \in Kinds |-> "own"]

Budget(report, fault, restart, other) ==
  [k \in BudgetKeys |-> CASE k = "report" -> report [] k = "fault" -> fault
                          [] k = "restart" -> restart [] k = "other" -> other]

MCBudgets == {Budget(1, 1, 0, 1), Budget(2, 0, 0, 0), Budget(0, 1, 1, 1), Budget(0, 2, 0, 0)}
=============================================================================
