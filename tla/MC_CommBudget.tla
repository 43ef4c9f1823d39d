----------------------------- MODULE MC_CommBudget -----------------------------
(* CommBudget on the instances of MC_CommProtocol.                            *)
EXTENDS CommBudget, MC_CommProtocol
================================================================================
