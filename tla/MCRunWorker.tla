---------------------------- MODULE MCRunWorker ----------------------------
EXTENDS RunWorker, TLC
CONSTANTS crash, stop, db, stall, cancel

MCBudget == [f \in Faults |-> CASE f = "crash" -> crash [] f = "stop" -> stop
                  [] f = "db" -> db [] f = "stall" -> stall [] f = "cancel" -> cancel]
OneGroup == [u \in Units |-> "g1"]

TwoGroups == [u \in Units |-> u]
Symmetry == Permutations(Workers) \cup Permutations(Units)
=============================================================================
