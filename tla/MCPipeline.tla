----------------------------- MODULE MCPipeline -----------------------------
(***************************************************************************)
(* Pipeline on small instances.  Each configuration picks a budget.        *)
(***************************************************************************)
EXTENDS Pipeline, TLC

CONSTANTS v1, w1, w2, s1, s2

Faults(f, p, l, d, g, r, c, s) ==
    [k \in FaultKind |->
        CASE k = "fail" -> f [] k = "slip" -> p [] k = "lost" -> l [] k = "dup" -> d
          [] k = "gone" -> g [] k = "keep" -> r [] k = "crash" -> c [] k = "stop" -> s]

OneVideo == {v1}
OneWorker == {w1}
TwoWorkers == {w1, w2}
OneSlot == {s1}
TwoSlots == {s1, s2}

Interchangeable == Permutations(Worker)

FaultsBudget == Faults(2, 1, 1, 0, 1, 1, 1, 1)
SettlesBudget == Faults(1, 0, 1, 1, 0, 0, 1, 1)
LoopBudget == Faults(1, 0, 1, 1, 0, 0, 1, 1)
ShutdownBudget == Faults(0, 0, 0, 0, 0, 0, 0, 1)
DeleteBudget == Faults(0, 0, 0, 0, 0, 0, 0, 0)
=============================================================================
