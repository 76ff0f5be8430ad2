---------------------------- MODULE MCStoryboard ----------------------------
(***************************************************************************)
(* Storyboard with two grids, whose columns and intervals leave a row or a *)
(* tile partly empty, and lengths before, at and after the boundaries.     *)
(***************************************************************************)
EXTENDS Storyboard, TLC

TheDefault == [interval |-> 2, width |-> 3, height |-> 2, columns |-> 3]
Unset == [k \in Dimension |-> 0]
Other == [interval |-> 1, width |-> 0, height |-> 3, columns |-> 2]

Settings == {Unset, Other}

\* In halves of a second: nothing, too short for a tile of one of the grids and
\* for a poster frame, long enough for all three, and a tick beyond full rows
Lengths == {0, 1, 3, 13}

Faults(f, d, s, r, e) ==
    [k \in FaultKind |->
        CASE k = "fail" -> f [] k = "disk" -> d [] k = "stop" -> s
          [] k = "keep" -> r [] k = "edit" -> e]

SharedBudget == Faults(1, 0, 1, 0, 1)

Slots == Permutations(Slot)
=============================================================================
