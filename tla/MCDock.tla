------------------------------- MODULE MCDock -------------------------------
EXTENDS Dock, TLC

DoorSymmetry == Permutations(Doors)

MCPayload == [i \in Intakes |-> IF i = "back" THEN "ours" ELSE "theirs"]
=============================================================================
