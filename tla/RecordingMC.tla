----------------------------- MODULE RecordingMC -----------------------------
(* Values for the constants of Recording: a buffer whose user keeps its    *)
(* handle, one that may be dropped at any time, and a texture view.        *)
EXTENDS Recording, TLC

CONSTANTS e1, e2, p1, p2, kept, loose, view

TwoEncoders    == {e1, e2}
JustOne        == {e1}
TwoPasses      == {p1, p2}
ThreeResources == {kept, loose, view}
TwoBuffers     == {kept, loose}
KeptOnes       == {kept, view}

ThreeCalls ==
    [op : {"encoder"}, uses : {{loose}}]
    \cup [op : {"begin"}, uses : {{view}}]
    \cup [op : {"pass"}, uses : {{kept}}]

Few   == [e \in Encoders |-> IF e \in Borrowing THEN 3 ELSE 2]
Clones == [r \in Resources |-> IF r = kept THEN 2 ELSE 1]

Alike == Permutations(TwoPasses)
=============================================================================
