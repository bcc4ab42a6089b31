--------------------------- MODULE MCPodLifecycle ---------------------------
(***************************************************************************)
(* PodLifecycle for TLC.  Every name has two incarnations, some of which   *)
(* are gone when a behaviour starts.  Ordinary names are interchangeable,  *)
(* and so are addresses nobody asks for by value.                          *)
(***************************************************************************)
EXTENDS PodLifecycle, TLC

CONSTANTS k1, k2, a1, a2

TwoEach == [k \in Keys |-> 2]

\* The names of a set have n incarnations left, the others none.
Left(names, n, f) == [uids |-> [k \in Keys |-> IF k \in names THEN 2 - n ELSE 2],
                      owners |-> names \cap StsKeys, faults |-> f]

\* Every name once, with all faults.
OnceEach == {Left(Keys, 1, 0)}

\* A name twice and no faults, or once and all faults.
TwiceOrFaults == {Left({k1}, 2, MaxFaults), Left({k1}, 1, 0)}

\* A name twice, with all faults.
Twice == {Left({k1}, 2, 0)}

KeySymmetry == Permutations(Keys \ StsKeys)

Symmetry == KeySymmetry \cup Permutations(Addresses \ Requests)

=============================================================================
