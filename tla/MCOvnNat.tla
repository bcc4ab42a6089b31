------------------------------ MODULE MCOvnNat ------------------------------
(***************************************************************************)
(* OvnNat for TLC.                                                         *)
(***************************************************************************)
EXTENDS OvnNat, TLC

CONSTANTS e1, r1, r2, a1

\* All rules use one EIP, DNAT rules the same port; internal addresses differ.
OnEip == [r \in Rules |-> e1]

OwnInner == [r \in Rules |-> r]

OnePort == [r \in Rules |-> 80]

Random == [e \in Eips |-> NoIP]

\* The EIP is ready or users make it; they make m and n objects of r1 and r2,
\* of the kinds ks and ls.
Start(ready, m, n, ks, ls, f) ==
    [ready |-> IF ready THEN {e1} ELSE {}, faults |-> f,
     makes |-> e1 :> (IF ready THEN 0 ELSE 1) @@ r1 :> m @@ r2 :> n,
     kinds |-> r1 :> ks @@ r2 :> ls]

\* An EIP and a rule are made from nothing, with faults; or two rules come and
\* go on an EIP that is ready; or the name of a rule is used twice.
Each == {Start(FALSE, 1, 0, Kinds, {"fip"}, 0),
         Start(TRUE, 1, 1, {"fip"}, {"snat"}, MaxFaults),
         Start(TRUE, 2, 0, Kinds, {"fip"}, MaxFaults)}

Two == {Start(TRUE, 1, 1, {"dnat"}, {"dnat"}, MaxFaults)}
=============================================================================
