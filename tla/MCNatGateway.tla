---------------------------- MODULE MCNatGateway ----------------------------
(***************************************************************************)
(* Instances of NatGateway for TLC: one gateway, one or two EIPs, one or   *)
(* two rules, and the scenarios that a run goes through.                   *)
(***************************************************************************)
EXTENDS NatGateway, TLC

CONSTANTS g1, e1, e2, r1, r2, i1, i2

MCGws == {g1}
MCEips == {e1, e2}
MCRules == {r1, r2}
MCInners == {i1, i2}
MCGwOf == [e \in MCEips |-> g1]

\* Rules r1 of kind k at e and r2 of kind l at e1, on different addresses.
Base(k, l, e) ==
    [there |-> {}, makes |-> {}, drops |-> {}, fresh |-> FALSE,
     kind |-> (r1 :> k) @@ (r2 :> l), at |-> (r1 :> e) @@ (r2 :> e1),
     inner |-> (r1 :> i1) @@ (r2 :> i2),
     edits |-> 0, restarts |-> 0, fails |-> 0, crashes |-> 0]

\* An EIP and a rule on it are made while the gateway comes up.
FromNothing ==
    {[Base(k, k, e1) EXCEPT !.fresh = TRUE, !.makes = {e1, r1}] :
       k \in {"fip", "share"}}

\* An EIP is made, and a call fails or the controller crashes.
NewEip ==
    {[Base("fip", "fip", e1) EXCEPT !.makes = {e1}, !.drops = {e1},
                                    !.fails = f, !.crashes = 1 - f] :
       f \in {0, 1}}

\* A rule is made and deleted, and a call fails or the controller crashes.
NewRules ==
    {[Base(k, k, e1) EXCEPT !.there = {e1}, !.makes = {r1}, !.drops = {r1},
                            !.fails = 1, !.crashes = 1] : k \in Kinds}

\* Two rules on an EIP are made and deleted, and the EIP is deleted.
Deletions ==
    {[Base(k, k, e1) EXCEPT !.there = {e1}, !.makes = {r1, r2},
                            !.drops = {r1, r2, e1}] : k \in {"fip", "dnat", "snat"}}

\* The pod of a gateway with rules restarts, and a call fails.
Restarts ==
    {[Base(k, l, e1) EXCEPT !.there = {e1, r1, r2}, !.restarts = 1, !.fails = 1] :
       k \in {"fip", "share"}, l \in {"snat", "share"}}

\* A rule moves to another EIP or internal address, and a call fails.
Edits ==
    {[Base(k, k, e1) EXCEPT !.there = {e1, e2, r1}, !.edits = 1, !.fails = 1] :
       k \in Kinds}

\* Two rules of type share are made, and stay.
Shares ==
    {[Base("share", "share", e1) EXCEPT !.there = {e1}, !.makes = {r1, r2}]}

\* A rule is made and deleted, and nothing fails: for users who do not wait,
\* NoUnmanagedRows does not hold here.
Hasty ==
    {[Base(k, k, e1) EXCEPT !.there = {e1}, !.makes = {r1}, !.drops = {r1}] :
       k \in Kinds}

MCScenarios ==
    FromNothing \cup NewEip \cup NewRules \cup Deletions \cup Restarts \cup Edits
=============================================================================
