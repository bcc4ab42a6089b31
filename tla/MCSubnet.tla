------------------------------ MODULE MCSubnet ------------------------------
(***************************************************************************)
(* Instances of module Subnet for TLC.                                     *)
(***************************************************************************)
EXTENDS Subnet, TLC

CONSTANTS m1, m2, m3, m4

\* m1 is the MAC that requests name; the others are interchangeable.
MacSymmetry == Permutations(DrawnMacs \ {m1})

\* Two pods, the first with two NICs on the subnet.
MCPodOf == [n \in Nics |-> IF n = "b0" THEN "b" ELSE "a"]

Only4(c) == [f \in Families |-> IF f = "v4" THEN c ELSE NoFamily]

Req4(ip) == [f \in Families |-> IF f = "v4" THEN ip ELSE NoIP]

\* One IPv4 family of four addresses, the gateway 1 excluded; or a shorter
\* range in which an address that was usable is excluded too.
MCConfigs4 ==
    {Only4([cidr |-> 0..4, ips |-> 1..4, gw |-> 1, reserved |-> {1}]),
     Only4([cidr |-> 0..3, ips |-> 1..3, gw |-> 1, reserved |-> {1, 3}])}

MCPoolConfigs4 == {[f \in Families |-> IF f = "v4" THEN A ELSE {}] : A \in {{2, 3}, {3, 4}}}

MCStatic4 == {Req4(1), Req4(3), Req4(4)}

MCSkip4 == {NoSkip, [f \in Families |-> IF f = "v4" THEN {2} ELSE {}]}

MCMacs4 == [n \in Nics |-> IF n = "b0" THEN {Nil, m1} ELSE {Nil}]

\* A subnet that is mac-only, IPv4 or dual-stack; IPv6 is the scarcer family.
MCConfigs ==
    LET v4 == [cidr |-> 0..3, ips |-> 1..3, gw |-> 1, reserved |-> {1}]
        v6 == [cidr |-> 0..2, ips |-> 1..2, gw |-> 1, reserved |-> {1}]
    IN  {[f \in Families |-> NoFamily],
         [f \in Families |-> IF f = "v4" THEN v4 ELSE NoFamily],
         [f \in Families |-> IF f = "v4" THEN v4 ELSE v6]}

Req(v4, v6) == [f \in Families |-> IF f = "v4" THEN v4 ELSE v6]

MCStatic == {Req(3, NoIP), Req(NoIP, 2), Req(2, 2), Req(3, 1)}

MCSkip == {NoSkip, [f \in Families |-> {2}]}

\* One NIC leaves its MAC to the subnet, one wants none, one brings its own.
MCMacs == [n \in Nics |-> CASE n = "a0" -> {Nil} [] n = "a1" -> {NoMac} [] n = "b0" -> {m1}]

MCMacsNil == [n \in Nics |-> {Nil}]

=============================================================================
