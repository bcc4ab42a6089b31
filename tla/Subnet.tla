------------------------------- MODULE Subnet -------------------------------
(***************************************************************************)
(* The in-memory IP address manager of the controller, pkg/ipam, for one   *)
(* subnet.  Every exported function of ipam.go takes ipam.mutex for its    *)
(* whole body, so each is one atomic action here; the functions of         *)
(* subnet.go that they call are operators from a Subnet value to a Subnet  *)
(* value, named after them.  The V4 and V6 copies of a field or function   *)
(* are one definition with a family parameter f.                           *)
(*                                                                         *)
(* An IPRangeList is the set of its addresses (module IPRangeList relates  *)
(* the two), addresses are numbers, so the lowest free one can be taken,   *)
(* and a comma-joined list of pod names is the set of those names.         *)
(* PodToNicList is a set too: its order and duplicates are never looked    *)
(* at.  Subnet.V4Free/V6Free are left out: they are only ever exported as  *)
(* a metric, allocation reads the pools' Free lists.                       *)
(*                                                                         *)
(* An operator XBug is X with a plausible mistake.  The specification uses *)
(* none of them: they show that the properties below can tell.             *)
(***************************************************************************)
EXTENDS Integers

CONSTANTS
    Addr,           \* the addresses of either family, natural numbers
    Pods,           \* podName: a pod key, or the name of a vip or node
    Nics,           \* nicName: an LSP name
    PodOf,          \* the pod a NIC name belongs to (it is part of the name)
    PoolNames,      \* names of IPPools, without the default pool ""
    Macs,           \* MAC addresses
    DrawnMacs,      \* those that GenerateMac comes up with
    NoIP, NoMac, NoPod,     \* no map entry; NoMac is also the empty string
    Nil,            \* the nil *string: "choose a MAC for me"
    SubnetConfigs,  \* the CIDR, gateway and excludeIps a subnet may be given
    PoolConfigs,    \* the addresses an IPPool may be given, per family
    MacRequests,    \* the mac arguments a NIC's requests carry
    StaticRequests, \* the static addresses a NIC may ask for, per family
    GatewayMacs,    \* the MACs a router port of the subnet may have
    SkipSets,       \* the skippedAddrs a request may carry, per family
    CheckConflicts  \* the values of checkConflict that callers pass

Families == {"v4", "v6"}

Default == ""       \* IPPools[""]

AllPools == PoolNames \cup {Default}

Nothing == [f \in Families |-> NoIP]

NoSkip == [f \in Families |-> {}]

ASSUME ConstantsAssumption ==
    /\ Addr \subseteq Nat
    /\ NoIP \notin Addr /\ NoMac \notin Macs /\ NoPod \notin Pods
    /\ Nil \notin Macs /\ Nil # NoMac
    /\ Default \notin PoolNames
    /\ PodOf \in [Nics -> Pods]
    /\ MacRequests \in [Nics -> SUBSET (Macs \cup {NoMac, Nil})]
    /\ StaticRequests \subseteq [Families -> Addr \cup {NoIP}] \ {Nothing}
    /\ SkipSets \subseteq [Families -> SUBSET Addr] /\ NoSkip \in SkipSets
    /\ PoolConfigs \subseteq [Families -> SUBSET Addr]
    /\ GatewayMacs \subseteq Macs /\ DrawnMacs \subseteq Macs
    /\ CheckConflicts \subseteq BOOLEAN

\* A family of a subnet configuration: the addresses of the CIDR, those from
\* its FirstIP to its LastIP, the gateway and the excluded ones.
FamilyConfig ==
    [cidr : SUBSET Addr, ips : SUBSET Addr,
     gw : Addr \cup {NoIP}, reserved : SUBSET Addr]

NoFamily == [cidr |-> {}, ips |-> {}, gw |-> NoIP, reserved |-> {}]

\* The protocol of a configuration: both families is dual, none is mac-only.
ProtocolOf(cfg) == {f \in Families : cfg[f].cidr # {}}

ASSUME ConfigsAssumption ==
    /\ SubnetConfigs \subseteq [Families -> FamilyConfig]
    /\ \A cfg \in SubnetConfigs, f \in Families :
          /\ cfg[f].ips \subseteq cfg[f].cidr
          /\ cfg[f].cidr = {} => cfg[f] = NoFamily

VARIABLES
    present,    \* the subnet has an entry in ipam.Subnets
    s           \* that entry

vars == <<present, s>>

-----------------------------------------------------------------------------
(* The Subnet struct and its IPPools.                                       *)

Pool ==
    [ips : SUBSET Addr, free : SUBSET Addr, available : SUBSET Addr,
     reserved : SUBSET Addr, released : SUBSET Addr, using : SUBSET Addr]

EmptyPool ==
    [ips |-> {}, free |-> {}, available |-> {},
     reserved |-> {}, released |-> {}, using |-> {}]

Family ==
    [cidr : SUBSET Addr, ips : SUBSET Addr, gw : Addr \cup {NoIP},
     reserved : SUBSET Addr, available : SUBSET Addr, using : SUBSET Addr,
     nicToIP : [Nics -> Addr \cup {NoIP}],
     ipToPod : [Addr -> SUBSET Pods],
     pool : [AllPools -> Pool]]

SubnetType ==
    [protocol : SUBSET Families,
     fam : [Families -> Family],
     pools : SUBSET AllPools,       \* the keys of IPPools
     nicToMac : [Nics -> Macs \cup {NoMac}],
     macToPod : [Macs -> Pods \cup {NoPod}],
     podNics : [Pods -> SUBSET Nics],
     gatewayMAC : Macs \cup {NoMac}]

\* One family of NewSubnet, and of NewMacOnlySubnet when there is no CIDR.
NewFamily(c) ==
    LET free == c.ips \ c.reserved
    IN  [cidr |-> c.cidr, ips |-> c.ips, gw |-> c.gw,
         reserved |-> c.reserved, available |-> free, using |-> {},
         nicToIP |-> [n \in Nics |-> NoIP],
         ipToPod |-> [ip \in Addr |-> {}],
         pool |-> [p \in AllPools |->
                     IF p = Default
                     THEN [ips |-> c.ips, free |-> free, available |-> free,
                           reserved |-> c.reserved, released |-> {}, using |-> {}]
                     ELSE EmptyPool]]

NewSubnet(cfg) ==
    [protocol |-> ProtocolOf(cfg),
     fam |-> [f \in Families |-> NewFamily(cfg[f])],
     pools |-> {Default},
     nicToMac |-> [n \in Nics |-> NoMac],
     macToPod |-> [m \in Macs |-> NoPod],
     podNics |-> [p \in Pods |-> {}],
     gatewayMAC |-> NoMac]

-----------------------------------------------------------------------------
(* Helpers of subnet.go.                                                    *)

WithFamily(S, f, F) == [S EXCEPT !.fam = [S.fam EXCEPT ![f] = F]]

HasIP(S, n) == \E f \in Families : S.fam[f].nicToIP[n] # NoIP

\* The MACs GetRandomMac may come up with.
FreshMacs(S) == {m \in DrawnMacs \ {S.gatewayMAC} : S.macToPod[m] = NoPod}

\* m is the MAC drawn, should one be needed.
GetRandomMac(S, n, m) ==
    IF S.nicToMac[n] # NoMac
    THEN S
    ELSE [S EXCEPT !.macToPod = [S.macToPod EXCEPT ![m] = PodOf[n]],
                   !.nicToMac = [S.nicToMac EXCEPT ![n] = m]]

MacConflictBug(S, n, mac) == mac = S.gatewayMAC

MacConflict(S, n, mac) ==
    \/ S.macToPod[mac] \notin {NoPod, PodOf[n]}
    \/ mac = S.gatewayMAC

\* Refused when a conflict is looked for and found; else the (new) subnet.
MacRefused(S, n, mac, check) ==
    mac # NoMac /\ check /\ MacConflict(S, n, mac)

GetStaticMac(S, n, mac) ==
    IF mac = NoMac
    THEN S
    ELSE [S EXCEPT !.macToPod = [S.macToPod EXCEPT ![mac] = PodOf[n]],
                   !.nicToMac = [S.nicToMac EXCEPT ![n] = mac]]

pushPodNicBug(S, n) ==
    [S EXCEPT !.podNics =
       [S.podNics EXCEPT ![PodOf[n]] = S.podNics[PodOf[n]] \cup {PodOf[n]}]]

pushPodNic(S, n) ==
    IF HasIP(S, n) \/ S.nicToMac[n] # NoMac
    THEN [S EXCEPT !.podNics =
             [S.podNics EXCEPT ![PodOf[n]] = S.podNics[PodOf[n]] \cup {n}]]
    ELSE S

popPodNics(S, pod, N) ==
    [S EXCEPT !.podNics = [S.podNics EXCEPT ![pod] = S.podNics[pod] \ N]]

-----------------------------------------------------------------------------
(* Release.                                                                 *)

Shared(owners) == \E a, b \in owners : a # b

\* The NICs of N whose address of family F is dropped, not merely left to the
\* pods it is shared with.
SoleHolders(F, N) ==
    {n \in N : F.nicToIP[n] # NoIP /\ ~Shared(F.ipToPod[F.nicToIP[n]])}

ReturnedBug(F, gone) == gone \cap F.cidr

\* The released addresses that go back to the lists they may be given out
\* from: neither outside a changed CIDR nor in the reserved list.
Returned(F, gone) == (gone \cap F.cidr) \ F.reserved

\* releaseV4Addr/releaseV6Addr on the family's own state, for the NICs N of
\* pod.  (A loop over N in the code; its NICs hold different addresses.)
ReleaseFamily(F, pod, N) ==
    LET sole == SoleHolders(F, N)
        gone == {F.nicToIP[n] : n \in sole}
        left == {F.nicToIP[n] : n \in {k \in N \ sole : F.nicToIP[k] # NoIP}}
        back == Returned(F, gone)
    IN  [F EXCEPT
           !.nicToIP = [n \in Nics |-> IF n \in sole THEN NoIP ELSE F.nicToIP[n]],
           !.ipToPod = [ip \in Addr |->
                          CASE ip \in gone -> {}
                            [] ip \in left -> F.ipToPod[ip] \ {pod}
                            [] OTHER -> F.ipToPod[ip]],
           !.using = F.using \ gone,
           !.available = F.available \cup back,
           !.pool = [p \in AllPools |->
                       LET P == F.pool[p]
                           mine == back \cap P.using
                       IN  [P EXCEPT !.using = P.using \ gone,
                                     !.available = P.available \cup mine,
                                     !.released = P.released \cup mine]]]

DropMacsBug(S, N) ==
    [S EXCEPT !.nicToMac = [n \in Nics |-> IF n \in N THEN NoMac ELSE S.nicToMac[n]]]

\* Forget the MACs of the NICs N.
DropMacs(S, N) ==
    LET macs == {S.nicToMac[n] : n \in N} \ {NoMac}
    IN  [S EXCEPT
           !.nicToMac = [n \in Nics |-> IF n \in N THEN NoMac ELSE S.nicToMac[n]],
           !.macToPod = [m \in Macs |-> IF m \in macs THEN NoPod ELSE S.macToPod[m]]]

Other(f) == IF f = "v4" THEN "v6" ELSE "v4"

releaseFamAddr(S, f, pod, N) ==
    LET F == S.fam[f]
        bare == {n \in SoleHolders(F, N) : S.fam[Other(f)].nicToIP[n] = NoIP}
    IN  DropMacs(WithFamily(S, f, ReleaseFamily(F, pod, N)), bare)

releaseAddrBug(S, pod, N) ==
    releaseFamAddr(releaseFamAddr(S, "v4", pod, N), "v6", pod, N)

releaseAddr(S, pod, N) ==
    LET R == releaseFamAddr(releaseFamAddr(S, "v4", pod, N), "v6", pod, N)
    IN  DropMacs(R, {n \in N : ~HasIP(R, n)})

ReleaseNics(S, pod, N) == popPodNics(releaseAddr(S, pod, N), pod, N)

-----------------------------------------------------------------------------
(* Random allocation.  A call yields the new subnet, an error ("" for nil)  *)
(* and the address.                                                         *)

Result(S, err, ip) == [s |-> S, err |-> err, ip |-> ip]

Lowest(A) == CHOOSE a \in A : \A b \in A : a <= b

RefillFreeBug(P) == [P EXCEPT !.free = P.free \ P.reserved]

\* The pool's Free list without the reserved addresses, or, when that leaves
\* nothing, the addresses released since.
RefillFree(P) ==
    LET free == P.free \ P.reserved
    IN  IF free # {}
        THEN [P EXCEPT !.free = free]
        ELSE [P EXCEPT !.free = P.released \ P.reserved, !.released = {}]

\* The state after ip of pool p is handed to NIC n; free and released are
\* what is left of the pool's two lists.
Lease(F, p, n, ip, free, released) ==
    [F EXCEPT
       !.nicToIP = [F.nicToIP EXCEPT ![n] = ip],
       !.ipToPod = [F.ipToPod EXCEPT ![ip] = {PodOf[n]}],
       !.using = F.using \cup {ip},
       !.available = F.available \ {ip},
       !.pool = [F.pool EXCEPT ![p] =
                   [F.pool[p] EXCEPT !.free = free,
                                     !.released = released,
                                     !.available = F.pool[p].available \ {ip},
                                     !.using = F.pool[p].using \cup {ip}]]]

\* The part of getV4RandomAddress/getV6RandomAddress after the cached address.
AllocateRandom(S, f, p, n, mac, skip, check, m) ==
    LET F == S.fam[f]
        P == RefillFree(F.pool[p])
        refilled == WithFamily(S, f, [F EXCEPT !.pool = [F.pool EXCEPT ![p] = P]])
        ip == Lowest(P.free \ skip)
        leased == pushPodNic(
                    WithFamily(S, f, Lease(F, p, n, ip, P.free \ {ip}, P.released)), n)
    IN  IF p \notin S.pools
        THEN Result(S, "ErrNoAvailable", NoIP)
        ELSE IF P.free = {}
        THEN Result(refilled, "ErrNoAvailable", NoIP)
        ELSE IF P.free \subseteq skip
        THEN Result(refilled, "ErrConflict", NoIP)
        ELSE IF mac = Nil
        THEN Result(GetRandomMac(leased, n, m), "", ip)
        ELSE IF MacRefused(leased, n, mac, check)
        THEN Result(popPodNics(releaseFamAddr(leased, f, PodOf[n], {n}), PodOf[n], {n}),
                    "ErrConflict", NoIP)
        ELSE Result(GetStaticMac(leased, n, mac), "", ip)

CachedBug(S, f, n, mac) == S.fam[f].nicToIP[n] # NoIP /\ S.nicToMac[n] # NoMac

\* The NIC has an address and a MAC, or an address and asks for no MAC.
Cached(S, f, n, mac) ==
    S.fam[f].nicToIP[n] # NoIP /\ (S.nicToMac[n] # NoMac \/ mac = NoMac)

\* getV4RandomAddress, getV6RandomAddress: a NIC keeps the address it has,
\* unless that is to be skipped.
getRandomFam(S, f, p, n, mac, skip, check, m) ==
    LET ip == S.fam[f].nicToIP[n]
    IN  IF Cached(S, f, n, mac) /\ ip \notin skip
        THEN Result(S, "", ip)
        ELSE AllocateRandom(
               IF Cached(S, f, n, mac) THEN releaseFamAddr(S, f, PodOf[n], {n}) ELSE S,
               f, p, n, mac, skip, check, m)

\* Results of the whole call give the addresses of both families.
Results(S, err, v4, v6) ==
    [s |-> S, err |-> err, ip |-> [f \in Families |-> IF f = "v4" THEN v4 ELSE v6]]

OneFamily(f, R) ==
    Results(R.s, R.err, IF f = "v4" THEN R.ip ELSE NoIP, IF f = "v6" THEN R.ip ELSE NoIP)

getMacOnlyAddress(S, n, mac, check, m) ==
    IF mac \in {Nil, NoMac}
    THEN Results(GetRandomMac(S, n, m), "", NoIP, NoIP)
    ELSE IF MacRefused(S, n, mac, check)
    THEN Results(S, "ErrConflict", NoIP, NoIP)
    ELSE Results(GetStaticMac(S, n, mac), "", NoIP, NoIP)

UndoV4Bug(S, n, existing, got) ==
    popPodNics(releaseFamAddr(S, "v4", PodOf[n], {n}), PodOf[n], {n})

\* Undo the IPv4 half, got, unless the NIC had it before the call.
UndoV4(S, n, existing, got) ==
    IF existing # got
    THEN popPodNics(releaseFamAddr(S, "v4", PodOf[n], {n}), PodOf[n], {n})
    ELSE S

getDualRandomAddress(S, p, n, mac, skip, check, m) ==
    LET existing == S.fam["v4"].nicToIP[n]
        R4 == getRandomFam(S, "v4", p, n, mac, skip["v4"], check, m)
        R6 == getRandomFam(R4.s, "v6", p, n, mac, skip["v6"], check, m)
        again == getRandomFam(R6.s, "v4", p, n, mac, skip["v4"], check, m)
    IN  IF R4.err # ""
        THEN Results(R4.s, R4.err, NoIP, NoIP)
        ELSE IF R6.err # ""
        THEN Results(UndoV4(R6.s, n, existing, R4.ip), R6.err, NoIP, NoIP)
        ELSE IF R6.s.fam["v4"].nicToIP[n] # R4.ip
        THEN Results(again.s, "", again.ip, R6.ip)
        ELSE Results(R6.s, "", R4.ip, R6.ip)

\* Subnet.GetRandomAddressWithFamily; want is the ipFamily, Families for "".
GetRandomAddressWithFamily(S, p, n, mac, want, skip, check, m) ==
    LET R == CASE S.protocol = {} -> getMacOnlyAddress(S, n, mac, check, m)
               [] S.protocol \notin {{}, Families, want} /\ want # Families ->
                    Results(S, "ErrInvalidIPFamily", NoIP, NoIP)
               [] S.protocol = Families /\ want = Families ->
                    getDualRandomAddress(S, p, n, mac, skip, check, m)
               [] OTHER ->
                    LET f == CHOOSE g \in S.protocol \cap want : TRUE
                    IN  OneFamily(f, getRandomFam(S, f, p, n, mac, skip[f], check, m))
    IN  [R EXCEPT !.s = pushPodNic(R.s, n)]

-----------------------------------------------------------------------------
(* Static allocation.                                                       *)

\* staticAddressFamilyForIP: why the address cannot be asked for, or "".
StaticRefusal(S, f, ip, check) ==
    LET F == S.fam[f]
    IN  IF \/ ip \notin F.cidr
           \/ \A p \in S.pools : ip \notin F.pool[p].ips
        THEN "ErrOutOfRange"
        ELSE IF check /\ ip = F.gw THEN "ErrConflict" ELSE ""

\* The results of static allocation: the caller knows the address already.
Done(S, err) == [s |-> S, err |-> err]

TakenByOther(owners, pod) == owners # {} /\ pod \notin owners

\* allocateStaticAddress and markStaticAddressAllocated, for pool p of ip.
allocateStaticAddress(S, f, p, n, ip, check) ==
    LET F == S.fam[f]
        P == F.pool[p]
        owners == F.ipToPod[ip]
        join == [F EXCEPT !.nicToIP = [F.nicToIP EXCEPT ![n] = ip],
                          !.ipToPod = [F.ipToPod EXCEPT ![ip] = owners \cup {PodOf[n]}]]
        lease(free, released) ==
            Done(WithFamily(S, f, Lease(F, p, n, ip, free, released)), "")
    IN  IF PodOf[n] \in owners THEN Done(S, "")
        ELSE IF TakenByOther(owners, PodOf[n])
        THEN IF check THEN Done(S, "ErrConflict") ELSE Done(WithFamily(S, f, join), "")
        ELSE IF ip \in P.reserved THEN lease(P.free, P.released)
        ELSE IF ip \in P.free THEN lease(P.free \ {ip}, P.released)
        ELSE IF ip \in P.released THEN lease(P.free, P.released \ {ip})
        ELSE Done(S, "ErrNoAvailable")

\* Subnet.GetStaticAddress: the NIC's other address of that family is given up
\* first, whatever becomes of the rest of the call.
GetStaticFam(S, f, n, ip, mac, check, m) ==
    LET refusal == StaticRefusal(S, f, ip, check)
        p == CHOOSE q \in S.pools : ip \in S.fam[f].pool[q].ips
        S1 == IF S.fam[f].nicToIP[n] \notin {NoIP, ip}
              THEN releaseFamAddr(S, f, PodOf[n], {n})
              ELSE S
        S2 == IF mac = Nil THEN GetRandomMac(S1, n, m) ELSE GetStaticMac(S1, n, mac)
        R == IF mac # Nil /\ MacRefused(S1, n, mac, check)
             THEN Done(S1, "ErrConflict")
             ELSE allocateStaticAddress(S2, f, p, n, ip, check)
    IN  IF refusal # ""
        THEN Done(S, refusal)
        ELSE Done(pushPodNic(R.s, n), R.err)

\* GetStaticAddressWithFamily for one address; checkAndAppendIpsForDual adds a
\* random address of the other family from the default pool on a dual subnet,
\* and keeps the static one when there is none.
StaticOne(S, f, n, ip, mac, want, check, m) ==
    LET R == GetStaticFam(S, f, n, ip, mac, check, m)
        macStr == IF mac = Nil THEN R.s.nicToMac[n] ELSE mac
        R2 == getRandomFam(R.s, Other(f), Default, n, macStr, {}, check, m)
    IN  IF R.err = "" /\ want = Families /\ S.protocol = Families
        THEN Done(R2.s, R2.err)
        ELSE R

\* ... and for "v4,v6": when the second fails the whole NIC is released.
StaticTwo(S, n, ips, mac, check, m) ==
    LET R4 == GetStaticFam(S, "v4", n, ips["v4"], mac, check, m)
        R6 == GetStaticFam(R4.s, "v6", n, ips["v6"], mac, check, m)
    IN  IF R4.err # "" THEN R4
        ELSE IF R6.err # "" THEN Done(ReleaseNics(R6.s, PodOf[n], {n}), R6.err)
        ELSE R6

\* IPAM.GetStaticAddressWithFamily.  Without an address, on a mac-only subnet,
\* it is GetRandomAddressWithFamily on the default pool.
GetStaticAddressWithFamily(S, n, ips, mac, want, check, m) ==
    LET asked == {f \in Families : ips[f] # NoIP}
    IN  IF ~(asked \subseteq want) THEN Done(S, "ErrInvalidIPFamily")
        ELSE IF asked = Families THEN StaticTwo(S, n, ips, mac, check, m)
        ELSE LET f == CHOOSE g \in asked : TRUE
             IN  StaticOne(S, f, n, ips[f], mac, want, check, m)

-----------------------------------------------------------------------------
(* Reconfiguration.                                                         *)

\* The IPPool a named pool becomes when the family is given configuration c.
UpdatePool(P, c) ==
    LET using == P.using \cap c.ips
        reserved == c.reserved \cap P.ips
        free == ((c.ips \cap P.ips) \ using) \ reserved
    IN  [ips |-> P.ips, free |-> free, available |-> free,
         reserved |-> reserved, released |-> {}, using |-> using]

\* One family of AddOrUpdateSubnet on an existing subnet: the default pool gets
\* what the named pools do not have, leases outside the new range are dropped.
UpdateFamily(F, c) ==
    LET using == F.using \cap c.ips
        free == (c.ips \ c.reserved) \ using
        named == [p \in PoolNames |-> UpdatePool(F.pool[p], c)]
        theirIPs == UNION {named[p].ips : p \in PoolNames}
        dropped == {F.nicToIP[n] : n \in Nics} \ (c.ips \cup {NoIP})
        default == [ips |-> c.ips \ theirIPs,
                    free |-> free \ theirIPs,
                    available |-> free \ theirIPs,
                    reserved |-> c.reserved \ UNION {named[p].reserved : p \in PoolNames},
                    released |-> {},
                    using |-> using \ UNION {named[p].using : p \in PoolNames}]
    IN  [cidr |-> c.cidr, ips |-> c.ips, gw |-> c.gw,
         reserved |-> c.reserved, available |-> free, using |-> using,
         nicToIP |-> [n \in Nics |-> IF F.nicToIP[n] \in dropped THEN NoIP ELSE F.nicToIP[n]],
         ipToPod |-> [ip \in Addr |-> IF ip \in dropped THEN {} ELSE F.ipToPod[ip]],
         pool |-> [p \in AllPools |-> IF p = Default THEN default ELSE named[p]]]

SameConfig(F, c) == F.cidr = c.cidr /\ F.gw = c.gw /\ F.reserved = c.reserved

UpdateSubnet(S, cfg) ==
    LET R == [S EXCEPT
                !.protocol = ProtocolOf(cfg),
                !.fam = [f \in Families |->
                           IF f \in ProtocolOf(cfg) /\ ~SameConfig(S.fam[f], cfg[f])
                           THEN UpdateFamily(S.fam[f], cfg[f])
                           ELSE S.fam[f]]]
    IN  DropMacs(R, {n \in Nics : ~HasIP(R, n)})

NewPoolBug(F, ips) ==
    LET free == (F.ips \cap ips) \ F.reserved
    IN  [ips |-> ips, free |-> free, available |-> free,
         reserved |-> F.reserved \cap ips, released |-> {}, using |-> F.using \cap ips]

\* The new pool built by AddOrUpdateIPPool for a family, empty without a CIDR.
NewPool(F, ips) ==
    IF F.cidr = {}
    THEN EmptyPool
    ELSE LET free == ((F.ips \cap ips) \ F.using) \ F.reserved
         IN  [ips |-> ips, free |-> free, available |-> free,
              reserved |-> F.reserved \cap ips, released |-> {},
              using |-> F.using \cap ips]

\* ... and what it leaves to the default pool; old is the pool it replaces.
ShrinkDefault(F, old, new) ==
    LET D == F.pool[Default]
        free == ((D.available \cup old.available) \ new.free) \ F.reserved
    IN  [ips |-> (D.ips \cup old.ips) \ new.ips,
         free |-> free, available |-> free,
         reserved |-> (D.reserved \cup old.reserved) \ new.reserved,
         released |-> {},
         using |-> (D.using \cup old.using) \ new.using]

FamilyAddPool(F, name, ips) ==
    LET new == NewPool(F, ips)
    IN  [F EXCEPT !.pool = [F.pool EXCEPT ![name] = new,
                                          ![Default] = ShrinkDefault(F, F.pool[name], new)]]

PoolConflict(S, name, ips) ==
    \E f \in Families, q \in S.pools \ {Default, name} :
        S.fam[f].cidr # {} /\ ips[f] \cap S.fam[f].pool[q].ips # {}

SubnetAddPool(S, name, ips) ==
    [S EXCEPT !.pools = S.pools \cup {name},
              !.fam = [f \in Families |-> FamilyAddPool(S.fam[f], name, ips[f])]]

MergePoolsBug(D, P) ==
    [ips |-> D.ips \cup P.ips, free |-> D.free \cup P.free,
     available |-> D.available \cup P.available,
     reserved |-> D.reserved \cup P.reserved,
     released |-> D.released, using |-> D.using \cup P.using]

MergePools(D, P) ==
    [ips |-> D.ips \cup P.ips, free |-> D.free \cup P.free,
     available |-> D.available \cup P.available,
     reserved |-> D.reserved \cup P.reserved,
     released |-> D.released \cup P.released, using |-> D.using \cup P.using]

FamilyRemovePool(F, name) ==
    [F EXCEPT !.pool = [F.pool EXCEPT ![name] = EmptyPool,
                                      ![Default] = MergePools(F.pool[Default], F.pool[name])]]

SubnetRemovePool(S, name) ==
    [S EXCEPT !.pools = S.pools \ {name},
              !.fam = [f \in Families |-> FamilyRemovePool(S.fam[f], name)]]

-----------------------------------------------------------------------------
(* The exported operations of ipam.go.                                      *)

\* The MACs a request may draw: GetRandomMac only draws one for the nil mac,
\* or, on a mac-only subnet, for the empty one.
Draws(mac) == IF mac \in {Nil, NoMac} THEN FreshMacs(s) ELSE {NoMac}

Wants == {Families, {"v4"}, {"v6"}}

GetRandomAddress(n, p, mac, want, skip, check) ==
    /\ present
    /\ \E m \in Draws(mac) :
         s' = GetRandomAddressWithFamily(s, p, n, mac, want, skip, check, m).s
    /\ UNCHANGED present

GetStaticAddress(n, ips, mac, want, check) ==
    /\ present
    /\ \E m \in Draws(mac) :
         s' = GetStaticAddressWithFamily(s, n, ips, mac, want, check, m).s
    /\ UNCHANGED present

ReleaseAddressByPod(pod) ==
    /\ present
    /\ s' = ReleaseNics(s, pod, s.podNics[pod])
    /\ UNCHANGED present

ReleaseAddressByNic(n) ==
    /\ present
    /\ s' = ReleaseNics(s, PodOf[n], {n})
    /\ UNCHANGED present

\* A subnet with a CIDR cannot be made mac-only.
AddOrUpdateSubnet(cfg) ==
    /\ present' = TRUE
    /\ s' = CASE ~present -> NewSubnet(cfg)
              [] present /\ ProtocolOf(cfg) # {} -> UpdateSubnet(s, cfg)
              [] present /\ ProtocolOf(cfg) = {} -> s

DeleteSubnet ==
    /\ present
    /\ present' = FALSE
    /\ s' = NewSubnet([f \in Families |-> NoFamily])

AddOrUpdateIPPool(name, ips) ==
    /\ present
    /\ s' = IF PoolConflict(s, name, ips) THEN s ELSE SubnetAddPool(s, name, ips)
    /\ UNCHANGED present

RemoveIPPool(name) ==
    /\ present /\ name \in s.pools
    /\ s' = SubnetRemovePool(s, name)
    /\ UNCHANGED present

RecordGatewayMAC(mac) ==
    /\ present
    /\ s' = [s EXCEPT !.gatewayMAC = mac]
    /\ UNCHANGED present

Init ==
    /\ present = FALSE
    /\ s = NewSubnet([f \in Families |-> NoFamily])

Next ==
    \/ \E n \in Nics, want \in Wants, check \in CheckConflicts :
         \E mac \in MacRequests[n] :
            \/ \E p \in AllPools, skip \in SkipSets :
                  GetRandomAddress(n, p, mac, want, skip, check)
            \/ \E ips \in StaticRequests : GetStaticAddress(n, ips, mac, want, check)
    \/ \E pod \in Pods : ReleaseAddressByPod(pod)
    \/ \E n \in Nics : ReleaseAddressByNic(n)
    \/ \E cfg \in SubnetConfigs : AddOrUpdateSubnet(cfg)
    \/ DeleteSubnet
    \/ \E name \in PoolNames : RemoveIPPool(name)
    \/ \E name \in PoolNames, ips \in PoolConfigs : AddOrUpdateIPPool(name, ips)
    \/ \E mac \in GatewayMacs : RecordGatewayMAC(mac)

Spec == Init /\ [][Next]_vars

-----------------------------------------------------------------------------
(* Properties.                                                              *)

\* The subnet of ipam.Subnets, its pools and maps have the shape of the Go
\* structs.
TypeOK ==
    /\ present \in BOOLEAN
    /\ s \in SubnetType

\* A NIC's address belongs to its pod and to no other, and no two NICs have
\* the same address.
ExclusiveFamily(F) ==
    /\ \A n \in Nics : F.nicToIP[n] # NoIP => F.ipToPod[F.nicToIP[n]] = {PodOf[n]}
    /\ \A n1, n2 \in Nics : F.nicToIP[n1] = F.nicToIP[n2] => n1 = n2 \/ F.nicToIP[n1] = NoIP

ExclusiveLeases == \A f \in Families : ExclusiveFamily(s.fam[f])

\* An address counts as used exactly while some NIC has it.
OwnedFamily(F) == F.using = {ip \in Addr : F.ipToPod[ip] # {}}

NoLeakedAddress ==
    \A f \in Families :
        LET F == s.fam[f]
        IN  OwnedFamily(F) /\ F.using = {F.nicToIP[n] : n \in Nics} \ {NoIP}

\* What a subnet reports as available is what it has, less the excluded and
\* the used addresses; it uses nothing else than what it has or excludes.
AccountedFamily(F) ==
    /\ F.using \subseteq F.ips \cup F.reserved
    /\ F.available = (F.ips \ F.reserved) \ F.using

AddressesAccounted == \A f \in Families : AccountedFamily(s.fam[f])

\* The pools divide the subnet's addresses between them.  Each counts as used
\* what the subnet counts as used of its addresses, and can still hand out
\* every other address it has that is not excluded.
AccountedPool(F, P) ==
    /\ P.using = F.using \cap P.ips
    /\ F.reserved \cap P.ips \subseteq P.reserved
    /\ P.reserved \subseteq F.reserved
    /\ P.available = ((P.ips \cap F.ips) \ F.reserved) \ F.using
    /\ P.free \cup P.released = P.available
    /\ P.free \cap P.released = {}

PartitionedFamily(F) ==
    /\ F.ips \subseteq UNION {F.pool[p].ips : p \in AllPools}
    /\ \A p, q \in AllPools : p # q => F.pool[p].ips \cap F.pool[q].ips = {}
    /\ \A p \in AllPools : AccountedPool(F, F.pool[p])

PoolsPartition == \A f \in Families : PartitionedFamily(s.fam[f])

\* A NIC's MAC is recorded as its pod's, so no other pod can be given it.
MacsExclusive ==
    \A n \in Nics : s.nicToMac[n] # NoMac => s.macToPod[s.nicToMac[n]] = PodOf[n]

\* A MAC that is recorded as some pod's is that of one of its NICs: while a
\* NIC always asks for the same MAC, none is lost to later requests.
NoLeakedMac ==
    \A m \in Macs :
        s.macToPod[m] # NoPod =>
            \E n \in Nics : PodOf[n] = s.macToPod[m] /\ s.nicToMac[n] = m

\* Whatever a pod has can be released by its name alone (ReleaseAddressByPod,
\* used by the garbage collector): PodToNicList misses no NIC.
ReleasedPodHasNothing ==
    \A pod \in Pods, n \in Nics :
        LET R == ReleaseNics(s, pod, s.podNics[pod])
        IN  PodOf[n] = pod => ~HasIP(R, n) /\ R.nicToMac[n] = NoMac

\* A random allocation that fails, for want of an address or because of its
\* MAC, takes no address away and leaks none: in particular getDualRandomAddress
\* neither keeps a new IPv4 address nor revokes an old one when IPv6 fails.
FailedRandomKeepsLeases ==
    present =>
    \A n \in Nics, p \in AllPools, want \in Wants, check \in CheckConflicts :
    \A mac \in MacRequests[n] : \A m \in Draws(mac) :
        LET R == GetRandomAddressWithFamily(s, p, n, mac, want, NoSkip, check, m)
        IN  R.err # "" =>
              \A f \in Families :
                 /\ R.s.fam[f].nicToIP = s.fam[f].nicToIP
                 /\ R.s.fam[f].using = s.fam[f].using

\* While each family of the subnet has an address left in the pool, or the NIC
\* has one already, a random allocation without a MAC of its own succeeds; it
\* returns the NIC's address if it had one, else one that was available.
RandomServesAvailable ==
    present =>
    \A n \in {k \in Nics : Nil \in MacRequests[k]}, p \in s.pools : \A m \in Draws(Nil) :
        LET R == GetRandomAddressWithFamily(s, p, n, Nil, Families, NoSkip, TRUE, m)
            own(f) == s.fam[f].nicToIP[n]
        IN  (\A f \in s.protocol : own(f) # NoIP \/ s.fam[f].pool[p].available # {})
            => /\ R.err = ""
               /\ \A f \in s.protocol :
                    /\ R.ip[f] = R.s.fam[f].nicToIP[n]
                    /\ IF own(f) # NoIP
                       THEN R.ip[f] = own(f)
                       ELSE R.ip[f] \in s.fam[f].pool[p].available

-----------------------------------------------------------------------------
(* What the subnet promises, see module AddressLease: an address or MAC is  *)
(* held by one pod at a time, and only a pod's own calls change its own.    *)

Holder(a) ==
    IF a[1] = "mac"
    THEN s.macToPod[a[2]]
    ELSE IF s.fam[a[1]].ipToPod[a[2]] = {}
    THEN NoPod
    ELSE CHOOSE pod \in s.fam[a[1]].ipToPod[a[2]] : TRUE

Addresses == (Families \X Addr) \cup ({"mac"} \X Macs)

AL == INSTANCE AddressLease WITH
        Clients <- Pods, NoClient <- NoPod, Addresses <- Addresses,
        holder <- [a \in Addresses |-> Holder(a)]

\* The address manager implements AddressLease.
ImplementsLease == AL!Spec

=============================================================================
