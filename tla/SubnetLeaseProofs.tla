------------------------- MODULE SubnetLeaseProofs --------------------------
(***************************************************************************)
(* More about module Subnet, on top of the invariant of SubnetProofs: that *)
(* neither an address nor a MAC is lost, that a pod's name alone releases  *)
(* what the pod has, what random allocation returns, and that the address  *)
(* manager implements AddressLease.                                        *)
(*                                                                         *)
(* The functions of Subnet come first, one lemma each: called on a subnet  *)
(* that loses no address and no MAC, each returns such a subnet, and it    *)
(* changes nothing that belongs to other pods.  They depend on what the    *)
(* requests of NICs say about MACs, so those hypotheses open the module.   *)
(* Each is met by the instances that TLC checks the properties on.         *)
(***************************************************************************)
EXTENDS SubnetProofs

\* The MACs that NIC n may come to have: those it names, and any that is drawn
\* if it leaves the choice to the subnet.
MacsOf(n) ==
    (MacRequests[n] \cap Macs) \cup
    (IF MacRequests[n] \cap {Nil, NoMac} # {} THEN DrawnMacs ELSE {})

\* A NIC that is to have no MAC is never given one by a later request.
KeptMacs == \A n \in Nics : NoMac \in MacRequests[n] => MacRequests[n] = {NoMac}

\* A NIC does not name a MAC that another NIC of its pod may have.
OwnMacs ==
    \A n1, n2 \in Nics : n1 # n2 /\ PodOf[n1] = PodOf[n2] =>
        MacRequests[n1] \cap MacsOf(n2) \cap Macs = {}

\* A NIC always asks for the same MAC.
SteadyMacs == \A n \in Nics : \A a, b \in MacRequests[n] : a = b

\* A router port has no MAC that a NIC which leaves the choice open may have.
GatewayApart == \A n \in Nics : Nil \in MacRequests[n] => GatewayMacs \cap MacsOf(n) = {}

-----------------------------------------------------------------------------
(* The inductive invariant.                                                 *)

\* The used addresses are those that have an owner, and each is some NIC's.
UsedFamily(F) ==
    /\ OwnedFamily(F)
    /\ \A ip \in F.using : \E k \in Nics : F.nicToIP[k] = ip

\* A NIC's MAC is recorded as its pod's, and one that the NIC may have.
NicMac(S, k) ==
    S.nicToMac[k] # NoMac => /\ S.macToPod[S.nicToMac[k]] = PodOf[k]
                             /\ S.nicToMac[k] \in MacsOf(k)

DistinctMacs(S) ==
    \A j, k \in Nics : S.nicToMac[j] = S.nicToMac[k] => j = k \/ S.nicToMac[j] = NoMac

NoLostMac(S) ==
    \A m \in Macs : S.macToPod[m] # NoPod => \E k \in Nics : S.nicToMac[k] = m

\* What every helper of subnet.go finds and leaves.
Sound(S) ==
    /\ SubnetInv(S)
    /\ \A f \in Families : UsedFamily(S.fam[f])
    /\ \A k \in Nics : NicMac(S, k)
    /\ DistinctMacs(S)
    /\ SteadyMacs => NoLostMac(S)
    /\ S.gatewayMAC \in GatewayMacs \cup {NoMac}
    /\ \A pod \in Pods : \A k \in S.podNics[pod] : PodOf[k] = pod

\* What only whole calls leave behind.  A NIC with an address has a MAC too,
\* unless it wants none: so it is found by Cached, and random allocation never
\* replaces an address without releasing it.
MacWithIP(S, k) == HasIP(S, k) => S.nicToMac[k] # NoMac \/ NoMac \in MacRequests[k]

\* A NIC with an address or a MAC is in its pod's PodToNicList.
Listed(S, k) == HasIP(S, k) \/ S.nicToMac[k] # NoMac => k \in S.podNics[PodOf[k]]

Whole(S) == Sound(S) /\ \A k \in Nics : MacWithIP(S, k) /\ (GatewayApart => Listed(S, k))

LeaseInvariant == present \in BOOLEAN /\ Whole(s)

-----------------------------------------------------------------------------
(* What a call for the NICs N of pod c may change.                          *)

\* An owner that is as it was, or c and nobody before and after.
Moved(x, y, nobody, c) == x = y \/ (x \in {nobody, c} /\ y \in {nobody, c})

Touch(S, T, N, c) ==
    /\ T.protocol = S.protocol /\ T.pools = S.pools /\ T.gatewayMAC = S.gatewayMAC
    /\ \A k \in Nics \ N :
          /\ T.nicToMac[k] = S.nicToMac[k]
          /\ \A f \in Families : T.fam[f].nicToIP[k] = S.fam[f].nicToIP[k]
          /\ k \in T.podNics[PodOf[k]] <=> k \in S.podNics[PodOf[k]]
    /\ \A f \in Families, ip \in Addr :
          Moved(S.fam[f].ipToPod[ip], T.fam[f].ipToPod[ip], {}, {c})
    /\ \A m \in Macs : Moved(S.macToPod[m], T.macToPod[m], NoPod, c)

\* A call is a sequence of such changes.
LEMMA TouchTwice ==
    ASSUME NEW S, NEW T, NEW U, NEW N, NEW c, Touch(S, T, N, c), Touch(T, U, N, c)
    PROVE  Touch(S, U, N, c)
<1>1. \A f \in Families, ip \in Addr :
         Moved(S.fam[f].ipToPod[ip], U.fam[f].ipToPod[ip], {}, {c})
  BY DEF Touch, Moved
<1>2. \A m \in Macs : Moved(S.macToPod[m], U.macToPod[m], NoPod, c)
  BY DEF Touch, Moved
<1>3. /\ U.protocol = S.protocol /\ U.pools = S.pools /\ U.gatewayMAC = S.gatewayMAC
      /\ \A k \in Nics \ N :
            /\ U.nicToMac[k] = S.nicToMac[k]
            /\ \A f \in Families : U.fam[f].nicToIP[k] = S.fam[f].nicToIP[k]
            /\ k \in U.podNics[PodOf[k]] <=> k \in S.podNics[PodOf[k]]
  BY DEF Touch
<1> QED
  BY <1>1, <1>2, <1>3, Zenon DEF Touch

\* Doing nothing is one.
LEMMA TouchNone ==
    ASSUME NEW S, NEW N, NEW c
    PROVE  Touch(S, S, N, c)
BY DEF Touch, Moved

\* The other NICs are as well off as before.
LEMMA OthersKept ==
    ASSUME NEW S, NEW T, NEW N, NEW c, Touch(S, T, N, c), NEW k \in Nics \ N
    PROVE  /\ MacWithIP(S, k) => MacWithIP(T, k)
           /\ Listed(S, k) => Listed(T, k)
BY DEF Touch, MacWithIP, Listed, HasIP

\* The types of the fields that the proofs below refer to.
LEMMA SoundTypes ==
    ASSUME NEW S, Sound(S)
    PROVE  /\ S \in SubnetType /\ SubnetInv(S)
           /\ S.nicToMac \in [Nics -> Macs \cup {NoMac}]
           /\ S.macToPod \in [Macs -> Pods \cup {NoPod}]
           /\ S.podNics \in [Pods -> SUBSET Nics]
           /\ S.pools \in SUBSET AllPools
           /\ \A f \in Families :
                /\ FamilyInv(S.fam[f]) /\ S.fam[f] \in Family /\ UsedFamily(S.fam[f])
                /\ S.fam[f].nicToIP \in [Nics -> Addr \cup {NoIP}]
                /\ S.fam[f].ipToPod \in [Addr -> SUBSET Pods]
                /\ S.fam[f].using \in SUBSET Addr
                /\ \A p \in AllPools \ S.pools : S.fam[f].pool[p] = EmptyPool
           /\ PodOf \in [Nics -> Pods]
<1>1. SubnetInv(S)
  BY DEF Sound
<1>2. ASSUME NEW f \in Families
      PROVE  /\ FamilyInv(S.fam[f]) /\ S.fam[f] \in Family /\ UsedFamily(S.fam[f])
             /\ S.fam[f].nicToIP \in [Nics -> Addr \cup {NoIP}]
             /\ S.fam[f].ipToPod \in [Addr -> SUBSET Pods]
             /\ S.fam[f].using \in SUBSET Addr
             /\ \A p \in AllPools \ S.pools : S.fam[f].pool[p] = EmptyPool
  <2>1. FamilyInv(S.fam[f]) /\ UsedFamily(S.fam[f])
    BY DEF Sound, SubnetInv
  <2>2. S.fam[f] \in Family
    BY <2>1 DEF FamilyInv
  <2>3. /\ S.fam[f].nicToIP \in [Nics -> Addr \cup {NoIP}]
        /\ S.fam[f].ipToPod \in [Addr -> SUBSET Pods]
        /\ S.fam[f].using \in SUBSET Addr
    BY <2>2 DEF Family
  <2> QED
    BY <1>1, <2>1, <2>2, <2>3 DEF SubnetInv
<1> QED
  BY <1>1, <1>2, MapTypes DEF SubnetInv

-----------------------------------------------------------------------------
(* Each helper leaves a sound subnet and touches no other pod.              *)

\* Drawing m for NIC n cannot take it from another NIC.
Drawable(S, n, m) == S.macToPod[m] = NoPod \/ S.nicToMac[n] = m

\* T differs from S in its families, in the MAC maps, in PodToNicList at most.
SameMacs(S, T) == T.nicToMac = S.nicToMac /\ T.macToPod = S.macToPod

\* The same MACs in another subnet.
LEMMA ReconfiguredSound ==
    ASSUME NEW S, Sound(S), NEW T, SubnetInv(T),
           T.nicToMac = S.nicToMac, T.macToPod = S.macToPod,
           T.gatewayMAC \in GatewayMacs \cup {NoMac},
           \A f \in Families : UsedFamily(T.fam[f]),
           \A pod \in Pods : \A k \in T.podNics[pod] : PodOf[k] = pod
    PROVE  Sound(T)
<1>1. ASSUME NEW k \in Nics
      PROVE  NicMac(T, k)
  <2>1. NicMac(S, k)
    BY Zenon DEF Sound
  <2> QED
    BY <2>1, Zenon DEF NicMac
<1>2. DistinctMacs(T)
  <2>1. DistinctMacs(S)
    BY Zenon DEF Sound
  <2> QED
    BY <2>1, Zenon DEF DistinctMacs
<1>3. SteadyMacs => NoLostMac(T)
  <2>1. SteadyMacs => NoLostMac(S)
    BY Zenon DEF Sound
  <2> QED
    BY <2>1, Zenon DEF NoLostMac
<1> QED
  BY <1>1, <1>2, <1>3, Zenon DEF Sound

\* T is S with family f replaced by G, on behalf of the NICs N of pod c.
Replaced(S, T, f, G, N, c) ==
    /\ Sound(T) /\ Touch(S, T, N, c)
    /\ SameMacs(S, T) /\ T.podNics = S.podNics
    /\ T.fam[f] = G
    /\ \A g \in Families : g # f => T.fam[g] = S.fam[g]

\* Replacing one family.
LEMMA FamilyReplaced ==
    ASSUME NEW S, Sound(S), NEW f \in Families, NEW G, FamilyInv(G), UsedFamily(G),
           \A p \in AllPools \ S.pools : G.pool[p] = EmptyPool,
           NEW N, NEW c,
           \A k \in Nics \ N : G.nicToIP[k] = S.fam[f].nicToIP[k],
           \A ip \in Addr : Moved(S.fam[f].ipToPod[ip], G.ipToPod[ip], {}, {c})
    PROVE  Replaced(S, WithFamily(S, f, G), f, G, N, c)
<1> DEFINE T == WithFamily(S, f, G)
<1> USE DEF Replaced
<1>1. SubnetInv(T)
  BY SoundTypes, WithFamilyInv
<1>2. /\ T.protocol = S.protocol /\ T.pools = S.pools /\ T.gatewayMAC = S.gatewayMAC
      /\ T.nicToMac = S.nicToMac /\ T.macToPod = S.macToPod /\ T.podNics = S.podNics
      /\ T.fam[f] = G
      /\ \A g \in Families : g # f => T.fam[g] = S.fam[g]
  BY SoundTypes DEF WithFamily, SubnetType
<1> HIDE DEF T
<1>3. \A g \in Families : UsedFamily(T.fam[g])
  BY <1>2, SoundTypes
<1>4. Sound(T)
  <2>1. /\ T.gatewayMAC \in GatewayMacs \cup {NoMac}
        /\ \A pod \in Pods : \A k \in T.podNics[pod] : PodOf[k] = pod
    BY <1>2, Zenon DEF Sound
  <2> QED
    BY <1>1, <1>2, <1>3, <2>1, ReconfiguredSound, Zenon
<1>5. Touch(S, T, N, c)
  BY <1>2 DEF Touch, Moved
<1> QED
  BY <1>2, <1>4, <1>5 DEF T, SameMacs

\* releaseV4Addr and releaseV6Addr take the addresses of the NICs N, and only
\* those, out of the maps.
LEMMA ReleaseFamilyUsed ==
    ASSUME NEW F, FamilyInv(F), UsedFamily(F), NEW c \in Pods, NEW N \in SUBSET Nics,
           \A k \in N : PodOf[k] = c
    PROVE  LET G == ReleaseFamily(F, c, N)
           IN  /\ UsedFamily(G)
               /\ \A k \in N : G.nicToIP[k] = NoIP
               /\ \A k \in Nics \ N : G.nicToIP[k] = F.nicToIP[k]
               /\ \A ip \in Addr : Moved(F.ipToPod[ip], G.ipToPod[ip], {}, {c})
               /\ SoleHolders(F, N) \subseteq N
<1> DEFINE sole == SoleHolders(F, N)
           gone == {F.nicToIP[n] : n \in sole}
           left == {F.nicToIP[n] : n \in {k \in N \ sole : F.nicToIP[k] # NoIP}}
           G == ReleaseFamily(F, c, N)
<1>1. F \in Family /\ ExclusiveFamily(F) /\ HeldFamily(F)
  BY DEF FamilyInv
<1>2. /\ F.nicToIP \in [Nics -> Addr \cup {NoIP}]
      /\ F.ipToPod \in [Addr -> SUBSET Pods] /\ F.using \in SUBSET Addr
  BY <1>1 DEF Family
<1>3. sole = {n \in N : F.nicToIP[n] # NoIP} /\ left = {}
  BY <1>1, <1>2 DEF SoleHolders, Shared, ExclusiveFamily
<1>4. /\ G.nicToIP = [n \in Nics |-> IF n \in sole THEN NoIP ELSE F.nicToIP[n]]
      /\ G.ipToPod = [ip \in Addr |->
                        CASE ip \in gone -> {}
                          [] ip \in left -> F.ipToPod[ip] \ {c}
                          [] OTHER -> F.ipToPod[ip]]
      /\ G.using = F.using \ gone
  BY <1>1 DEF ReleaseFamily, Family
<1> HIDE DEF G
<1>5. \A n \in Nics : G.nicToIP[n] = IF n \in N THEN NoIP ELSE F.nicToIP[n]
  BY <1>3, <1>4
<1>6. \A ip \in Addr : G.ipToPod[ip] = IF ip \in gone THEN {} ELSE F.ipToPod[ip]
  BY <1>3, <1>4, Zenon
<1>7. \A ip \in gone : ip \in Addr /\ F.ipToPod[ip] = {c}
  BY <1>1, <1>2, <1>3 DEF ExclusiveFamily
<1>8. \A n \in Nics \ N : F.nicToIP[n] \notin gone
  BY <1>1, <1>3 DEF ExclusiveFamily
<1> HIDE DEF sole, left
<1>9. \A ip \in Addr : Moved(F.ipToPod[ip], G.ipToPod[ip], {}, {c})
  BY <1>6, <1>7, Zenon DEF Moved
<1>10. OwnedFamily(G)
  BY <1>2, <1>4, <1>6, Zenon DEF UsedFamily, OwnedFamily
<1>11. ASSUME NEW ip \in G.using
       PROVE  \E k \in Nics : G.nicToIP[k] = ip
  <2>1. ip \in F.using /\ ip \notin gone
    BY <1>4, <1>11
  <2>2. PICK k \in Nics : F.nicToIP[k] = ip
    BY <2>1 DEF UsedFamily
  <2>3. ip # NoIP
    BY <1>2, <2>1, ConstantsAssumption
  <2>4. k \notin N
    BY <1>3, <2>1, <2>2, <2>3
  <2> QED
    BY <1>5, <2>2, <2>4
<1>12. sole \subseteq N
  BY DEF sole, SoleHolders
<1> QED
  BY <1>5, <1>9, <1>10, <1>11, <1>12 DEF UsedFamily, sole, G

\* T is S with the NICs N without a MAC.
MacsDropped(S, T, N) ==
    /\ Sound(T)
    /\ T.fam = S.fam /\ T.pools = S.pools /\ T.protocol = S.protocol
    /\ T.gatewayMAC = S.gatewayMAC /\ T.podNics = S.podNics
    /\ \A k \in Nics : T.nicToMac[k] = IF k \in N THEN NoMac ELSE S.nicToMac[k]
    /\ \A m \in Macs :
         T.macToPod[m] = S.macToPod[m] \/
         (T.macToPod[m] = NoPod /\ \E k \in N : S.macToPod[m] = PodOf[k])
    /\ \A n \in Nics, m \in Macs : Drawable(S, n, m) => Drawable(T, n, m)

\* Forgetting the MACs of the NICs N loses none and frees none of another's.
LEMMA DropMacsSound ==
    ASSUME NEW S, Sound(S), NEW N \in SUBSET Nics
    PROVE  MacsDropped(S, DropMacs(S, N), N)
<1> DEFINE macs == {S.nicToMac[k] : k \in N} \ {NoMac}
           T == DropMacs(S, N)
<1> USE DEF MacsDropped
<1>1. SubnetInv(T)
  BY SoundTypes, DropMacsSame DEF SameAddresses
<1>2. /\ T.fam = S.fam /\ T.pools = S.pools /\ T.protocol = S.protocol
      /\ T.gatewayMAC = S.gatewayMAC /\ T.podNics = S.podNics
      /\ T.nicToMac = [k \in Nics |-> IF k \in N THEN NoMac ELSE S.nicToMac[k]]
      /\ T.macToPod = [m \in Macs |-> IF m \in macs THEN NoPod ELSE S.macToPod[m]]
  BY SoundTypes DEF DropMacs, SubnetType
<1> HIDE DEF T
<1>3. \A k \in Nics : T.nicToMac[k] = IF k \in N THEN NoMac ELSE S.nicToMac[k]
  BY <1>2
<1>4. \A m \in Macs : T.macToPod[m] = IF m \in macs THEN NoPod ELSE S.macToPod[m]
  BY <1>2
<1>5. \A m \in macs : m \in Macs /\ \E k \in N : S.nicToMac[k] = m /\ S.macToPod[m] = PodOf[k]
  BY SoundTypes DEF Sound, NicMac
<1>6. \A k \in Nics \ N : S.nicToMac[k] \notin macs
  BY DEF Sound, DistinctMacs
<1>7. \A k \in N : S.nicToMac[k] # NoMac => S.nicToMac[k] \in macs
  OBVIOUS
<1>8. S.nicToMac \in [Nics -> Macs \cup {NoMac}] /\ NoMac \notin Macs
  BY SoundTypes, ConstantsAssumption
<1> HIDE DEF macs
<1>9. ASSUME NEW k \in Nics PROVE NicMac(T, k)
  <2>1. NicMac(S, k)
    BY DEF Sound
  <2> QED
    BY <1>3, <1>4, <1>6, <1>8, <2>1 DEF NicMac
<1>10. DistinctMacs(T)
  BY <1>3 DEF Sound, DistinctMacs
<1>11. SteadyMacs => NoLostMac(T)
  <2> SUFFICES ASSUME SteadyMacs, NEW m \in Macs, T.macToPod[m] # NoPod
               PROVE  \E k \in Nics : T.nicToMac[k] = m
    BY DEF NoLostMac
  <2>1. m \notin macs /\ S.macToPod[m] # NoPod
    BY <1>4
  <2>2. PICK k \in Nics : S.nicToMac[k] = m
    BY <2>1 DEF Sound, NoLostMac
  <2>3. k \notin N
    BY <1>7, <1>8, <2>1, <2>2
  <2> QED
    BY <1>3, <2>2, <2>3
<1>12. Sound(T)
  BY <1>1, <1>2, <1>9, <1>10, <1>11 DEF Sound
<1>13. ASSUME NEW n \in Nics, NEW m \in Macs, Drawable(S, n, m)
       PROVE  Drawable(T, n, m)
  BY <1>3, <1>4, <1>7, <1>8, <1>13 DEF Drawable
<1> QED
  BY <1>2, <1>3, <1>4, <1>5, <1>12, <1>13 DEF T

\* T is S without the addresses of family f of the NICs N of pod c.
Released(S, T, f, c, N) ==
    /\ Sound(T) /\ Touch(S, T, N, c)
    /\ T.podNics = S.podNics
    /\ \A g \in Families : g # f => T.fam[g] = S.fam[g]
    /\ \A k \in N : T.fam[f].nicToIP[k] = NoIP
    /\ \A p \in AllPools : T.fam[f].pool[p].ips = S.fam[f].pool[p].ips
    /\ \A k \in N : /\ T.nicToMac[k] \in {S.nicToMac[k], NoMac}
                    /\ S.fam[Other(f)].nicToIP[k] # NoIP =>
                         T.nicToMac[k] = S.nicToMac[k]
    /\ \A n \in Nics, m \in Macs : Drawable(S, n, m) => Drawable(T, n, m)

\* releaseV4Addr and releaseV6Addr for NICs N of pod c.
LEMMA FamilyReleased ==
    ASSUME NEW S, Sound(S), NEW f \in Families, NEW c \in Pods, NEW N \in SUBSET Nics,
           \A k \in N : PodOf[k] = c
    PROVE  Released(S, releaseFamAddr(S, f, c, N), f, c, N)
<1> DEFINE F == S.fam[f]
           G == ReleaseFamily(F, c, N)
           bare == {n \in SoleHolders(F, N) : S.fam[Other(f)].nicToIP[n] = NoIP}
           T1 == WithFamily(S, f, G)
           T == DropMacs(T1, bare)
<1> USE DEF Released
<1>1. /\ FamilyInv(F) /\ UsedFamily(F)
      /\ \A p \in AllPools \ S.pools : F.pool[p] = EmptyPool
  BY SoundTypes
<1>2. T = releaseFamAddr(S, f, c, N)
  BY DEF releaseFamAddr
<1> HIDE DEF F
<1>3. /\ FamilyInv(G)
      /\ \A p \in AllPools : G.pool[p].ips = F.pool[p].ips
      /\ \A p \in AllPools \ S.pools : G.pool[p] = EmptyPool
  BY <1>1, ReleaseFamilyInv
<1>4. /\ UsedFamily(G)
      /\ \A k \in N : G.nicToIP[k] = NoIP
      /\ \A k \in Nics \ N : G.nicToIP[k] = F.nicToIP[k]
      /\ \A ip \in Addr : Moved(F.ipToPod[ip], G.ipToPod[ip], {}, {c})
      /\ SoleHolders(F, N) \subseteq N
  BY <1>1, ReleaseFamilyUsed, Zenon
<1> HIDE DEF G
<1>5. /\ Sound(T1) /\ Touch(S, T1, N, c)
      /\ SameMacs(S, T1) /\ T1.podNics = S.podNics /\ T1.fam[f] = G
      /\ \A g \in Families : g # f => T1.fam[g] = S.fam[g]
  <2>1. Replaced(S, T1, f, G, N, c)
    BY <1>3, <1>4, FamilyReplaced, Zenon DEF F
  <2> QED
    BY <2>1 DEF Replaced, F
<1> HIDE DEF T1
<1>6. /\ bare \in SUBSET Nics /\ bare \subseteq N
      /\ \A k \in bare : S.fam[Other(f)].nicToIP[k] = NoIP
  BY <1>4
<1> HIDE DEF bare
<1>7. /\ Sound(T)
      /\ T.fam = T1.fam /\ T.pools = T1.pools /\ T.protocol = T1.protocol
      /\ T.gatewayMAC = T1.gatewayMAC /\ T.podNics = T1.podNics
      /\ \A k \in Nics : T.nicToMac[k] = IF k \in bare THEN NoMac ELSE T1.nicToMac[k]
      /\ \A m \in Macs :
           T.macToPod[m] = T1.macToPod[m] \/
           (T.macToPod[m] = NoPod /\ \E k \in bare : T1.macToPod[m] = PodOf[k])
      /\ \A n \in Nics, m \in Macs : Drawable(T1, n, m) => Drawable(T, n, m)
  <2>1. MacsDropped(T1, T, bare)
    BY <1>5, <1>6, DropMacsSound, Zenon
  <2> QED
    BY <2>1 DEF MacsDropped
<1> HIDE DEF T
<1>8. Touch(T1, T, N, c)
  <2>1. \A m \in Macs : Moved(T1.macToPod[m], T.macToPod[m], NoPod, c)
    BY <1>6, <1>7 DEF Moved
  <2>2. \A k \in Nics \ N : T.nicToMac[k] = T1.nicToMac[k]
    BY <1>6, <1>7
  <2> QED
    BY <1>7, <2>1, <2>2 DEF Touch, Moved
<1>9. Touch(S, T, N, c)
  BY <1>5, <1>8, TouchTwice
<1>10. \A k \in N : /\ T.nicToMac[k] \in {S.nicToMac[k], NoMac}
                    /\ S.fam[Other(f)].nicToIP[k] # NoIP => T.nicToMac[k] = S.nicToMac[k]
  BY <1>5, <1>6, <1>7 DEF SameMacs
<1>11. \A n \in Nics, m \in Macs : Drawable(S, n, m) => Drawable(T, n, m)
  BY <1>5, <1>7 DEF SameMacs, Drawable
<1>12. /\ T.fam[f] = G /\ T.podNics = S.podNics
       /\ \A g \in Families : g # f => T.fam[g] = S.fam[g]
  BY <1>5, <1>7
<1>13. /\ \A k \in N : T.fam[f].nicToIP[k] = NoIP
       /\ \A p \in AllPools : T.fam[f].pool[p].ips = S.fam[f].pool[p].ips
  BY <1>3, <1>4, <1>12 DEF F
<1>14. Released(S, T, f, c, N)
  BY <1>7, <1>9, <1>10, <1>11, <1>12, <1>13, Zenon
<1> QED
  BY <1>2, <1>14, Zenon

\* GetRandomMac, for a NIC that leaves the choice of its MAC open.
LEMMA GetRandomMacSound ==
    ASSUME NEW S, Sound(S), NEW n \in Nics, NEW m \in DrawnMacs,
           MacRequests[n] \cap {Nil, NoMac} # {}, Drawable(S, n, m)
    PROVE  LET T == GetRandomMac(S, n, m)
           IN  /\ Sound(T) /\ Touch(S, T, {n}, PodOf[n])
               /\ T.fam = S.fam /\ T.podNics = S.podNics
               /\ T.nicToMac[n] # NoMac /\ Drawable(T, n, m)
<1> DEFINE T == GetRandomMac(S, n, m)
<1>1. /\ m \in Macs /\ NoMac \notin Macs /\ NoPod \notin Pods
      /\ PodOf[n] \in Pods /\ m \in MacsOf(n)
  BY ConstantsAssumption DEF MacsOf
<1>2. CASE S.nicToMac[n] # NoMac
  BY <1>2, TouchNone DEF GetRandomMac
<1>3. CASE S.nicToMac[n] = NoMac
  <2>1. SubnetInv(T)
    BY <1>1, SoundTypes, GetRandomMacSame DEF SameAddresses
  <2>2. /\ T.fam = S.fam /\ T.pools = S.pools /\ T.protocol = S.protocol
        /\ T.gatewayMAC = S.gatewayMAC /\ T.podNics = S.podNics
        /\ T.nicToMac = [S.nicToMac EXCEPT ![n] = m]
        /\ T.macToPod = [S.macToPod EXCEPT ![m] = PodOf[n]]
    BY <1>3, SoundTypes DEF GetRandomMac, SubnetType
  <2> HIDE DEF T
  <2>3. /\ \A k \in Nics : T.nicToMac[k] = IF k = n THEN m ELSE S.nicToMac[k]
        /\ \A x \in Macs : T.macToPod[x] = IF x = m THEN PodOf[n] ELSE S.macToPod[x]
    BY <1>1, <2>2, SoundTypes
  <2>4. S.macToPod[m] = NoPod
    BY <1>1, <1>3 DEF Drawable
  <2>5. \A k \in Nics : S.nicToMac[k] # m
    BY <1>1, <2>4, ConstantsAssumption DEF Sound, NicMac
  <2>6. ASSUME NEW k \in Nics PROVE NicMac(T, k)
    <3>1. NicMac(S, k) /\ S.nicToMac[k] \in Macs \cup {NoMac}
      BY SoundTypes DEF Sound
    <3> QED
      BY <1>1, <2>3, <2>5, <3>1 DEF NicMac
  <2>7. DistinctMacs(T)
    BY <2>3, <2>5 DEF Sound, DistinctMacs
  <2>8. SteadyMacs => NoLostMac(T)
    <3> SUFFICES ASSUME SteadyMacs, NEW x \in Macs, T.macToPod[x] # NoPod
                 PROVE  \E k \in Nics : T.nicToMac[k] = x
      BY DEF NoLostMac
    <3>1. CASE x = m
      BY <2>3, <3>1
    <3>2. CASE x # m
      <4>1. PICK k \in Nics : S.nicToMac[k] = x
        BY <2>3, <3>2 DEF Sound, NoLostMac
      <4> QED
        BY <1>1, <1>3, <2>3, <4>1
    <3> QED
      BY <3>1, <3>2
  <2>9. Sound(T)
    BY <2>1, <2>2, <2>6, <2>7, <2>8 DEF Sound
  <2>10. Touch(S, T, {n}, PodOf[n])
    <3>1. \A x \in Macs : Moved(S.macToPod[x], T.macToPod[x], NoPod, PodOf[n])
      BY <2>3, <2>4 DEF Moved
    <3> QED
      BY <2>2, <2>3, <3>1 DEF Touch, Moved
  <2> QED
    BY <1>1, <2>2, <2>3, <2>9, <2>10 DEF T, Drawable
<1> QED
  BY <1>2, <1>3

\* T is S with NIC n given the MAC it names.
MacSet(S, T, n, mac) ==
    /\ Sound(T) /\ Touch(S, T, {n}, PodOf[n])
    /\ T.fam = S.fam /\ T.podNics = S.podNics
    /\ mac = NoMac => T = S
    /\ mac # NoMac => T.nicToMac[n] = mac

\* GetStaticMac, for a MAC that the NIC names or has, unless it is refused.
LEMMA GetStaticMacSound ==
    ASSUME OwnMacs, NEW S, Sound(S), NEW n \in Nics, NEW mac \in Macs \cup {NoMac},
           mac \in MacRequests[n] \/ (mac # NoMac /\ mac = S.nicToMac[n]),
           ~MacRefused(S, n, mac, TRUE)
    PROVE  MacSet(S, GetStaticMac(S, n, mac), n, mac)
<1> DEFINE T == GetStaticMac(S, n, mac)
<1> USE DEF MacSet
<1>1. CASE mac = NoMac
  BY <1>1, TouchNone DEF GetStaticMac
<1>2. CASE mac # NoMac
  <2>1. SubnetInv(T)
    BY SoundTypes, GetStaticMacSame DEF SameAddresses
  <2>2. /\ T.fam = S.fam /\ T.pools = S.pools /\ T.protocol = S.protocol
        /\ T.gatewayMAC = S.gatewayMAC /\ T.podNics = S.podNics
        /\ T.nicToMac = [S.nicToMac EXCEPT ![n] = mac]
        /\ T.macToPod = [S.macToPod EXCEPT ![mac] = PodOf[n]]
    BY <1>2, SoundTypes DEF GetStaticMac, SubnetType
  <2> HIDE DEF T
  <2>3. /\ \A k \in Nics : T.nicToMac[k] = IF k = n THEN mac ELSE S.nicToMac[k]
        /\ \A x \in Macs : T.macToPod[x] = IF x = mac THEN PodOf[n] ELSE S.macToPod[x]
    BY <1>2, <2>2, SoundTypes
  <2>4. S.macToPod[mac] \in {NoPod, PodOf[n]}
    BY <1>2 DEF MacRefused, MacConflict
  <2>5. ASSUME NEW k \in Nics, k # n PROVE S.nicToMac[k] # mac
    <3> SUFFICES ASSUME S.nicToMac[k] = mac PROVE FALSE
      OBVIOUS
    <3>1. S.macToPod[mac] = PodOf[k] /\ mac \in MacsOf(k)
      BY <1>2 DEF Sound, NicMac
    <3>2. PodOf[k] = PodOf[n]
      BY <2>4, <3>1, ConstantsAssumption
    <3>3. mac # S.nicToMac[n]
      BY <1>2, <2>5 DEF Sound, DistinctMacs
    <3> QED
      BY <1>2, <2>5, <3>1, <3>2, <3>3 DEF OwnMacs
  <2>6. mac \in MacsOf(n)
    BY <1>2 DEF MacsOf, Sound, NicMac
  <2>7. ASSUME NEW k \in Nics PROVE NicMac(T, k)
    <3>1. NicMac(S, k)
      BY Zenon DEF Sound
    <3>2. S.nicToMac \in [Nics -> Macs \cup {NoMac}]
      BY SoundTypes, Zenon
    <3>3. CASE k = n
      BY <1>2, <2>3, <2>6, <3>3 DEF NicMac
    <3>4. CASE k # n
      <4>1. T.nicToMac[k] = S.nicToMac[k] /\ S.nicToMac[k] # mac
        BY <2>3, <2>5, <3>4
      <4>2. S.nicToMac[k] # NoMac => T.macToPod[S.nicToMac[k]] = S.macToPod[S.nicToMac[k]]
        BY <2>3, <3>2, <4>1
      <4> QED
        BY <3>1, <4>1, <4>2, Zenon DEF NicMac
    <3> QED
      BY <3>3, <3>4, Zenon
  <2>8. DistinctMacs(T)
    BY <2>3, <2>5 DEF Sound, DistinctMacs
  <2>9. SteadyMacs => NoLostMac(T)
    <3> SUFFICES ASSUME SteadyMacs, NEW x \in Macs, T.macToPod[x] # NoPod
                 PROVE  \E k \in Nics : T.nicToMac[k] = x
      BY DEF NoLostMac
    <3>1. CASE x = mac
      BY <2>3, <3>1
    <3>2. CASE x # mac
      <4>1. PICK k \in Nics : S.nicToMac[k] = x
        BY <2>3, <3>2 DEF Sound, NoLostMac
      <4>2. CASE k # n
        BY <2>3, <4>1, <4>2
      <4>3. CASE k = n
        <5>1. x \in MacsOf(n) /\ mac \in MacRequests[n]
          BY <3>2, <4>1, <4>3, ConstantsAssumption DEF Sound, NicMac
        <5>2. MacRequests[n] = {mac}
          BY <5>1 DEF SteadyMacs
        <5> QED
          BY <1>2, <3>2, <5>1, <5>2, ConstantsAssumption DEF MacsOf
      <4> QED
        BY <4>2, <4>3
    <3> QED
      BY <3>1, <3>2
  <2>10. Sound(T)
    BY <2>1, <2>2, <2>7, <2>8, <2>9, Zenon DEF Sound
  <2>11. Touch(S, T, {n}, PodOf[n])
    <3>1. \A x \in Macs : Moved(S.macToPod[x], T.macToPod[x], NoPod, PodOf[n])
      BY <2>3, <2>4 DEF Moved
    <3> QED
      BY <2>2, <2>3, <3>1, Zenon DEF Touch, Moved
  <2> QED
    BY <1>2, <2>2, <2>3, <2>10, <2>11 DEF T
<1> QED
  BY <1>1, <1>2

\* pushPodNic and popPodNic.
LEMMA PodNicsSound ==
    ASSUME NEW S, Sound(S), NEW N \in SUBSET Nics, NEW c \in Pods,
           NEW podNics \in [Pods -> SUBSET Nics],
           \A pod \in Pods : \A k \in podNics[pod] : PodOf[k] = pod,
           \A k \in Nics \ N : k \in podNics[PodOf[k]] <=> k \in S.podNics[PodOf[k]]
    PROVE  LET T == [S EXCEPT !.podNics = podNics]
           IN  /\ Sound(T) /\ Touch(S, T, N, c)
               /\ T.fam = S.fam /\ SameMacs(S, T) /\ T.podNics = podNics
<1> DEFINE T == [S EXCEPT !.podNics = podNics]
<1>1. SubnetInv(T)
  BY SoundTypes, PodNicsChanged DEF SameAddresses
<1>2. /\ T.fam = S.fam /\ T.pools = S.pools /\ T.protocol = S.protocol
      /\ T.gatewayMAC = S.gatewayMAC /\ T.podNics = podNics
      /\ T.nicToMac = S.nicToMac /\ T.macToPod = S.macToPod
  BY SoundTypes DEF SubnetType
<1> HIDE DEF T
<1>3. Sound(T)
  <2>1. /\ T.gatewayMAC \in GatewayMacs \cup {NoMac}
        /\ \A f \in Families : UsedFamily(T.fam[f])
    BY <1>2, Zenon DEF Sound
  <2>2. \A pod \in Pods : \A k \in T.podNics[pod] : PodOf[k] = pod
    BY <1>2
  <2> QED
    BY <1>1, <1>2, <2>1, <2>2, ReconfiguredSound, Zenon
<1>4. Touch(S, T, N, c)
  BY <1>2, Zenon DEF Touch, Moved
<1> QED
  BY <1>2, <1>3, <1>4 DEF T, SameMacs

\* pushPodNic puts the NIC into PodToNicList.
LEMMA pushPodNicSound ==
    ASSUME NEW S, Sound(S), NEW n \in Nics
    PROVE  LET T == pushPodNic(S, n)
           IN  /\ Sound(T) /\ Touch(S, T, {n}, PodOf[n])
               /\ T.fam = S.fam /\ SameMacs(S, T) /\ Listed(T, n)
<1> DEFINE podNics == [S.podNics EXCEPT ![PodOf[n]] = S.podNics[PodOf[n]] \cup {n}]
           T == [S EXCEPT !.podNics = podNics]
<1>1. PodOf[n] \in Pods /\ S.podNics \in [Pods -> SUBSET Nics]
  BY SoundTypes, Zenon
<1>2. CASE HasIP(S, n) \/ S.nicToMac[n] # NoMac
  <2>1. /\ podNics \in [Pods -> SUBSET Nics] /\ n \in podNics[PodOf[n]]
        /\ \A pod \in Pods : \A k \in podNics[pod] : PodOf[k] = pod
        /\ \A k \in Nics \ {n} : k \in podNics[PodOf[k]] <=> k \in S.podNics[PodOf[k]]
    <3>1. \A pod \in Pods : \A k \in S.podNics[pod] : PodOf[k] = pod
      BY Zenon DEF Sound
    <3>2. PodOf \in [Nics -> Pods]
      BY ConstantsAssumption
    <3> QED
      BY <1>1, <3>1, <3>2
  <2>2. pushPodNic(S, n) = T
    BY <1>2 DEF pushPodNic
  <2> HIDE DEF podNics
  <2>3. /\ Sound(T) /\ Touch(S, T, {n}, PodOf[n])
        /\ T.fam = S.fam /\ SameMacs(S, T) /\ T.podNics = podNics
    BY <1>1, <2>1, PodNicsSound
  <2> HIDE DEF T
  <2> QED
    BY <2>1, <2>2, <2>3, Zenon DEF Listed
<1>3. CASE ~(HasIP(S, n) \/ S.nicToMac[n] # NoMac)
  BY <1>3, TouchNone DEF pushPodNic, Listed, SameMacs
<1> QED
  BY <1>2, <1>3, Zenon

\* popPodNic takes only the NICs N out of it.
LEMMA popPodNicsSound ==
    ASSUME NEW S, Sound(S), NEW c \in Pods, NEW N \in SUBSET Nics
    PROVE  LET T == popPodNics(S, c, N)
           IN  /\ Sound(T) /\ Touch(S, T, N, c) /\ T.fam = S.fam /\ SameMacs(S, T)
<1> DEFINE podNics == [S.podNics EXCEPT ![c] = S.podNics[c] \ N]
<1>1. PodOf \in [Nics -> Pods] /\ S.podNics \in [Pods -> SUBSET Nics]
  BY SoundTypes
<1>2. /\ podNics \in [Pods -> SUBSET Nics]
      /\ \A pod \in Pods : \A k \in podNics[pod] : PodOf[k] = pod
      /\ \A k \in Nics \ N : k \in podNics[PodOf[k]] <=> k \in S.podNics[PodOf[k]]
  BY <1>1 DEF Sound
<1>3. popPodNics(S, c, N) = [S EXCEPT !.podNics = podNics]
  BY DEF popPodNics
<1> HIDE DEF podNics
<1>4. LET T == [S EXCEPT !.podNics = podNics]
      IN  /\ Sound(T) /\ Touch(S, T, N, c) /\ T.fam = S.fam /\ SameMacs(S, T)
  BY <1>2, PodNicsSound
<1> QED
  BY <1>3, <1>4

\* G is F with address ip leased to NIC n from pool p.
Leased(F, G, p, n, ip) ==
    /\ UsedFamily(G)
    /\ G.nicToIP[n] = ip
    /\ \A k \in Nics \ {n} : G.nicToIP[k] = F.nicToIP[k]
    /\ \A a \in Addr : Moved(F.ipToPod[a], G.ipToPod[a], {}, {PodOf[n]})
    /\ \A q \in AllPools : q # p => G.pool[q] = F.pool[q]

\* Handing an address nobody has to a NIC that has none.
LEMMA LeaseUsed ==
    ASSUME NEW F, FamilyInv(F), UsedFamily(F), NEW p \in AllPools, NEW n \in Nics,
           NEW ip \in Addr, F.nicToIP[n] = NoIP, F.ipToPod[ip] = {}, NEW free, NEW released
    PROVE  Leased(F, Lease(F, p, n, ip, free, released), p, n, ip)
<1> DEFINE G == Lease(F, p, n, ip, free, released)
<1> USE DEF Leased
<1>1. F \in Family
  BY Zenon DEF FamilyInv
<1>2. /\ F.nicToIP \in [Nics -> Addr \cup {NoIP}]
      /\ F.ipToPod \in [Addr -> SUBSET Pods] /\ F.using \in SUBSET Addr
  BY <1>1 DEF Family
<1>3. /\ G.nicToIP = [F.nicToIP EXCEPT ![n] = ip]
      /\ G.ipToPod = [F.ipToPod EXCEPT ![ip] = {PodOf[n]}]
      /\ G.using = F.using \cup {ip}
      /\ \A q \in AllPools : q # p => G.pool[q] = F.pool[q]
  BY <1>1 DEF Lease, Family
<1> HIDE DEF G
<1>4. /\ \A k \in Nics : G.nicToIP[k] = IF k = n THEN ip ELSE F.nicToIP[k]
      /\ \A a \in Addr : G.ipToPod[a] = IF a = ip THEN {PodOf[n]} ELSE F.ipToPod[a]
  BY <1>2, <1>3
<1>5. OwnedFamily(G)
  BY <1>2, <1>3, <1>4 DEF UsedFamily, OwnedFamily
<1>6. ASSUME NEW a \in G.using
      PROVE  \E k \in Nics : G.nicToIP[k] = a
  <2>1. CASE a = ip
    BY <1>4, <2>1
  <2>2. CASE a # ip
    <3>1. PICK k \in Nics : F.nicToIP[k] = a
      BY <1>3, <1>6, <2>2 DEF UsedFamily
    <3>2. a # NoIP
      BY <1>2, <1>3, <1>6, <2>2, ConstantsAssumption
    <3> QED
      BY <1>4, <3>1, <3>2
  <2> QED
    BY <2>1, <2>2
<1>7. \A a \in Addr : Moved(F.ipToPod[a], G.ipToPod[a], {}, {PodOf[n]})
  BY <1>4, Zenon DEF Moved
<1> QED
  BY <1>3, <1>4, <1>5, <1>6, <1>7, Zenon DEF UsedFamily, G

-----------------------------------------------------------------------------
(* Random allocation.                                                       *)

\* The mac argument of a call for NIC n and the MAC it draws if it has to.
\* Apart from what the NIC asks for, checkAndAppendIpsForDual passes on the MAC
\* that the NIC has got.
Asks(S, n, mac, m) ==
    /\ MacArg(mac, m)
    /\ mac \in MacRequests[n] \/ (mac # NoMac /\ mac = S.nicToMac[n])
    /\ mac \in {Nil, NoMac} => m \in DrawnMacs /\ Drawable(S, n, m)

\* What the two steps of a random allocation, for an address and for a MAC,
\* leave behind; T and the error and the address of R are the results.
Served(S, f, n, mac, m, T, R) ==
    /\ Sound(T) /\ Touch(S, T, {n}, PodOf[n])
    /\ \A g \in Families : g # f => T.fam[g] = S.fam[g]
    /\ MacWithIP(S, n) => MacWithIP(T, n)
    /\ mac \in {Nil, NoMac} => Drawable(T, n, m)
    /\ R.err = "" => /\ R.ip # NoIP /\ T.fam[f].nicToIP[n] = R.ip
                     /\ mac # NoMac => T.nicToMac[n] # NoMac
    /\ R.err = "" \/ mac = Nil \/ ~MacRefused(S, n, mac, TRUE) =>
          (Listed(S, n) => Listed(T, n))

\* A family and the other one.
LEMMA TwoFamilies ==
    ASSUME NEW f \in Families
    PROVE  /\ Other(f) \in Families /\ Other(f) # f
           /\ \A g \in Families : g = f \/ g = Other(f)
BY DEF Other, Families

\* T is S without the address of family f of NIC n.
Freed(S, T, f, n) ==
    /\ Sound(T) /\ Touch(S, T, {n}, PodOf[n])
    /\ \A g \in Families : g # f => T.fam[g] = S.fam[g]
    /\ T.fam[f].nicToIP[n] = NoIP
    /\ \A p \in AllPools : T.fam[f].pool[p].ips = S.fam[f].pool[p].ips
    /\ MacWithIP(S, n) => MacWithIP(T, n)
    /\ Listed(S, n) => Listed(T, n)
    /\ S.fam[Other(f)].nicToIP[n] # NoIP => T.nicToMac[n] = S.nicToMac[n]
    /\ \A m \in Macs : Drawable(S, n, m) => Drawable(T, n, m)
    /\ \A mac \in Macs \cup {NoMac} :
         ~MacRefused(S, n, mac, TRUE) => ~MacRefused(T, n, mac, TRUE)

\* A release for one NIC, as a first step of the calls for that NIC.
LEMMA NicReleased ==
    ASSUME NEW S, Sound(S), NEW f \in Families, NEW n \in Nics
    PROVE  Freed(S, releaseFamAddr(S, f, PodOf[n], {n}), f, n)
<1> DEFINE T == releaseFamAddr(S, f, PodOf[n], {n})
<1> USE DEF Freed
<1>1. /\ Sound(T) /\ Touch(S, T, {n}, PodOf[n])
      /\ T.podNics = S.podNics
      /\ \A g \in Families : g # f => T.fam[g] = S.fam[g]
      /\ T.fam[f].nicToIP[n] = NoIP
      /\ \A p \in AllPools : T.fam[f].pool[p].ips = S.fam[f].pool[p].ips
      /\ T.nicToMac[n] \in {S.nicToMac[n], NoMac}
      /\ S.fam[Other(f)].nicToIP[n] # NoIP => T.nicToMac[n] = S.nicToMac[n]
      /\ \A m \in Macs : Drawable(S, n, m) => Drawable(T, n, m)
  <2>1. PodOf[n] \in Pods /\ {n} \in SUBSET Nics /\ \A k \in {n} : PodOf[k] = PodOf[n]
    BY SoundTypes
  <2>2. /\ Sound(T) /\ Touch(S, T, {n}, PodOf[n])
        /\ T.podNics = S.podNics
        /\ \A g \in Families : g # f => T.fam[g] = S.fam[g]
        /\ \A k \in {n} : T.fam[f].nicToIP[k] = NoIP
        /\ \A p \in AllPools : T.fam[f].pool[p].ips = S.fam[f].pool[p].ips
        /\ \A k \in {n} : /\ T.nicToMac[k] \in {S.nicToMac[k], NoMac}
                          /\ S.fam[Other(f)].nicToIP[k] # NoIP =>
                               T.nicToMac[k] = S.nicToMac[k]
        /\ \A k \in Nics, m \in Macs : Drawable(S, k, m) => Drawable(T, k, m)
    <3>1. Released(S, T, f, PodOf[n], {n})
      BY <2>1, FamilyReleased, Zenon
    <3> QED
      BY <3>1, Zenon DEF Released
  <2> HIDE DEF T
  <2> QED
    BY <2>2, Zenon
<1> HIDE DEF T
<1>2. HasIP(T, n) => HasIP(S, n) /\ S.fam[Other(f)].nicToIP[n] # NoIP
  BY <1>1, TwoFamilies, Zenon DEF HasIP
<1>3. MacWithIP(S, n) => MacWithIP(T, n)
  BY <1>1, <1>2, Zenon DEF MacWithIP
<1>4. Listed(S, n) => Listed(T, n)
  BY <1>1, <1>2, Zenon DEF Listed
<1>5. ASSUME NEW mac \in Macs, ~MacRefused(S, n, mac, TRUE)
      PROVE  ~MacRefused(T, n, mac, TRUE)
  BY <1>1, <1>5, Zenon DEF MacRefused, MacConflict, Touch, Moved
<1>6. \A mac \in Macs \cup {NoMac} :
        ~MacRefused(S, n, mac, TRUE) => ~MacRefused(T, n, mac, TRUE)
  BY <1>5 DEF MacRefused
<1> QED
  BY <1>1, <1>3, <1>4, <1>6, Zenon DEF T

\* R is the outcome for a NIC n that has no address of family f.
Allotted(S, f, p, n, mac, skip, m, R) ==
    /\ Served(S, f, n, mac, m, R.s, R)
    /\ R.err # "" => R.s.fam[f].nicToIP[n] = NoIP
    /\ R.err = "" => R.ip \in S.fam[f].pool[p].available
    /\ mac = Nil /\ p \in S.pools /\ S.fam[f].pool[p].available # {} /\ skip = {}
       => R.err = ""

\* Random allocation past the cached address, for a NIC that has none: when it
\* fails, for whatever reason, it still has none.
LEMMA AllocateRandomSound ==
    ASSUME OwnMacs, NEW S, Sound(S), NEW f \in Families, NEW p \in AllPools,
           NEW n \in Nics, NEW mac, NEW m, Asks(S, n, mac, m), NEW skip \in SUBSET Addr,
           S.fam[f].nicToIP[n] = NoIP
    PROVE  Allotted(S, f, p, n, mac, skip, m, AllocateRandom(S, f, p, n, mac, skip, TRUE, m))
<1> DEFINE F == S.fam[f]
           P == RefillFree(F.pool[p])
           E == WithPool(F, p, P)
           refilled == WithFamily(S, f, E)
           ip == Lowest(P.free \ skip)
           L == Lease(F, p, n, ip, P.free \ {ip}, P.released)
           held == WithFamily(S, f, L)
           leased == pushPodNic(held, n)
           rel == releaseFamAddr(leased, f, PodOf[n], {n})
           undone == popPodNics(rel, PodOf[n], {n})
           R == AllocateRandom(S, f, p, n, mac, skip, TRUE, m)
<1> USE DEF Allotted
<1>1. /\ FamilyInv(F) /\ F \in Family /\ UsedFamily(F)
      /\ \A q \in AllPools \ S.pools : F.pool[q] = EmptyPool
      /\ PodOf[n] \in Pods /\ NoIP \notin Addr
  BY SoundTypes, ConstantsAssumption, Zenon
<1>2. \/ p \notin S.pools /\ R = Result(S, "ErrNoAvailable", NoIP)
      \/ p \in S.pools /\ P.free = {} /\ R = Result(refilled, "ErrNoAvailable", NoIP)
      \/ p \in S.pools /\ P.free # {} /\ P.free \subseteq skip
         /\ R = Result(refilled, "ErrConflict", NoIP)
      \/ p \in S.pools /\ ~(P.free \subseteq skip) /\ mac = Nil
         /\ R = Result(GetRandomMac(leased, n, m), "", ip)
      \/ p \in S.pools /\ ~(P.free \subseteq skip) /\ mac # Nil
         /\ MacRefused(leased, n, mac, TRUE) /\ R = Result(undone, "ErrConflict", NoIP)
      \/ p \in S.pools /\ ~(P.free \subseteq skip) /\ mac # Nil
         /\ ~MacRefused(leased, n, mac, TRUE)
         /\ R = Result(GetStaticMac(leased, n, mac), "", ip)
  <2> HIDE DEF leased, undone
  <2> QED
    BY Zenon DEF AllocateRandom, F, P, E, WithPool, refilled, held, leased, undone, rel
<1> HIDE DEF R
<1> DEFINE Claim == /\ Served(S, f, n, mac, m, R.s, R)
                    /\ R.err # "" => R.s.fam[f].nicToIP[n] = NoIP
                    /\ R.err = "" => R.ip \in F.pool[p].available
<1> HIDE DEF F
<1>3. /\ P \in Pool /\ P.ips = F.pool[p].ips /\ P.available = F.pool[p].available
      /\ P.reserved = F.pool[p].reserved /\ P.using = F.pool[p].using
      /\ P.free \cup P.released = P.available /\ P.free \cap P.released = {}
      /\ P.free \in SUBSET Addr /\ P.released \in SUBSET Addr
  <2>1. /\ P \in Pool /\ P.ips = F.pool[p].ips /\ P.available = F.pool[p].available
        /\ P.reserved = F.pool[p].reserved /\ P.using = F.pool[p].using
        /\ P.free \cup P.released = P.available /\ P.free \cap P.released = {}
    <3>1. FamilyInv(F)
      BY <1>1, Zenon
    <3>2. Refilled(F.pool[p], P)
      BY <3>1, RefillFreeLists, Zenon
    <3> HIDE DEF P
    <3> QED
      BY <3>2 DEF Refilled
  <2> HIDE DEF P
  <2>2. P.free \in SUBSET Addr /\ P.released \in SUBSET Addr
    BY <2>1, Zenon DEF Pool
  <2> QED
    BY <2>1, <2>2, Zenon
<1>4. F.pool[p].available # {} => P.free # {}
  <2> DEFINE Q == F.pool[p]
  <2>1. /\ Q \in Pool /\ Q.free \cup Q.released = Q.available
        /\ Q.available \cap Q.reserved = {}
    BY <1>1, Zenon DEF FamilyInv, PartitionedFamily, AccountedPool, Family
  <2> HIDE DEF Q
  <2>2. RefillFree(Q).free = IF Q.free # {} THEN Q.free ELSE Q.released
    <3>1. Q.free \ Q.reserved = Q.free /\ Q.released \ Q.reserved = Q.released
      BY <2>1
    <3> QED
      BY <2>1, <3>1 DEF RefillFree, Pool
  <2> QED
    BY <2>1, <2>2, Zenon DEF Q, P
<1> HIDE DEF P
<1>5. ASSUME p \in S.pools
      PROVE  /\ Sound(refilled) /\ Touch(S, refilled, {n}, PodOf[n])
             /\ SameMacs(S, refilled) /\ refilled.podNics = S.podNics
             /\ \A g \in Families : g # f => refilled.fam[g] = S.fam[g]
             /\ refilled.fam[f].nicToIP = F.nicToIP
  <2>1. FamilyInv(E)
    BY <1>1, <1>3, WithPoolInv, Zenon
  <2>2. /\ E.nicToIP = F.nicToIP /\ E.ipToPod = F.ipToPod /\ E.using = F.using
        /\ \A q \in AllPools : q # p => E.pool[q] = F.pool[q]
    BY <1>1 DEF WithPool, Family
  <2> HIDE DEF E
  <2>3. /\ UsedFamily(E)
        /\ \A q \in AllPools \ S.pools : E.pool[q] = EmptyPool
        /\ \A a \in Addr : Moved(F.ipToPod[a], E.ipToPod[a], {}, {PodOf[n]})
        /\ \A k \in Nics \ {n} : E.nicToIP[k] = F.nicToIP[k]
    <3>1. UsedFamily(E)
      BY <1>1, <2>2 DEF UsedFamily, OwnedFamily
    <3>2. \A q \in AllPools \ S.pools : E.pool[q] = EmptyPool
      BY <1>1, <1>5, <2>2
    <3>3. \A a \in Addr : Moved(F.ipToPod[a], E.ipToPod[a], {}, {PodOf[n]})
      BY <2>2, Zenon DEF Moved
    <3> QED
      BY <2>2, <3>1, <3>2, <3>3, Zenon
  <2>4. /\ Sound(refilled) /\ Touch(S, refilled, {n}, PodOf[n])
        /\ SameMacs(S, refilled) /\ refilled.podNics = S.podNics
        /\ refilled.fam[f] = E
        /\ \A g \in Families : g # f => refilled.fam[g] = S.fam[g]
    <3>1. Replaced(S, refilled, f, E, {n}, PodOf[n])
      BY <2>1, <2>3, FamilyReplaced, Zenon DEF F
    <3> QED
      BY <3>1, Zenon DEF Replaced, F
  <2> QED
    BY <2>2, <2>4, Zenon
<1>6. ASSUME p \in S.pools, ~(P.free \subseteq skip)
      PROVE  /\ ip \in F.pool[p].available /\ ip \in Addr
             /\ Sound(leased) /\ Touch(S, leased, {n}, PodOf[n])
             /\ SameMacs(S, leased) /\ Listed(leased, n)
             /\ \A g \in Families : g # f => leased.fam[g] = S.fam[g]
             /\ leased.fam[f].nicToIP[n] = ip
  <2>1. ip \in P.free \ skip
    BY <1>3, <1>6, LowestIn, Zenon
  <2> HIDE DEF ip
  <2>2. ip \in F.pool[p].ips /\ ip \in F.pool[p].available /\ ip \notin F.using /\ ip \in Addr
    <3>1. AccountedPool(F, F.pool[p])
      BY <1>1 DEF FamilyInv, PartitionedFamily
    <3>2. ip \in F.pool[p].available /\ ip \in Addr
      BY <1>3, <2>1
    <3> QED
      BY <3>1, <3>2 DEF AccountedPool
  <2>3. \A k \in Nics : F.nicToIP[k] # ip
    BY <1>1, <2>2, Zenon DEF FamilyInv, HeldFamily
  <2>4. /\ (P.free \ {ip}) \cup P.released = F.pool[p].available \ {ip}
        /\ (P.free \ {ip}) \cap P.released = {}
        /\ P.free \ {ip} \in SUBSET Addr
    BY <1>3, <2>1, Zenon
  <2>5. FamilyInv(L)
    BY <1>1, <1>3, <2>2, <2>3, <2>4, LeaseInv, Zenon
  <2>6. F.ipToPod[ip] = {} /\ F.nicToIP[n] = NoIP
    BY <1>1, <2>2, Zenon DEF UsedFamily, OwnedFamily, F
  <2>7. /\ UsedFamily(L) /\ L.nicToIP[n] = ip
        /\ \A k \in Nics \ {n} : L.nicToIP[k] = F.nicToIP[k]
        /\ \A a \in Addr : Moved(F.ipToPod[a], L.ipToPod[a], {}, {PodOf[n]})
        /\ \A q \in AllPools : q # p => L.pool[q] = F.pool[q]
    <3>1. Leased(F, L, p, n, ip)
      BY <1>1, <2>2, <2>6, LeaseUsed, Zenon
    <3> QED
      BY <3>1, Zenon DEF Leased
  <2> HIDE DEF L
  <2>8. \A q \in AllPools \ S.pools : L.pool[q] = EmptyPool
    BY <1>1, <1>6, <2>7, Zenon
  <2>9. /\ Sound(held) /\ Touch(S, held, {n}, PodOf[n]) /\ SameMacs(S, held)
        /\ held.fam[f] = L
        /\ \A g \in Families : g # f => held.fam[g] = S.fam[g]
    <3>1. Replaced(S, held, f, L, {n}, PodOf[n])
      BY <2>5, <2>7, <2>8, FamilyReplaced, Zenon DEF F
    <3> QED
      BY <3>1, Zenon DEF Replaced, F
  <2> HIDE DEF held
  <2>10. /\ Sound(leased) /\ Touch(held, leased, {n}, PodOf[n])
         /\ leased.fam = held.fam /\ SameMacs(held, leased) /\ Listed(leased, n)
    BY <2>9, pushPodNicSound, Zenon
  <2> HIDE DEF leased
  <2>11. Touch(S, leased, {n}, PodOf[n])
    BY <2>9, <2>10, TouchTwice, Zenon
  <2> QED
    BY <2>2, <2>7, <2>9, <2>10, <2>11, Zenon DEF SameMacs
<1> HIDE DEF E, L, held, rel, undone, refilled, leased, ip
<1> DEFINE Is(T, err, a) == R.s = T /\ R.err = err /\ R.ip = a
<1>7. \A T, err, a : R = Result(T, err, a) => Is(T, err, a)
  BY DEF Result
<1> HIDE DEF Is
<1>8. \/ p \notin S.pools /\ Is(S, "ErrNoAvailable", NoIP)
      \/ /\ p \in S.pools /\ P.free \subseteq skip
         /\ Is(refilled, "ErrNoAvailable", NoIP) \/ Is(refilled, "ErrConflict", NoIP)
      \/ p \in S.pools /\ ~(P.free \subseteq skip) /\ mac = Nil
         /\ Is(GetRandomMac(leased, n, m), "", ip)
      \/ p \in S.pools /\ ~(P.free \subseteq skip) /\ mac # Nil
         /\ MacRefused(leased, n, mac, TRUE) /\ Is(undone, "ErrConflict", NoIP)
      \/ p \in S.pools /\ ~(P.free \subseteq skip) /\ mac # Nil
         /\ ~MacRefused(leased, n, mac, TRUE) /\ Is(GetStaticMac(leased, n, mac), "", ip)
  <2>1. P.free = {} => P.free \subseteq skip
    OBVIOUS
  <2> QED
    BY <1>2, <1>7, <2>1, Zenon
<1>9. ASSUME p \notin S.pools PROVE Claim
  <2>1. R.s = S /\ R.err = "ErrNoAvailable"
    BY <1>8, <1>9, Zenon DEF Is
  <2> QED
    BY <2>1, TouchNone, Zenon DEF Served, Asks
<1>10. ASSUME p \in S.pools, P.free \subseteq skip PROVE Claim
  <2>1. R.s = refilled /\ R.err \in {"ErrNoAvailable", "ErrConflict"}
    BY <1>8, <1>10, Zenon DEF Is
  <2>2. refilled.fam[f].nicToIP[n] = NoIP
    BY <1>5, <1>10 DEF F
  <2>3. \A g \in Families : refilled.fam[g].nicToIP[n] = S.fam[g].nicToIP[n]
    BY <1>5, <1>10, <2>2, Zenon
  <2> QED
    BY <1>5, <1>10, <2>1, <2>2, <2>3, Zenon
    DEF Served, Asks, Drawable, SameMacs, MacWithIP, Listed, HasIP
<1>11. ASSUME p \in S.pools, ~(P.free \subseteq skip), mac = Nil PROVE Claim
  <2> DEFINE T == GetRandomMac(leased, n, m)
  <2>1. R.s = T /\ R.err = "" /\ R.ip = ip
    BY <1>8, <1>11, Zenon DEF Is
  <2>2. m \in DrawnMacs /\ Drawable(leased, n, m)
    BY <1>6, <1>11, Zenon DEF Asks, Drawable, SameMacs
  <2>3. MacRequests[n] \cap {Nil, NoMac} # {}
    <3>1. S.nicToMac[n] # Nil
      <4>1. S.nicToMac \in [Nics -> Macs \cup {NoMac}]
        BY SoundTypes, Zenon
      <4> QED
        BY <4>1, ConstantsAssumption
    <3> QED
      BY <1>11, <3>1 DEF Asks
  <2>4. /\ Sound(T) /\ Touch(leased, T, {n}, PodOf[n])
        /\ T.fam = leased.fam /\ T.podNics = leased.podNics
        /\ T.nicToMac[n] # NoMac /\ Drawable(T, n, m)
    BY <1>6, <1>11, <2>2, <2>3, GetRandomMacSound, Zenon
  <2> HIDE DEF T
  <2>5. Touch(S, T, {n}, PodOf[n])
    BY <1>6, <1>11, <2>4, TouchTwice, Zenon
  <2>6. Listed(T, n) /\ MacWithIP(T, n)
    BY <1>1, <1>6, <1>11, <2>4, Zenon DEF Listed, MacWithIP, HasIP
  <2> QED
    BY <1>1, <1>6, <1>11, <2>1, <2>4, <2>5, <2>6, Zenon DEF Served
<1>12. ASSUME p \in S.pools, ~(P.free \subseteq skip), mac # Nil,
              MacRefused(leased, n, mac, TRUE)
       PROVE Claim
  <2>1. R.s = undone /\ R.err = "ErrConflict"
    BY <1>8, <1>12, Zenon DEF Is
  <2>2. /\ Sound(rel) /\ Touch(leased, rel, {n}, PodOf[n])
        /\ \A g \in Families : g # f => rel.fam[g] = leased.fam[g]
        /\ rel.fam[f].nicToIP[n] = NoIP
        /\ leased.fam[Other(f)].nicToIP[n] # NoIP => rel.nicToMac[n] = leased.nicToMac[n]
        /\ \A x \in Macs : Drawable(leased, n, x) => Drawable(rel, n, x)
    <3>1. Freed(leased, rel, f, n)
      BY <1>6, <1>12, NicReleased, Zenon DEF rel
    <3> QED
      BY <3>1, Zenon DEF Freed, rel
  <2> HIDE DEF rel
  <2>3. /\ Sound(undone) /\ Touch(rel, undone, {n}, PodOf[n])
        /\ undone.fam = rel.fam /\ SameMacs(rel, undone)
    BY <1>1, <2>2, popPodNicsSound, Zenon DEF undone
  <2> HIDE DEF undone
  <2>4. Touch(S, undone, {n}, PodOf[n])
    BY <1>6, <1>12, <2>2, <2>3, TouchTwice, Zenon
  <2>5. /\ undone.fam[f].nicToIP[n] = NoIP
        /\ \A g \in Families : g # f => undone.fam[g] = S.fam[g]
    BY <1>6, <1>12, <2>2, <2>3, Zenon
  <2>6. MacWithIP(S, n) => MacWithIP(undone, n)
    <3> SUFFICES ASSUME MacWithIP(S, n), HasIP(undone, n)
                 PROVE  undone.nicToMac[n] # NoMac \/ NoMac \in MacRequests[n]
      BY DEF MacWithIP
    <3>1. /\ Other(f) \in Families /\ Other(f) # f
          /\ \A g \in Families : g = f \/ g = Other(f)
      BY DEF Other, Families
    <3>2. undone.fam[Other(f)].nicToIP[n] # NoIP
      BY <2>5, <3>1 DEF HasIP
    <3>3. S.fam[Other(f)].nicToIP[n] # NoIP /\ leased.fam[Other(f)].nicToIP[n] # NoIP
      BY <1>6, <1>12, <2>5, <3>1, <3>2, Zenon
    <3>4. undone.nicToMac[n] = S.nicToMac[n]
      BY <1>6, <1>12, <2>2, <2>3, <3>3, Zenon DEF SameMacs
    <3> QED
      BY <3>1, <3>3, <3>4, Zenon DEF MacWithIP, HasIP
  <2>7. mac \in {Nil, NoMac} => Drawable(undone, n, m)
    BY <1>12, Zenon DEF MacRefused
  <2>8. MacRefused(S, n, mac, TRUE)
    <3>1. leased.macToPod = S.macToPod /\ leased.gatewayMAC = S.gatewayMAC
      BY <1>6, <1>12, Zenon DEF SameMacs, Touch
    <3> QED
      BY <1>12, <3>1 DEF MacRefused, MacConflict
  <2>9. R.err # "" /\ mac # Nil
    BY <1>12, <2>1, Zenon
  <2> QED
    BY <2>1, <2>3, <2>4, <2>5, <2>6, <2>7, <2>8, <2>9, Zenon DEF Served
<1>13. ASSUME p \in S.pools, ~(P.free \subseteq skip), mac # Nil,
              ~MacRefused(leased, n, mac, TRUE)
       PROVE Claim
  <2> DEFINE T == GetStaticMac(leased, n, mac)
  <2>1. R.s = T /\ R.err = "" /\ R.ip = ip
    BY <1>8, <1>13, Zenon DEF Is
  <2>2. /\ mac \in Macs \cup {NoMac}
        /\ mac \in MacRequests[n] \/ (mac # NoMac /\ mac = leased.nicToMac[n])
    BY <1>6, <1>13, Zenon DEF Asks, MacArg, SameMacs
  <2>3. /\ Sound(T) /\ Touch(leased, T, {n}, PodOf[n])
        /\ T.fam = leased.fam /\ T.podNics = leased.podNics
        /\ mac = NoMac => T = leased
        /\ mac # NoMac => T.nicToMac[n] = mac
    <3>1. MacSet(leased, GetStaticMac(leased, n, mac), n, mac)
      BY <1>6, <1>13, <2>2, GetStaticMacSound, Zenon
    <3> QED
      BY <3>1, Zenon DEF MacSet
  <2> HIDE DEF T
  <2>4. Touch(S, T, {n}, PodOf[n])
    BY <1>6, <1>13, <2>3, TouchTwice, Zenon
  <2>5. Listed(T, n)
    BY <1>1, <1>6, <1>13, <2>3, Zenon DEF Listed, HasIP
  <2>6. MacWithIP(T, n)
    BY <2>2, <2>3 DEF MacWithIP
  <2>7. mac \in {Nil, NoMac} => Drawable(T, n, m)
    BY <1>6, <1>13, <2>3, Zenon DEF Asks, Drawable, SameMacs
  <2> QED
    BY <1>1, <1>6, <1>13, <2>1, <2>3, <2>4, <2>5, <2>6, <2>7, Zenon DEF Served
<1>14. Claim
  BY <1>9, <1>10, <1>11, <1>12, <1>13, Zenon
<1>15. mac = Nil /\ p \in S.pools /\ F.pool[p].available # {} /\ skip = {} => R.err = ""
  <2> SUFFICES ASSUME mac = Nil, p \in S.pools, F.pool[p].available # {}, skip = {}
               PROVE  R.err = ""
    BY Zenon
  <2>1. ~(P.free \subseteq skip)
    BY <1>4, Zenon
  <2> QED
    BY <1>8, <2>1, Zenon DEF Is
<1> QED
  BY <1>14, <1>15, Zenon DEF F, R

\* R is the outcome for NIC n, which keeps the address it has unless that is skipped.
Obtained(S, f, p, n, mac, skip, m, R) ==
    LET own == S.fam[f].nicToIP[n]
    IN  /\ Served(S, f, n, mac, m, R.s, R)
        /\ skip = {} /\ R.err # "" => R.s.fam[f].nicToIP[n] = own
        /\ skip = {} /\ own # NoIP => R.err = "" /\ R.ip = own
        /\ skip = {} /\ own = NoIP /\ R.err = "" => R.ip \in S.fam[f].pool[p].available
        /\ /\ mac = Nil /\ p \in S.pools /\ skip = {}
           /\ own # NoIP \/ S.fam[f].pool[p].available # {}
           => R.err = ""

\* getV4RandomAddress and getV6RandomAddress.  Without addresses to skip a NIC
\* keeps the one it has, and it has none still when the call fails.
LEMMA getRandomFamSound ==
    ASSUME OwnMacs, KeptMacs, NEW S, Sound(S), NEW f \in Families, NEW p \in AllPools,
           NEW n \in Nics, NEW mac, NEW m, Asks(S, n, mac, m), NEW skip \in SUBSET Addr,
           skip = {} \/ mac \in MacRequests[n], MacWithIP(S, n)
    PROVE  Obtained(S, f, p, n, mac, skip, m, getRandomFam(S, f, p, n, mac, skip, TRUE, m))
<1> DEFINE R == getRandomFam(S, f, p, n, mac, skip, TRUE, m)
           own == S.fam[f].nicToIP[n]
           rel == releaseFamAddr(S, f, PodOf[n], {n})
           R0 == AllocateRandom(S, f, p, n, mac, skip, TRUE, m)
           R1 == AllocateRandom(rel, f, p, n, mac, skip, TRUE, m)
<1> USE DEF Obtained
<1>1. \/ Cached(S, f, n, mac) /\ own \notin skip /\ R = Result(S, "", own)
      \/ ~Cached(S, f, n, mac) /\ R = R0
      \/ Cached(S, f, n, mac) /\ own \in skip /\ R = R1
  BY Zenon DEF getRandomFam
<1> HIDE DEF R
<1>2. CASE Cached(S, f, n, mac) /\ own \notin skip /\ R = Result(S, "", own)
  <2>1. R.s = S /\ R.err = "" /\ R.ip = own
    BY <1>2, Zenon DEF Result
  <2>2. own # NoIP /\ (mac # NoMac => S.nicToMac[n] # NoMac)
    BY <1>2, Zenon DEF Cached
  <2>3. Served(S, f, n, mac, m, S, R)
    BY <2>1, <2>2, TouchNone, Zenon DEF Served, Asks
  <2> QED
    BY <2>1, <2>2, <2>3, Zenon DEF R
<1>3. CASE ~Cached(S, f, n, mac) /\ R = R0
  <2>1. own = NoIP
    <3> SUFFICES ASSUME own # NoIP PROVE FALSE
      OBVIOUS
    <3>1. S.nicToMac[n] = NoMac /\ mac # NoMac
      BY <1>3, Zenon DEF Cached
    <3>2. mac \in MacRequests[n] /\ NoMac \in MacRequests[n]
      BY <3>1 DEF Asks, MacWithIP, HasIP
    <3> QED
      BY <3>1, <3>2 DEF KeptMacs
  <2> HIDE DEF R0
  <2>2. /\ Served(S, f, n, mac, m, R0.s, R0)
        /\ R0.err # "" => R0.s.fam[f].nicToIP[n] = NoIP
        /\ R0.err = "" => R0.ip \in S.fam[f].pool[p].available
        /\ mac = Nil /\ p \in S.pools /\ S.fam[f].pool[p].available # {} /\ skip = {}
           => R0.err = ""
    <3>1. Allotted(S, f, p, n, mac, skip, m, R0)
      BY <2>1, AllocateRandomSound, Zenon DEF R0
    <3> QED
      BY <3>1, Zenon DEF Allotted, R0
  <2> QED
    BY <1>3, <2>1, <2>2, Zenon DEF R
<1>4. CASE Cached(S, f, n, mac) /\ own \in skip /\ R = R1
  <2>1. mac \in MacRequests[n] /\ skip # {}
    BY <1>4, Zenon
  <2>2. /\ Sound(rel) /\ Touch(S, rel, {n}, PodOf[n])
        /\ \A g \in Families : g # f => rel.fam[g] = S.fam[g]
        /\ rel.fam[f].nicToIP[n] = NoIP
        /\ MacWithIP(rel, n) /\ (Listed(S, n) => Listed(rel, n))
        /\ \A x \in Macs : Drawable(S, n, x) => Drawable(rel, n, x)
        /\ \A x \in Macs \cup {NoMac} :
              ~MacRefused(S, n, x, TRUE) => ~MacRefused(rel, n, x, TRUE)
    <3>1. Freed(S, rel, f, n)
      BY NicReleased, Zenon
    <3> QED
      BY <3>1, Zenon DEF Freed
  <2> HIDE DEF rel
  <2>3. Asks(rel, n, mac, m)
    BY <2>1, <2>2, ConstantsAssumption, Zenon DEF Asks
  <2> HIDE DEF R1
  <2>4. Served(rel, f, n, mac, m, R1.s, R1)
    <3>1. Allotted(rel, f, p, n, mac, skip, m, R1)
      BY <2>2, <2>3, AllocateRandomSound, Zenon DEF R1
    <3> QED
      BY <3>1, Zenon DEF Allotted, R1
  <2>5. Touch(S, R1.s, {n}, PodOf[n])
    BY <2>2, <2>4, TouchTwice, Zenon DEF Served
  <2>6. R1.err = "" \/ mac = Nil \/ ~MacRefused(S, n, mac, TRUE) =>
          (Listed(S, n) => Listed(R1.s, n))
    <3>1. mac \in Macs \cup {NoMac, Nil}
      BY Zenon DEF Asks, MacArg
    <3> QED
      BY <2>2, <2>4, <3>1, Zenon DEF Served
  <2>7. Served(S, f, n, mac, m, R1.s, R1)
    BY <2>2, <2>4, <2>5, <2>6, Zenon DEF Served
  <2> QED
    BY <1>4, <2>1, <2>7, Zenon DEF R
<1> QED
  BY <1>1, <1>2, <1>3, <1>4, Zenon

\* What a call for NIC n leaves behind, if no address is to be skipped.
KeepsOnError(S, n, R) ==
    R.err # "" => \A f \in Families : R.s.fam[f].nicToIP[n] = S.fam[f].nicToIP[n]

\* Each family of G has an address for NIC n in pool p, or the NIC has one.
Available(S, G, p, n) ==
    \A f \in G : S.fam[f].nicToIP[n] # NoIP \/ S.fam[f].pool[p].available # {}

\* The call succeeds and returns the addresses that the NIC has got.
Serves(S, G, p, n, R) ==
    /\ R.err = ""
    /\ \A f \in G :
         /\ R.ip[f] = R.s.fam[f].nicToIP[n]
         /\ S.fam[f].nicToIP[n] # NoIP => R.ip[f] = S.fam[f].nicToIP[n]
         /\ S.fam[f].nicToIP[n] = NoIP => R.ip[f] \in S.fam[f].pool[p].available

\* getDualRandomAddress.
LEMMA getDualRandomAddressSound ==
    ASSUME OwnMacs, KeptMacs, NEW S, Sound(S), NEW p \in AllPools, NEW n \in Nics,
           NEW mac \in MacRequests[n], NEW m, Asks(S, n, mac, m),
           NEW skip \in [Families -> SUBSET Addr], MacWithIP(S, n)
    PROVE  LET R == getDualRandomAddress(S, p, n, mac, skip, TRUE, m)
           IN  /\ Sound(R.s) /\ Touch(S, R.s, {n}, PodOf[n]) /\ MacWithIP(R.s, n)
               /\ skip = NoSkip => KeepsOnError(S, n, R)
               /\ skip = NoSkip /\ mac = Nil /\ p \in S.pools /\ Available(S, Families, p, n)
                  => Serves(S, Families, p, n, R)
<1> DEFINE existing == S.fam["v4"].nicToIP[n]
           R4 == getRandomFam(S, "v4", p, n, mac, skip["v4"], TRUE, m)
           R6 == getRandomFam(R4.s, "v6", p, n, mac, skip["v6"], TRUE, m)
           again == getRandomFam(R6.s, "v4", p, n, mac, skip["v4"], TRUE, m)
           undone == UndoV4(R6.s, n, existing, R4.ip)
           R == getDualRandomAddress(S, p, n, mac, skip, TRUE, m)
<1>1. /\ "v4" \in Families /\ "v6" \in Families /\ "v4" # "v6"
      /\ \A f \in Families : f = "v4" \/ f = "v6"
      /\ skip["v4"] \in SUBSET Addr /\ skip["v6"] \in SUBSET Addr
      /\ skip = NoSkip => skip["v4"] = {} /\ skip["v6"] = {}
  BY DEF Families, NoSkip
<1>2. \/ R4.err # "" /\ R = Results(R4.s, R4.err, NoIP, NoIP)
      \/ R4.err = "" /\ R6.err # "" /\ R = Results(undone, R6.err, NoIP, NoIP)
      \/ /\ R4.err = "" /\ R6.err = "" /\ R6.s.fam["v4"].nicToIP[n] # R4.ip
         /\ R = Results(again.s, "", again.ip, R6.ip)
      \/ R4.err = "" /\ R6.err = "" /\ R = Results(R6.s, "", R4.ip, R6.ip)
  <2> HIDE DEF R4, R6, again, undone
  <2> QED
    BY Zenon DEF getDualRandomAddress, existing, R4, R6, again, undone
<1>3. \A T, err, v4, v6 : /\ Results(T, err, v4, v6).s = T
                          /\ Results(T, err, v4, v6).err = err
                          /\ Results(T, err, v4, v6).ip["v4"] = v4
                          /\ Results(T, err, v4, v6).ip["v6"] = v6
  BY <1>1, Zenon DEF Results
<1> HIDE DEF R
<1>4. /\ Served(S, "v4", n, mac, m, R4.s, R4)
      /\ skip["v4"] = {} /\ R4.err # "" => R4.s.fam["v4"].nicToIP[n] = existing
      /\ skip["v4"] = {} /\ existing # NoIP => R4.err = "" /\ R4.ip = existing
      /\ skip["v4"] = {} /\ existing = NoIP /\ R4.err = "" =>
           R4.ip \in S.fam["v4"].pool[p].available
      /\ /\ mac = Nil /\ p \in S.pools /\ skip["v4"] = {}
         /\ existing # NoIP \/ S.fam["v4"].pool[p].available # {}
         => R4.err = ""
  <2>1. Obtained(S, "v4", p, n, mac, skip["v4"], m, R4)
    BY <1>1, getRandomFamSound, Zenon
  <2> QED
    BY <2>1, Zenon DEF Obtained
<1> HIDE DEF R4
<1>5. /\ Sound(R4.s) /\ Touch(S, R4.s, {n}, PodOf[n]) /\ MacWithIP(R4.s, n)
      /\ R4.s.fam["v6"] = S.fam["v6"] /\ R4.s.pools = S.pools
      /\ Asks(R4.s, n, mac, m)
  BY <1>1, <1>4, Zenon DEF Served, Touch, Asks
<1> DEFINE own6 == R4.s.fam["v6"].nicToIP[n]
<1>6. /\ Served(R4.s, "v6", n, mac, m, R6.s, R6)
      /\ skip["v6"] = {} /\ R6.err # "" => R6.s.fam["v6"].nicToIP[n] = own6
      /\ skip["v6"] = {} /\ own6 # NoIP => R6.err = "" /\ R6.ip = own6
      /\ skip["v6"] = {} /\ own6 = NoIP /\ R6.err = "" =>
           R6.ip \in R4.s.fam["v6"].pool[p].available
      /\ /\ mac = Nil /\ p \in R4.s.pools /\ skip["v6"] = {}
         /\ own6 # NoIP \/ R4.s.fam["v6"].pool[p].available # {}
         => R6.err = ""
  <2>1. Obtained(R4.s, "v6", p, n, mac, skip["v6"], m, R6)
    BY <1>1, <1>5, getRandomFamSound, Zenon
  <2> QED
    BY <2>1, Zenon DEF Obtained
<1> HIDE DEF R6
<1>7. /\ Sound(R6.s) /\ Touch(S, R6.s, {n}, PodOf[n]) /\ MacWithIP(R6.s, n)
      /\ R6.s.fam["v4"] = R4.s.fam["v4"]
      /\ Asks(R6.s, n, mac, m)
  <2>1. Touch(R4.s, R6.s, {n}, PodOf[n])
    BY <1>6, Zenon DEF Served
  <2>2. Touch(S, R6.s, {n}, PodOf[n])
    BY <1>5, <2>1, TouchTwice, Zenon
  <2> QED
    BY <1>1, <1>5, <1>6, <2>2, Zenon DEF Served, Asks
<1>8. Served(R6.s, "v4", n, mac, m, again.s, again)
  <2>1. Obtained(R6.s, "v4", p, n, mac, skip["v4"], m, again)
    BY <1>1, <1>7, getRandomFamSound, Zenon
  <2> QED
    BY <2>1, Zenon DEF Obtained
<1> HIDE DEF again
<1>9. /\ Sound(again.s) /\ Touch(S, again.s, {n}, PodOf[n]) /\ MacWithIP(again.s, n)
  <2>1. Touch(R6.s, again.s, {n}, PodOf[n])
    BY <1>8, Zenon DEF Served
  <2> QED
    BY <1>7, <1>8, <2>1, TouchTwice, Zenon DEF Served
<1>10. /\ Sound(undone) /\ Touch(S, undone, {n}, PodOf[n]) /\ MacWithIP(undone, n)
       /\ undone.fam["v6"] = R6.s.fam["v6"]
       /\ existing # R4.ip => undone.fam["v4"].nicToIP[n] = NoIP
       /\ existing = R4.ip => undone = R6.s
  <2> DEFINE rel == releaseFamAddr(R6.s, "v4", PodOf[n], {n})
             T == popPodNics(rel, PodOf[n], {n})
  <2>1. /\ Sound(rel) /\ Touch(R6.s, rel, {n}, PodOf[n]) /\ MacWithIP(rel, n)
        /\ rel.fam["v6"] = R6.s.fam["v6"] /\ rel.fam["v4"].nicToIP[n] = NoIP
    <3>1. Freed(R6.s, rel, "v4", n)
      BY <1>1, <1>7, NicReleased, Zenon
    <3> QED
      BY <1>1, <1>7, <3>1, Zenon DEF Freed
  <2> HIDE DEF rel
  <2>2. /\ Sound(T) /\ Touch(rel, T, {n}, PodOf[n]) /\ T.fam = rel.fam /\ SameMacs(rel, T)
    <3>1. PodOf[n] \in Pods /\ {n} \in SUBSET Nics
      BY <2>1, SoundTypes, Zenon
    <3> QED
      BY <2>1, <3>1, popPodNicsSound, Zenon
  <2>3. undone = IF existing # R4.ip THEN T ELSE R6.s
    BY Zenon DEF UndoV4, rel
  <2> HIDE DEF T, undone
  <2>4. Touch(S, T, {n}, PodOf[n])
    <3>1. Touch(S, rel, {n}, PodOf[n])
      BY <1>7, <2>1, TouchTwice, Zenon
    <3> QED
      BY <2>2, <3>1, TouchTwice, Zenon
  <2>5. MacWithIP(T, n)
    BY <2>1, <2>2, Zenon DEF MacWithIP, HasIP, SameMacs
  <2> QED
    BY <1>7, <2>1, <2>2, <2>3, <2>4, <2>5, Zenon
<1> HIDE DEF undone
<1> DEFINE Is(T, err, v4, v6) == /\ R.s = T /\ R.err = err
                                 /\ R.ip["v4"] = v4 /\ R.ip["v6"] = v6
<1>11. \A T, err, v4, v6 : R = Results(T, err, v4, v6) => Is(T, err, v4, v6)
  BY <1>3
<1> HIDE DEF Is
<1>12. \/ R4.err # "" /\ Is(R4.s, R4.err, NoIP, NoIP)
       \/ R4.err = "" /\ R6.err # "" /\ Is(undone, R6.err, NoIP, NoIP)
       \/ /\ R4.err = "" /\ R6.err = "" /\ R6.s.fam["v4"].nicToIP[n] # R4.ip
          /\ Is(again.s, "", again.ip, R6.ip)
       \/ R4.err = "" /\ R6.err = "" /\ Is(R6.s, "", R4.ip, R6.ip)
  BY <1>2, <1>11, Zenon
<1>13. R.s \in {R4.s, R6.s, again.s, undone}
  BY <1>12, Zenon DEF Is
<1>14. Sound(R.s) /\ Touch(S, R.s, {n}, PodOf[n]) /\ MacWithIP(R.s, n)
  BY <1>5, <1>7, <1>9, <1>10, <1>13, Zenon
<1>15. ASSUME skip = NoSkip, R.err # ""
       PROVE  \A f \in Families : R.s.fam[f].nicToIP[n] = S.fam[f].nicToIP[n]
  <2>1. CASE R4.err # "" /\ R.s = R4.s
    BY <1>1, <1>4, <1>5, <1>15, <2>1, Zenon
  <2>2. CASE R4.err = "" /\ R6.err # "" /\ R.s = undone
    <3>1. R.s = undone
      BY <2>2, Zenon
    <3>2. undone.fam["v6"].nicToIP[n] = S.fam["v6"].nicToIP[n]
      BY <1>1, <1>5, <1>6, <1>10, <1>15, <2>2, Zenon
    <3>3. undone.fam["v4"].nicToIP[n] = existing
      <4>1. CASE existing = R4.ip
        BY <1>4, <1>7, <1>10, <2>2, <4>1, Zenon DEF Served
      <4>2. CASE existing # R4.ip
        BY <1>1, <1>4, <1>10, <1>15, <4>2, Zenon
      <4> QED
        BY <4>1, <4>2, Zenon
    <3> QED
      BY <1>1, <3>1, <3>2, <3>3, Zenon
  <2> QED
    BY <1>12, <1>15, <2>1, <2>2, Zenon DEF Is
<1>16. ASSUME skip = NoSkip, mac = Nil, p \in S.pools, Available(S, Families, p, n)
       PROVE  Serves(S, Families, p, n, R)
  <2>1. R4.err = "" /\ R6.err = ""
    BY <1>1, <1>4, <1>5, <1>6, <1>16, Zenon DEF Available
  <2>2. R4.s.fam["v4"].nicToIP[n] = R4.ip /\ R6.s.fam["v6"].nicToIP[n] = R6.ip
    BY <1>4, <1>6, <2>1, Zenon DEF Served
  <2>3. R6.s.fam["v4"].nicToIP[n] = R4.ip
    BY <1>7, <2>2, Zenon
  <2>4. R.err = "" /\ R.s = R6.s /\ R.ip["v4"] = R4.ip /\ R.ip["v6"] = R6.ip
    BY <1>12, <2>1, <2>3, Zenon DEF Is
  <2>5. /\ existing # NoIP => R4.ip = existing
        /\ existing = NoIP => R4.ip \in S.fam["v4"].pool[p].available
        /\ S.fam["v6"].nicToIP[n] # NoIP => R6.ip = S.fam["v6"].nicToIP[n]
        /\ S.fam["v6"].nicToIP[n] = NoIP => R6.ip \in S.fam["v6"].pool[p].available
    BY <1>1, <1>4, <1>5, <1>6, <1>16, <2>1, Zenon
  <2> QED
    BY <1>1, <2>2, <2>3, <2>4, <2>5, Zenon DEF Serves
<1> QED
  BY <1>14, <1>15, <1>16, Zenon DEF R, KeepsOnError

\* getMacOnlyAddress.
LEMMA getMacOnlyAddressSound ==
    ASSUME OwnMacs, NEW S, Sound(S), NEW n \in Nics, NEW mac \in MacRequests[n], NEW m,
           Asks(S, n, mac, m), MacWithIP(S, n)
    PROVE  LET R == getMacOnlyAddress(S, n, mac, TRUE, m)
           IN  /\ Sound(R.s) /\ Touch(S, R.s, {n}, PodOf[n]) /\ MacWithIP(R.s, n)
               /\ R.s.fam = S.fam
               /\ mac = Nil => R.err = ""
<1> DEFINE R == getMacOnlyAddress(S, n, mac, TRUE, m)
           T == GetRandomMac(S, n, m)
           U == GetStaticMac(S, n, mac)
<1>1. \/ mac \in {Nil, NoMac} /\ R.s = T /\ R.err = ""
      \/ mac \notin {Nil, NoMac} /\ R.s = S
      \/ mac \notin {Nil, NoMac} /\ ~MacRefused(S, n, mac, TRUE) /\ R.s = U
  BY Zenon DEF getMacOnlyAddress, Results
<1> HIDE DEF R
<1>2. ASSUME mac \in {Nil, NoMac}
      PROVE  /\ Sound(T) /\ Touch(S, T, {n}, PodOf[n]) /\ T.fam = S.fam /\ MacWithIP(T, n)
  <2>1. MacRequests[n] \cap {Nil, NoMac} # {} /\ m \in DrawnMacs /\ Drawable(S, n, m)
    BY <1>2 DEF Asks
  <2>2. /\ Sound(T) /\ Touch(S, T, {n}, PodOf[n]) /\ T.fam = S.fam /\ T.nicToMac[n] # NoMac
    BY <2>1, GetRandomMacSound, Zenon
  <2> QED
    BY <2>2, Zenon DEF MacWithIP
<1>3. ASSUME mac \notin {Nil, NoMac}, ~MacRefused(S, n, mac, TRUE)
      PROVE  /\ Sound(U) /\ Touch(S, U, {n}, PodOf[n]) /\ U.fam = S.fam /\ MacWithIP(U, n)
  <2>1. mac \in Macs \cup {NoMac}
    BY <1>3 DEF Asks, MacArg
  <2>2. /\ Sound(U) /\ Touch(S, U, {n}, PodOf[n]) /\ U.fam = S.fam
        /\ mac # NoMac => U.nicToMac[n] = mac
    <3>1. MacSet(S, U, n, mac)
      BY <1>3, <2>1, GetStaticMacSound, Zenon
    <3> QED
      BY <3>1, Zenon DEF MacSet
  <2> QED
    BY <1>3, <2>2, Zenon DEF MacWithIP
<1> HIDE DEF T, U
<1> QED
  BY <1>1, <1>2, <1>3, TouchNone, Zenon DEF R

\* Subnet.GetRandomAddressWithFamily.
LEMMA GetRandomAddressSound ==
    ASSUME OwnMacs, KeptMacs, NEW S, Sound(S), NEW p \in AllPools, NEW n \in Nics,
           NEW mac \in MacRequests[n], NEW m, Asks(S, n, mac, m), NEW want \in Wants,
           NEW skip \in [Families -> SUBSET Addr], MacWithIP(S, n)
    PROVE  LET R == GetRandomAddressWithFamily(S, p, n, mac, want, skip, TRUE, m)
           IN  /\ Sound(R.s) /\ Touch(S, R.s, {n}, PodOf[n])
               /\ MacWithIP(R.s, n) /\ Listed(R.s, n)
               /\ skip = NoSkip => KeepsOnError(S, n, R)
               /\ /\ skip = NoSkip /\ mac = Nil /\ want = Families /\ p \in S.pools
                  /\ Available(S, S.protocol, p, n)
                  => Serves(S, S.protocol, p, n, R)
<1> DEFINE f == CHOOSE g \in S.protocol \cap want : TRUE
           R0 == getMacOnlyAddress(S, n, mac, TRUE, m)
           R1 == Results(S, "ErrInvalidIPFamily", NoIP, NoIP)
           R2 == getDualRandomAddress(S, p, n, mac, skip, TRUE, m)
           Rf == getRandomFam(S, f, p, n, mac, skip[f], TRUE, m)
           R3 == OneFamily(f, Rf)
           Q == CASE S.protocol = {} -> R0
                  [] S.protocol \notin {{}, Families, want} /\ want # Families -> R1
                  [] S.protocol = Families /\ want = Families -> R2
                  [] OTHER -> R3
           R == [Q EXCEPT !.s = pushPodNic(Q.s, n)]
           Good(X) == /\ Sound(X.s) /\ Touch(S, X.s, {n}, PodOf[n]) /\ MacWithIP(X.s, n)
                      /\ skip = NoSkip => KeepsOnError(S, n, X)
                      /\ /\ skip = NoSkip /\ mac = Nil /\ want = Families /\ p \in S.pools
                         /\ Available(S, S.protocol, p, n)
                         => Serves(S, S.protocol, p, n, X)
<1>1. GetRandomAddressWithFamily(S, p, n, mac, want, skip, TRUE, m) = R
  BY DEF GetRandomAddressWithFamily
<1>2. S.protocol \in SUBSET {"v4", "v6"} /\ want \in {{"v4", "v6"}, {"v4"}, {"v6"}}
  <2>1. S.protocol \in SUBSET Families
    BY SoundTypes DEF SubnetType
  <2>2. Families = {"v4", "v6"}
    BY Zenon DEF Families
  <2> QED
    BY <2>1, <2>2, Zenon DEF Wants
<1>3. \/ S.protocol = {} /\ Q = R0
      \/ S.protocol \notin {{}, Families, want} /\ want # Families /\ Q = R1
      \/ S.protocol = Families /\ want = Families /\ Q = R2
      \/ Q = R3 /\ f \in S.protocol /\ f \in Families /\ (want = Families => S.protocol = {f})
  <2> HIDE DEF R0, R1, R2, R3
  <2>1. ASSUME S.protocol # {},
               ~(S.protocol \notin {{}, Families, want} /\ want # Families),
               ~(S.protocol = Families /\ want = Families)
        PROVE  f \in S.protocol /\ f \in Families /\ (want = Families => S.protocol = {f})
    <3>1. \E g \in Families : g \in S.protocol \cap want
      BY <1>2, <2>1 DEF Families
    <3>2. f \in S.protocol
      BY <3>1
    <3> HIDE DEF f
    <3> QED
      BY <1>2, <2>1, <3>2 DEF Families
  <2> HIDE DEF f
  <2>2. Families # {}
    BY DEF Families
  <2> QED
    BY <2>1, <2>2
<1>4. ASSUME S.protocol = {}
      PROVE  Good(R0)
  <2>1. /\ Sound(R0.s) /\ Touch(S, R0.s, {n}, PodOf[n]) /\ MacWithIP(R0.s, n)
        /\ R0.s.fam = S.fam /\ (mac = Nil => R0.err = "")
    BY getMacOnlyAddressSound, Zenon
  <2> HIDE DEF R0
  <2> QED
    BY <1>4, <2>1, Zenon DEF KeepsOnError, Serves
<1>5. want # Families => Good(R1)
  <2>1. R1.s = S
    BY Zenon DEF Results
  <2> HIDE DEF R1
  <2> QED
    BY <2>1, TouchNone, Zenon DEF KeepsOnError
<1>6. S.protocol = Families => Good(R2)
  BY getDualRandomAddressSound, Zenon
<1>7. ASSUME f \in S.protocol, f \in Families, want = Families => S.protocol = {f}
      PROVE  Good(R3)
  <2> HIDE DEF f
  <2>1. skip[f] \in SUBSET Addr /\ (skip = NoSkip => skip[f] = {})
    BY <1>7 DEF NoSkip
  <2>2. /\ Served(S, f, n, mac, m, Rf.s, Rf)
        /\ skip[f] = {} /\ Rf.err # "" => Rf.s.fam[f].nicToIP[n] = S.fam[f].nicToIP[n]
        /\ skip[f] = {} /\ S.fam[f].nicToIP[n] # NoIP =>
             Rf.err = "" /\ Rf.ip = S.fam[f].nicToIP[n]
        /\ skip[f] = {} /\ S.fam[f].nicToIP[n] = NoIP /\ Rf.err = "" =>
             Rf.ip \in S.fam[f].pool[p].available
        /\ /\ mac = Nil /\ p \in S.pools /\ skip[f] = {}
           /\ S.fam[f].nicToIP[n] # NoIP \/ S.fam[f].pool[p].available # {}
           => Rf.err = ""
    <3>1. Obtained(S, f, p, n, mac, skip[f], m, Rf)
      BY <1>7, <2>1, getRandomFamSound, Zenon
    <3> QED
      BY <3>1, Zenon DEF Obtained
  <2> HIDE DEF Rf
  <2>3. R3.s = Rf.s /\ R3.err = Rf.err /\ R3.ip[f] = Rf.ip
    BY <1>7, Zenon DEF OneFamily, Results, Families
  <2> HIDE DEF R3
  <2>4. Sound(R3.s) /\ Touch(S, R3.s, {n}, PodOf[n]) /\ MacWithIP(R3.s, n)
    BY <2>2, <2>3, Zenon DEF Served
  <2>5. skip = NoSkip => KeepsOnError(S, n, R3)
    BY <1>7, <2>1, <2>2, <2>3, Zenon DEF KeepsOnError, Served
  <2>6. ASSUME skip = NoSkip, mac = Nil, want = Families, p \in S.pools,
               Available(S, S.protocol, p, n)
        PROVE  Serves(S, S.protocol, p, n, R3)
    BY <1>7, <2>1, <2>2, <2>3, <2>6, Zenon DEF Serves, Available, Served
  <2> QED
    BY <2>4, <2>5, <2>6, Zenon
<1>8. Good(Q)
  <2> HIDE DEF R0, R1, R2, R3, Q, Good, f
  <2> QED
    BY <1>3, <1>4, <1>5, <1>6, <1>7
<1>9. Q = [s |-> Q.s, err |-> Q.err, ip |-> Q.ip]
  <2> DEFINE Wrapped(X) == X = [s |-> X.s, err |-> X.err, ip |-> X.ip]
  <2>1. \A T, err, v4, v6 : Wrapped(Results(T, err, v4, v6))
    BY Zenon DEF Results
  <2> HIDE DEF Wrapped
  <2>2. Wrapped(R0)
    BY <2>1, Zenon DEF getMacOnlyAddress
  <2>3. Wrapped(R1)
    BY <2>1, Zenon
  <2>4. Wrapped(R2)
    BY <2>1, Zenon DEF getDualRandomAddress
  <2>5. Wrapped(R3)
    <3> DEFINE v4 == IF f = "v4" THEN Rf.ip ELSE NoIP
               v6 == IF f = "v6" THEN Rf.ip ELSE NoIP
    <3>1. R3 = Results(Rf.s, Rf.err, v4, v6)
      BY Zenon DEF OneFamily
    <3> HIDE DEF v4, v6, R3
    <3> QED
      BY <2>1, <3>1, Zenon
  <2> HIDE DEF R0, R1, R2, R3, Q, f
  <2>6. Wrapped(Q)
    BY <1>3, <2>2, <2>3, <2>4, <2>5, Zenon
  <2> QED
    BY <2>6, Zenon DEF Wrapped
<1> HIDE DEF Q
<1>10. R.s = pushPodNic(Q.s, n) /\ R.err = Q.err /\ R.ip = Q.ip
  BY <1>9
<1>11. /\ Sound(R.s) /\ Touch(Q.s, R.s, {n}, PodOf[n])
       /\ R.s.fam = Q.s.fam /\ SameMacs(Q.s, R.s) /\ Listed(R.s, n)
  BY <1>8, <1>10, pushPodNicSound
<1> HIDE DEF R
<1>12. Touch(S, R.s, {n}, PodOf[n])
  BY <1>8, <1>11, TouchTwice, Zenon
<1>13. MacWithIP(R.s, n)
  BY <1>8, <1>11, Zenon DEF MacWithIP, HasIP, SameMacs
<1> QED
  BY <1>1, <1>8, <1>10, <1>11, <1>12, <1>13, Zenon DEF KeepsOnError, Serves

-----------------------------------------------------------------------------
(* Static allocation.                                                       *)

\* allocateStaticAddress, for a NIC that has no other address of the family.
LEMMA allocateStaticAddressSound ==
    ASSUME NEW S, Sound(S), NEW f \in Families, NEW p \in S.pools, NEW n \in Nics,
           NEW ip \in S.fam[f].pool[p].ips, S.fam[f].nicToIP[n] \in {NoIP, ip}
    PROVE  LET T == allocateStaticAddress(S, f, p, n, ip, TRUE).s
           IN  /\ Sound(T) /\ Touch(S, T, {n}, PodOf[n])
               /\ SameMacs(S, T) /\ T.podNics = S.podNics
               /\ \A g \in Families : g # f => T.fam[g] = S.fam[g]
<1> DEFINE F == S.fam[f]
           P == F.pool[p]
           owners == F.ipToPod[ip]
           L(free, released) == Lease(F, p, n, ip, free, released)
           T == allocateStaticAddress(S, f, p, n, ip, TRUE).s
<1>1. /\ FamilyInv(F) /\ F \in Family /\ UsedFamily(F) /\ p \in AllPools
      /\ \A q \in AllPools \ S.pools : F.pool[q] = EmptyPool
      /\ NoIP \notin Addr
  <2>1. p \in AllPools
    BY SoundTypes, Zenon
  <2>2. F \in Family /\ UsedFamily(F)
    BY SoundTypes, Zenon
  <2>3. FamilyInv(F) /\ \A q \in AllPools \ S.pools : F.pool[q] = EmptyPool
    BY SoundTypes, Zenon
  <2>4. NoIP \notin Addr
    BY ConstantsAssumption, Zenon
  <2> QED
    BY <2>1, <2>2, <2>3, <2>4, Zenon
<1>2. ip \in Addr
  <2>1. F.pool[p] \in Pool
    BY <1>1, Zenon DEF Family
  <2> QED
    BY <2>1, Zenon DEF Pool
<1>3. SubnetInv(T)
  BY SoundTypes, allocateStaticAddressInv, Zenon
<1>4. \/ T = S
      \/ owners = {} /\ \E free, released : T = WithFamily(S, f, L(free, released))
  BY Zenon DEF allocateStaticAddress, TakenByOther, Done, F
<1>5. CASE T = S
  BY <1>5, TouchNone, Zenon DEF SameMacs
<1>6. CASE owners = {} /\ \E free, released : T = WithFamily(S, f, L(free, released))
  <2>1. PICK free, released : T = WithFamily(S, f, L(free, released))
    BY <1>6, Zenon
  <2> DEFINE G == L(free, released)
  <2>2. F.nicToIP[n] = NoIP
    <3>1. ExclusiveFamily(F)
      BY <1>1, Zenon DEF FamilyInv
    <3>2. F.nicToIP[n] = ip => F.ipToPod[ip] = {PodOf[n]}
      BY <1>1, <1>2, <3>1 DEF ExclusiveFamily
    <3> QED
      BY <1>6, <3>2
  <2> HIDE DEF F, T
  <2>3. /\ UsedFamily(G)
        /\ \A k \in Nics \ {n} : G.nicToIP[k] = F.nicToIP[k]
        /\ \A a \in Addr : Moved(F.ipToPod[a], G.ipToPod[a], {}, {PodOf[n]})
        /\ \A q \in AllPools : q # p => G.pool[q] = F.pool[q]
    <3>1. Leased(F, G, p, n, ip)
      BY <1>1, <1>2, <1>6, <2>2, LeaseUsed, Zenon
    <3> QED
      BY <3>1, Zenon DEF Leased
  <2> HIDE DEF L
  <2>4. FamilyInv(G)
    <3>1. T.fam[f] = G
      BY <2>1, SoundTypes DEF WithFamily, SubnetType
    <3> QED
      BY <1>3, <3>1 DEF SubnetInv
  <2>5. \A q \in AllPools \ S.pools : G.pool[q] = EmptyPool
    BY <1>1, <2>3, Zenon
  <2> HIDE DEF G
  <2>6. T = WithFamily(S, f, G)
    BY <2>1 DEF G
  <2> QED
    <3>1. Replaced(S, WithFamily(S, f, G), f, G, {n}, PodOf[n])
      BY <2>3, <2>4, <2>5, <2>6, FamilyReplaced, Zenon DEF F, T
    <3> QED
      BY <2>6, <3>1, Zenon DEF Replaced, F, T
<1> QED
  BY <1>4, <1>5, <1>6, Zenon

\* R is the outcome of a static allocation for NIC n.
Given(S, n, mac, m, R) ==
    /\ Sound(R.s) /\ Touch(S, R.s, {n}, PodOf[n]) /\ MacWithIP(R.s, n)
    /\ Listed(S, n) => Listed(R.s, n)
    /\ Asks(R.s, n, mac, m)
    /\ R.err = "" => /\ mac = Nil => R.s.nicToMac[n] # NoMac
                     /\ mac \in Macs => /\ R.s.nicToMac[n] = mac
                                        /\ mac # R.s.gatewayMAC

\* Subnet.GetStaticAddress.
LEMMA GetStaticFamSound ==
    ASSUME OwnMacs, NEW S, Sound(S), NEW f \in Families, NEW n \in Nics, NEW ip,
           NEW mac \in MacRequests[n], NEW m, Asks(S, n, mac, m), MacWithIP(S, n)
    PROVE  Given(S, n, mac, m, GetStaticFam(S, f, n, ip, mac, TRUE, m))
<1> DEFINE refusal == StaticRefusal(S, f, ip, TRUE)
           p == CHOOSE q \in S.pools : ip \in S.fam[f].pool[q].ips
           rel == releaseFamAddr(S, f, PodOf[n], {n})
           S1 == IF S.fam[f].nicToIP[n] \notin {NoIP, ip} THEN rel ELSE S
           S2 == IF mac = Nil THEN GetRandomMac(S1, n, m) ELSE GetStaticMac(S1, n, mac)
           A == allocateStaticAddress(S2, f, p, n, ip, TRUE)
           R == GetStaticFam(S, f, n, ip, mac, TRUE, m)
           refused == mac # Nil /\ MacRefused(S1, n, mac, TRUE)
<1> USE DEF Given
<1>1. \/ refusal # "" /\ R = Done(S, refusal)
      \/ refusal = "" /\ refused /\ R = Done(pushPodNic(S1, n), "ErrConflict")
      \/ refusal = "" /\ ~refused /\ R = Done(pushPodNic(A.s, n), A.err)
  <2>1. \A T, err : Done(T, err).s = T /\ Done(T, err).err = err
    BY DEF Done
  <2> DEFINE B == IF refused THEN Done(S1, "ErrConflict") ELSE A
  <2>2. R = IF refusal # "" THEN Done(S, refusal) ELSE Done(pushPodNic(B.s, n), B.err)
    BY DEF GetStaticFam
  <2> HIDE DEF refusal, S1, S2, A, R, refused
  <2>3. B = IF refused THEN Done(S1, "ErrConflict") ELSE A
    OBVIOUS
  <2> HIDE DEF B
  <2> QED
    BY <2>1, <2>2, <2>3, Zenon
<1>2. \A T, err : Done(T, err).s = T /\ Done(T, err).err = err
  BY DEF Done
<1> HIDE DEF R
<1>3. ASSUME refusal # "", R = Done(S, refusal)
      PROVE  /\ R.s = S /\ R.err # ""
  BY <1>2, <1>3, Zenon
<1>4. /\ Sound(S1) /\ Touch(S, S1, {n}, PodOf[n]) /\ MacWithIP(S1, n)
      /\ Asks(S1, n, mac, m)
      /\ S1.fam[f].nicToIP[n] \in {NoIP, ip}
      /\ \A q \in AllPools : S1.fam[f].pool[q].ips = S.fam[f].pool[q].ips
  <2>1. /\ Sound(rel) /\ Touch(S, rel, {n}, PodOf[n]) /\ MacWithIP(rel, n)
        /\ rel.fam[f].nicToIP[n] = NoIP
        /\ \A q \in AllPools : rel.fam[f].pool[q].ips = S.fam[f].pool[q].ips
        /\ \A x \in Macs : Drawable(S, n, x) => Drawable(rel, n, x)
    <3>1. Freed(S, rel, f, n)
      BY NicReleased, Zenon
    <3> QED
      BY <3>1, Zenon DEF Freed
  <2> HIDE DEF rel
  <2>2. Asks(rel, n, mac, m)
    BY <2>1, ConstantsAssumption, Zenon DEF Asks
  <2> QED
    BY <2>1, <2>2, TouchNone, Zenon
<1> HIDE DEF S1
<1>5. ASSUME ~refused
      PROVE  /\ Sound(S2) /\ Touch(S1, S2, {n}, PodOf[n]) /\ S2.fam = S1.fam
             /\ Asks(S2, n, mac, m)
             /\ mac = Nil => S2.nicToMac[n] # NoMac
             /\ mac \in Macs => S2.nicToMac[n] = mac /\ mac # S2.gatewayMAC
             /\ S2.nicToMac[n] # NoMac \/ mac = NoMac
  <2>1. CASE mac = Nil
    <3>1. m \in DrawnMacs /\ Drawable(S1, n, m) /\ MacRequests[n] \cap {Nil, NoMac} # {}
      BY <1>4, <2>1, Zenon DEF Asks
    <3>2. /\ Sound(S2) /\ Touch(S1, S2, {n}, PodOf[n]) /\ S2.fam = S1.fam
          /\ S2.nicToMac[n] # NoMac /\ Drawable(S2, n, m)
      BY <1>4, <2>1, <3>1, GetRandomMacSound, Zenon
    <3>3. Asks(S2, n, mac, m)
      BY <1>4, <3>2, Zenon DEF Asks
    <3>4. mac \notin Macs
      BY <2>1, ConstantsAssumption
    <3> QED
      BY <2>1, <3>2, <3>3, <3>4, Zenon
  <2>2. CASE mac # Nil
    <3>1. mac \in Macs \cup {NoMac} /\ ~MacRefused(S1, n, mac, TRUE)
      BY <1>4, <1>5, <2>2, Zenon DEF Asks, MacArg
    <3>2. /\ Sound(S2) /\ Touch(S1, S2, {n}, PodOf[n]) /\ S2.fam = S1.fam
          /\ mac = NoMac => S2 = S1
          /\ mac # NoMac => S2.nicToMac[n] = mac
      <4>1. MacSet(S1, S2, n, mac)
        BY <1>4, <2>2, <3>1, GetStaticMacSound, Zenon
      <4> QED
        BY <4>1, Zenon DEF MacSet
    <3> HIDE DEF S2
    <3>3. mac # NoMac => mac # S2.gatewayMAC
      BY <3>1, <3>2, Zenon DEF MacRefused, MacConflict, Touch
    <3>4. Asks(S2, n, mac, m)
      BY <1>4, <2>2, <3>2, Zenon DEF Asks
    <3>5. NoMac \notin Macs
      BY ConstantsAssumption
    <3> QED
      BY <2>2, <3>2, <3>3, <3>4, <3>5, Zenon
  <2> QED
    BY <2>1, <2>2, Zenon
<1> HIDE DEF S2
<1>6. ASSUME refusal = "", ~refused
      PROVE  /\ Sound(A.s) /\ Touch(S2, A.s, {n}, PodOf[n])
             /\ SameMacs(S2, A.s)
  <2>1. p \in S.pools /\ ip \in S.fam[f].pool[p].ips
    <3>1. \E q \in S.pools : ip \in S.fam[f].pool[q].ips
      BY <1>6, Zenon DEF StaticRefusal
    <3> QED
      BY <3>1, Zenon
  <2> HIDE DEF p
  <2>2. p \in AllPools
    BY <2>1, SoundTypes, Zenon
  <2>3. /\ Sound(S2) /\ S2.fam = S1.fam /\ S2.pools = S.pools
    BY <1>4, <1>5, <1>6, Zenon DEF Touch
  <2>4. p \in S2.pools /\ ip \in S2.fam[f].pool[p].ips /\ S2.fam[f].nicToIP[n] \in {NoIP, ip}
    BY <1>4, <2>1, <2>2, <2>3, Zenon
  <2> QED
    BY <2>3, <2>4, allocateStaticAddressSound, Zenon
<1> HIDE DEF A
<1>7. ASSUME NEW T, Sound(T), Touch(S, T, {n}, PodOf[n]), MacWithIP(T, n), Asks(T, n, mac, m),
             R.s = pushPodNic(T, n)
      PROVE  /\ Sound(R.s) /\ Touch(S, R.s, {n}, PodOf[n]) /\ MacWithIP(R.s, n)
             /\ Listed(R.s, n) /\ Asks(R.s, n, mac, m)
             /\ R.s.nicToMac = T.nicToMac /\ R.s.gatewayMAC = T.gatewayMAC
  <2>1. /\ Sound(R.s) /\ Touch(T, R.s, {n}, PodOf[n]) /\ R.s.fam = T.fam
        /\ SameMacs(T, R.s) /\ Listed(R.s, n)
    BY <1>7, pushPodNicSound, Zenon
  <2>2. Touch(S, R.s, {n}, PodOf[n])
    BY <1>7, <2>1, TouchTwice, Zenon
  <2>3. MacWithIP(R.s, n) /\ Asks(R.s, n, mac, m)
    BY <1>7, <2>1, Zenon DEF MacWithIP, HasIP, Asks, Drawable, SameMacs
  <2>4. R.s.nicToMac = T.nicToMac /\ R.s.gatewayMAC = T.gatewayMAC
    BY <2>1, Zenon DEF SameMacs, Touch
  <2> QED
    BY <2>1, <2>2, <2>3, <2>4, Zenon
<1>8. CASE refusal # "" /\ R = Done(S, refusal)
  BY <1>3, <1>8, TouchNone, Zenon DEF R
<1>9. CASE refusal = "" /\ refused /\ R = Done(pushPodNic(S1, n), "ErrConflict")
  <2>1. R.s = pushPodNic(S1, n) /\ R.err = "ErrConflict"
    BY <1>2, <1>9, Zenon
  <2> QED
    BY <1>4, <1>7, <2>1, Zenon DEF R
<1>10. CASE refusal = "" /\ ~refused /\ R = Done(pushPodNic(A.s, n), A.err)
  <2>1. R.s = pushPodNic(A.s, n)
    BY <1>2, <1>10, Zenon
  <2>2. Touch(S, A.s, {n}, PodOf[n])
    BY <1>4, <1>5, <1>6, <1>10, TouchTwice, Zenon
  <2>3. A.s.nicToMac = S2.nicToMac /\ A.s.macToPod = S2.macToPod /\ A.s.gatewayMAC = S2.gatewayMAC
    BY <1>6, <1>10, Zenon DEF SameMacs, Touch
  <2>4. MacWithIP(A.s, n) /\ Asks(A.s, n, mac, m)
    BY <1>5, <1>10, <2>3, Zenon DEF MacWithIP, Asks, Drawable
  <2>5. /\ Sound(R.s) /\ Touch(S, R.s, {n}, PodOf[n]) /\ MacWithIP(R.s, n)
        /\ Listed(R.s, n) /\ Asks(R.s, n, mac, m)
        /\ R.s.nicToMac = A.s.nicToMac /\ R.s.gatewayMAC = A.s.gatewayMAC
    BY <1>6, <1>7, <1>10, <2>1, <2>2, <2>4, Zenon
  <2>6. /\ mac = Nil => R.s.nicToMac[n] # NoMac
        /\ mac \in Macs => R.s.nicToMac[n] = mac /\ mac # R.s.gatewayMAC
    BY <1>5, <1>10, <2>3, <2>5, Zenon
  <2> QED
    BY <2>5, <2>6, Zenon DEF R
<1> QED
  BY <1>1, <1>8, <1>9, <1>10, Zenon

\* ReleaseAddressByPod and ReleaseAddressByNic: the NICs keep nothing.
LEMMA ReleaseNicsSound ==
    ASSUME NEW S, Sound(S), NEW c \in Pods, NEW N \in SUBSET Nics,
           \A k \in N : PodOf[k] = c
    PROVE  LET T == ReleaseNics(S, c, N)
           IN  /\ Sound(T) /\ Touch(S, T, N, c)
               /\ \A k \in N : ~HasIP(T, k) /\ T.nicToMac[k] = NoMac
<1> DEFINE R4 == releaseFamAddr(S, "v4", c, N)
           R6 == releaseFamAddr(R4, "v6", c, N)
           bare == {n \in N : ~HasIP(R6, n)}
           D == DropMacs(R6, bare)
           T == popPodNics(D, c, N)
<1>1. /\ "v4" \in Families /\ "v6" \in Families /\ "v4" # "v6"
      /\ \A f \in Families : f = "v4" \/ f = "v6"
  BY DEF Families
<1>2. ReleaseNics(S, c, N) = T
  BY DEF ReleaseNics, releaseAddr
<1>3. /\ Sound(R4) /\ Touch(S, R4, N, c)
      /\ \A k \in N : R4.fam["v4"].nicToIP[k] = NoIP
  <2>1. Released(S, R4, "v4", c, N)
    BY <1>1, FamilyReleased, Zenon
  <2> QED
    BY <2>1, Zenon DEF Released
<1> HIDE DEF R4
<1>4. /\ Sound(R6) /\ Touch(R4, R6, N, c)
      /\ R6.fam["v4"] = R4.fam["v4"]
      /\ \A k \in N : R6.fam["v6"].nicToIP[k] = NoIP
  <2>1. Released(R4, R6, "v6", c, N)
    BY <1>1, <1>3, FamilyReleased, Zenon
  <2> QED
    BY <1>1, <2>1, Zenon DEF Released
<1> HIDE DEF R6
<1>5. bare = N
  BY <1>1, <1>3, <1>4 DEF HasIP
<1>6. /\ Sound(D) /\ D.fam = R6.fam /\ D.pools = R6.pools /\ D.protocol = R6.protocol
      /\ D.gatewayMAC = R6.gatewayMAC /\ D.podNics = R6.podNics
      /\ \A k \in Nics : D.nicToMac[k] = IF k \in N THEN NoMac ELSE R6.nicToMac[k]
      /\ \A m \in Macs :
           D.macToPod[m] = R6.macToPod[m] \/
           (D.macToPod[m] = NoPod /\ \E k \in N : R6.macToPod[m] = PodOf[k])
  <2>1. MacsDropped(R6, D, bare)
    BY <1>4, <1>5, DropMacsSound, Zenon
  <2> HIDE DEF bare, D
  <2> QED
    BY <1>5, <2>1, Zenon DEF MacsDropped
<1> HIDE DEF bare, D
<1>7. Touch(R6, D, N, c)
  <2>1. \A m \in Macs : Moved(R6.macToPod[m], D.macToPod[m], NoPod, c)
    BY <1>6, Zenon DEF Moved
  <2> QED
    BY <1>6, <2>1, Zenon DEF Touch, Moved
<1>8. Sound(T) /\ Touch(D, T, N, c) /\ T.fam = D.fam /\ SameMacs(D, T)
  BY <1>6, popPodNicsSound, Zenon
<1> HIDE DEF T
<1>9. Touch(S, T, N, c)
  <2>1. Touch(S, R6, N, c)
    BY <1>3, <1>4, TouchTwice, Zenon
  <2>2. Touch(S, D, N, c)
    BY <1>7, <2>1, TouchTwice, Zenon
  <2> QED
    BY <1>8, <2>2, TouchTwice, Zenon
<1>10. \A k \in N : ~HasIP(T, k) /\ T.nicToMac[k] = NoMac
  <2>1. T.fam["v4"] = R4.fam["v4"] /\ T.fam["v6"] = R6.fam["v6"] /\ T.nicToMac = D.nicToMac
    BY <1>4, <1>6, <1>8 DEF SameMacs
  <2>2. \A k \in N : T.fam["v4"].nicToIP[k] = NoIP /\ T.fam["v6"].nicToIP[k] = NoIP
    BY <1>3, <1>4, <2>1
  <2>3. \A k \in N : ~HasIP(T, k)
    BY <1>1, <2>2, Zenon DEF HasIP
  <2>4. \A k \in N : T.nicToMac[k] = NoMac
    BY <1>6, <2>1
  <2> QED
    BY <2>3, <2>4
<1> QED
  BY <1>2, <1>8, <1>9, <1>10, Zenon

\* GetStaticAddressWithFamily for one address, with the random address of the
\* other family that checkAndAppendIpsForDual adds.
LEMMA StaticOneSound ==
    ASSUME OwnMacs, KeptMacs, NEW S, Sound(S), NEW f \in Families, NEW n \in Nics, NEW ip,
           NEW mac \in MacRequests[n], NEW m, Asks(S, n, mac, m), MacWithIP(S, n), NEW want
    PROVE  LET T == StaticOne(S, f, n, ip, mac, want, TRUE, m).s
           IN  /\ Sound(T) /\ Touch(S, T, {n}, PodOf[n]) /\ MacWithIP(T, n)
               /\ GatewayApart /\ Listed(S, n) => Listed(T, n)
<1> DEFINE R == GetStaticFam(S, f, n, ip, mac, TRUE, m)
           macStr == IF mac = Nil THEN R.s.nicToMac[n] ELSE mac
           R2 == getRandomFam(R.s, Other(f), Default, n, macStr, {}, TRUE, m)
           T == StaticOne(S, f, n, ip, mac, want, TRUE, m).s
<1>1. /\ Sound(R.s) /\ Touch(S, R.s, {n}, PodOf[n]) /\ MacWithIP(R.s, n)
      /\ Listed(S, n) => Listed(R.s, n)
      /\ Asks(R.s, n, mac, m)
      /\ R.err = "" => /\ mac = Nil => R.s.nicToMac[n] # NoMac
                       /\ mac \in Macs => R.s.nicToMac[n] = mac /\ mac # R.s.gatewayMAC
  <2>1. Given(S, n, mac, m, R)
    BY GetStaticFamSound, Zenon
  <2> QED
    BY <2>1, Zenon DEF Given
<1>2. T = R.s \/ (R.err = "" /\ T = R2.s)
  <2> HIDE DEF R, R2
  <2> QED
    BY Zenon DEF StaticOne, Done, R, macStr, R2
<1> HIDE DEF R, T
<1>3. CASE T = R.s
  BY <1>1, <1>3, Zenon DEF T
<1>4. CASE R.err = "" /\ T = R2.s
  <2>1. R.s.nicToMac[n] \in Macs \cup {NoMac}
    BY <1>1, SoundTypes, Zenon
  <2>2. Asks(R.s, n, macStr, m)
    <3>1. CASE mac = Nil
      BY <1>1, <1>4, <2>1, <3>1, ConstantsAssumption, Zenon DEF Asks, MacArg
    <3>2. CASE mac # Nil
      BY <1>1, <3>2, Zenon
    <3> QED
      BY <3>1, <3>2, Zenon
  <2>3. Served(R.s, Other(f), n, macStr, m, R2.s, R2)
    <3>1. Default \in AllPools /\ Other(f) \in Families
      BY TwoFamilies DEF AllPools
    <3> HIDE DEF macStr
    <3> QED
      <4>1. Obtained(R.s, Other(f), Default, n, macStr, {}, m, R2)
        BY <1>1, <2>2, <3>1, getRandomFamSound, Zenon
      <4> QED
        BY <4>1, Zenon DEF Obtained
  <2>4. ASSUME GatewayApart
        PROVE  ~MacRefused(R.s, n, macStr, TRUE)
    <3> SUFFICES ASSUME macStr # NoMac
                 PROVE  ~MacConflict(R.s, n, macStr)
      BY Zenon DEF MacRefused
    <3>1. macStr = R.s.nicToMac[n] /\ (mac # Nil => macStr # R.s.gatewayMAC)
      BY <1>1, <1>4, Zenon DEF Asks, MacArg
    <3>2. R.s.macToPod[macStr] = PodOf[n] /\ macStr \in MacsOf(n)
      BY <1>1, <3>1, Zenon DEF Sound, NicMac
    <3>3. mac = Nil => macStr # R.s.gatewayMAC
      BY <1>1, <2>4, <3>2, Zenon DEF Sound, GatewayApart
    <3> QED
      BY <3>1, <3>2, <3>3, Zenon DEF MacConflict
  <2> HIDE DEF macStr, R2
  <2>5. Touch(S, R2.s, {n}, PodOf[n])
    BY <1>1, <2>3, TouchTwice, Zenon DEF Served
  <2> QED
    BY <1>1, <1>4, <2>3, <2>4, <2>5, Zenon DEF Served, T
<1> QED
  BY <1>2, <1>3, <1>4, Zenon

\* ... and for two addresses.
LEMMA StaticTwoSound ==
    ASSUME OwnMacs, NEW S, Sound(S), NEW n \in Nics, NEW ips,
           NEW mac \in MacRequests[n], NEW m, Asks(S, n, mac, m), MacWithIP(S, n)
    PROVE  LET T == StaticTwo(S, n, ips, mac, TRUE, m).s
           IN  /\ Sound(T) /\ Touch(S, T, {n}, PodOf[n]) /\ MacWithIP(T, n)
               /\ Listed(S, n) => Listed(T, n)
<1> DEFINE R4 == GetStaticFam(S, "v4", n, ips["v4"], mac, TRUE, m)
           R6 == GetStaticFam(R4.s, "v6", n, ips["v6"], mac, TRUE, m)
           rel == ReleaseNics(R6.s, PodOf[n], {n})
<1>1. "v4" \in Families /\ "v6" \in Families /\ PodOf[n] \in Pods
  BY SoundTypes, Zenon DEF Families
<1>2. /\ Sound(R4.s) /\ Touch(S, R4.s, {n}, PodOf[n]) /\ MacWithIP(R4.s, n)
      /\ Listed(S, n) => Listed(R4.s, n)
      /\ Asks(R4.s, n, mac, m)
  <2>1. Given(S, n, mac, m, R4)
    BY <1>1, GetStaticFamSound, Zenon
  <2> QED
    BY <2>1, Zenon DEF Given
<1> HIDE DEF R4
<1>3. /\ Sound(R6.s) /\ Touch(R4.s, R6.s, {n}, PodOf[n]) /\ MacWithIP(R6.s, n)
      /\ Listed(R4.s, n) => Listed(R6.s, n)
  <2>1. Given(R4.s, n, mac, m, R6)
    BY <1>1, <1>2, GetStaticFamSound, Zenon
  <2> QED
    BY <2>1, Zenon DEF Given
<1> HIDE DEF R6
<1>4. /\ Sound(rel) /\ Touch(R6.s, rel, {n}, PodOf[n])
      /\ ~HasIP(rel, n) /\ rel.nicToMac[n] = NoMac
  <2>1. {n} \in SUBSET Nics /\ \A k \in {n} : PodOf[k] = PodOf[n]
    OBVIOUS
  <2>2. /\ Sound(rel) /\ Touch(R6.s, rel, {n}, PodOf[n])
        /\ \A k \in {n} : ~HasIP(rel, k) /\ rel.nicToMac[k] = NoMac
    BY <1>1, <1>3, <2>1, ReleaseNicsSound, Zenon
  <2> QED
    BY <2>2, Zenon
<1> HIDE DEF rel
<1>5. Touch(S, R6.s, {n}, PodOf[n]) /\ Touch(S, rel, {n}, PodOf[n])
  BY <1>2, <1>3, <1>4, TouchTwice, Zenon
<1>6. StaticTwo(S, n, ips, mac, TRUE, m).s \in {R4.s, R6.s, rel}
  BY Zenon DEF StaticTwo, Done, R4, R6, rel
<1>7. MacWithIP(rel, n) /\ Listed(rel, n)
  BY <1>4, Zenon DEF MacWithIP, Listed
<1> QED
  BY <1>2, <1>3, <1>4, <1>5, <1>6, <1>7, Zenon

\* IPAM.GetStaticAddressWithFamily.
LEMMA GetStaticAddressSound ==
    ASSUME OwnMacs, KeptMacs, NEW S, Sound(S), NEW n \in Nics,
           NEW mac \in MacRequests[n], NEW m, Asks(S, n, mac, m), MacWithIP(S, n),
           NEW ips \in [Families -> Addr \cup {NoIP}], ips # Nothing, NEW want
    PROVE  LET T == GetStaticAddressWithFamily(S, n, ips, mac, want, TRUE, m).s
           IN  /\ Sound(T) /\ Touch(S, T, {n}, PodOf[n]) /\ MacWithIP(T, n)
               /\ GatewayApart /\ Listed(S, n) => Listed(T, n)
<1> DEFINE f == CHOOSE g \in {h \in Families : ips[h] # NoIP} : TRUE
           T == GetStaticAddressWithFamily(S, n, ips, mac, want, TRUE, m).s
           One == StaticOne(S, f, n, ips[f], mac, want, TRUE, m).s
           Two == StaticTwo(S, n, ips, mac, TRUE, m).s
<1>1. f \in Families
  <2>1. \E g \in Families : ips[g] # NoIP
    BY DEF Nothing
  <2> QED
    BY <2>1
<1>2. T \in {S, One, Two}
  BY Zenon DEF GetStaticAddressWithFamily, Done
<1> HIDE DEF f, T
<1>3. /\ Sound(One) /\ Touch(S, One, {n}, PodOf[n]) /\ MacWithIP(One, n)
      /\ GatewayApart /\ Listed(S, n) => Listed(One, n)
  BY <1>1, StaticOneSound, Zenon
<1>4. /\ Sound(Two) /\ Touch(S, Two, {n}, PodOf[n]) /\ MacWithIP(Two, n)
      /\ Listed(S, n) => Listed(Two, n)
  BY StaticTwoSound, Zenon
<1> HIDE DEF One, Two
<1>5. Touch(S, S, {n}, PodOf[n])
  BY TouchNone
<1> QED
  BY <1>2, <1>3, <1>4, <1>5, Zenon DEF T

-----------------------------------------------------------------------------
(* Reconfiguration only takes away.                                         *)

Revoked(S, T) ==
    /\ \A f \in Families, ip \in Addr : T.fam[f].ipToPod[ip] \in {S.fam[f].ipToPod[ip], {}}
    /\ \A m \in Macs : T.macToPod[m] \in {S.macToPod[m], NoPod}

\* NewSubnet and NewMacOnlySubnet.
LEMMA NewSubnetSound ==
    ASSUME NEW cfg \in [Families -> FamilyConfig],
           \A f \in Families : cfg[f].ips \subseteq cfg[f].cidr
    PROVE  LET T == NewSubnet(cfg)
           IN  /\ Sound(T)
               /\ \A k \in Nics : MacWithIP(T, k) /\ Listed(T, k)
               /\ \A f \in Families, ip \in Addr : T.fam[f].ipToPod[ip] = {}
               /\ \A m \in Macs : T.macToPod[m] = NoPod
<1> DEFINE T == NewSubnet(cfg)
<1>1. SubnetInv(T)
  BY NewSubnetInv
<1>2. /\ T.nicToMac = [n \in Nics |-> NoMac] /\ T.macToPod = [m \in Macs |-> NoPod]
      /\ T.podNics = [p \in Pods |-> {}] /\ T.gatewayMAC = NoMac
      /\ \A f \in Families : /\ T.fam[f].using = {}
                             /\ T.fam[f].nicToIP = [n \in Nics |-> NoIP]
                             /\ T.fam[f].ipToPod = [ip \in Addr |-> {}]
  BY Zenon DEF NewSubnet, NewFamily
<1> HIDE DEF T
<1>3. \A f \in Families : UsedFamily(T.fam[f])
  BY <1>2, Zenon DEF UsedFamily, OwnedFamily
<1>4. /\ \A k \in Nics : T.nicToMac[k] = NoMac /\ ~HasIP(T, k)
      /\ \A m \in Macs : T.macToPod[m] = NoPod
      /\ \A pod \in Pods : T.podNics[pod] = {}
      /\ T.gatewayMAC \in GatewayMacs \cup {NoMac}
  BY <1>2 DEF HasIP
<1>5. (\A k \in Nics : NicMac(T, k)) /\ DistinctMacs(T) /\ NoLostMac(T)
  BY <1>4 DEF NicMac, DistinctMacs, NoLostMac
<1>6. \A pod \in Pods : \A k \in T.podNics[pod] : PodOf[k] = pod
  BY <1>4
<1>7. Sound(T)
  BY <1>1, <1>3, <1>4, <1>5, <1>6, Zenon DEF Sound
<1>8. \A k \in Nics : MacWithIP(T, k) /\ Listed(T, k)
  BY <1>4 DEF MacWithIP, Listed
<1> QED
  BY <1>2, <1>7, <1>8, Zenon DEF T

\* The subnet before it is added and after DeleteSubnet.
LEMMA EmptySubnetSound ==
    LET T == NewSubnet([f \in Families |-> NoFamily])
    IN  /\ Sound(T)
        /\ \A k \in Nics : MacWithIP(T, k) /\ Listed(T, k)
        /\ \A f \in Families, ip \in Addr : T.fam[f].ipToPod[ip] = {}
        /\ \A m \in Macs : T.macToPod[m] = NoPod
<1> DEFINE none == [f \in Families |-> NoFamily]
<1>1. NoFamily \in FamilyConfig /\ NoFamily.ips \subseteq NoFamily.cidr
  BY DEF NoFamily, FamilyConfig
<1>2. /\ none \in [Families -> FamilyConfig]
      /\ \A f \in Families : none[f].ips \subseteq none[f].cidr
  BY <1>1
<1> HIDE DEF none
<1>3. LET T == NewSubnet(none)
      IN  /\ Sound(T)
          /\ \A k \in Nics : MacWithIP(T, k) /\ Listed(T, k)
          /\ \A f \in Families, ip \in Addr : T.fam[f].ipToPod[ip] = {}
          /\ \A m \in Macs : T.macToPod[m] = NoPod
  BY <1>2, NewSubnetSound, Zenon
<1> QED
  BY <1>3, Zenon DEF none

\* One family of AddOrUpdateSubnet: the addresses outside the new range are
\* dropped from all maps together.
LEMMA UpdateFamilyUsed ==
    ASSUME NEW F, FamilyInv(F), UsedFamily(F), NEW c
    PROVE  LET G == UpdateFamily(F, c)
           IN  /\ UsedFamily(G)
               /\ \A k \in Nics : G.nicToIP[k] \in {F.nicToIP[k], NoIP}
               /\ \A ip \in Addr : G.ipToPod[ip] \in {F.ipToPod[ip], {}}
<1> DEFINE dropped == {F.nicToIP[n] : n \in Nics} \ (c.ips \cup {NoIP})
           G == UpdateFamily(F, c)
<1>1. F \in Family
  BY DEF FamilyInv
<1>2. F.using \in SUBSET Addr /\ NoIP \notin Addr
  BY <1>1, ConstantsAssumption DEF Family
<1>3. /\ G.nicToIP = [n \in Nics |-> IF F.nicToIP[n] \in dropped THEN NoIP ELSE F.nicToIP[n]]
      /\ G.ipToPod = [ip \in Addr |-> IF ip \in dropped THEN {} ELSE F.ipToPod[ip]]
      /\ G.using = F.using \cap c.ips
  BY Zenon DEF UpdateFamily
<1> HIDE DEF G
<1>4. \A ip \in F.using : ip \in dropped <=> ip \notin c.ips
  BY <1>2, Zenon DEF UsedFamily
<1> HIDE DEF dropped
<1>5. OwnedFamily(G)
  <2>1. \A ip \in Addr : ip \in F.using <=> F.ipToPod[ip] # {}
    BY Zenon DEF UsedFamily, OwnedFamily
  <2>2. \A ip \in Addr : ip \in G.using <=> G.ipToPod[ip] # {}
    BY <1>3, <1>4, <2>1, Zenon
  <2>3. G.using \subseteq Addr
    BY <1>2, <1>3
  <2> QED
    BY <2>2, <2>3 DEF OwnedFamily
<1>6. ASSUME NEW ip \in G.using
      PROVE  \E k \in Nics : G.nicToIP[k] = ip
  <2>1. ip \in F.using /\ ip \notin dropped
    BY <1>3, <1>4
  <2>2. PICK k \in Nics : F.nicToIP[k] = ip
    BY <2>1 DEF UsedFamily
  <2>3. G.nicToIP[k] = ip
    BY <1>3, <2>1, <2>2
  <2> QED
    BY <2>3
<1>7. UsedFamily(G)
  BY <1>5, <1>6 DEF UsedFamily
<1> QED
  BY <1>3, <1>7, Zenon DEF G

\* AddOrUpdateSubnet on a subnet that exists: a NIC that loses its last address
\* loses its MAC too.
LEMMA UpdateSubnetSound ==
    ASSUME NEW S, Whole(S), NEW cfg \in [Families -> FamilyConfig],
           \A f \in Families : cfg[f].ips \subseteq cfg[f].cidr
    PROVE  LET T == UpdateSubnet(S, cfg)
           IN  Whole(T) /\ Revoked(S, T)
<1> DEFINE fam == [f \in Families |->
                     IF f \in ProtocolOf(cfg) /\ ~SameConfig(S.fam[f], cfg[f])
                     THEN UpdateFamily(S.fam[f], cfg[f])
                     ELSE S.fam[f]]
           R == [S EXCEPT !.protocol = ProtocolOf(cfg), !.fam = fam]
           N == {n \in Nics : ~HasIP(R, n)}
           T == DropMacs(R, N)
<1>1. Sound(S)
  BY DEF Whole
<1>2. T = UpdateSubnet(S, cfg)
  BY DEF UpdateSubnet
<1>3. ASSUME NEW f \in Families
      PROVE  /\ FamilyInv(fam[f]) /\ UsedFamily(fam[f])
             /\ \A p \in AllPools \ S.pools : fam[f].pool[p] = EmptyPool
             /\ \A k \in Nics : fam[f].nicToIP[k] \in {S.fam[f].nicToIP[k], NoIP}
             /\ \A ip \in Addr : fam[f].ipToPod[ip] \in {S.fam[f].ipToPod[ip], {}}
  <2> DEFINE F == S.fam[f]
             G == UpdateFamily(F, cfg[f])
  <2>1. /\ FamilyInv(F) /\ UsedFamily(F)
        /\ \A p \in AllPools \ S.pools : F.pool[p] = EmptyPool
        /\ AllPools \ S.pools \subseteq PoolNames
    BY <1>1, SoundTypes, Zenon DEF SubnetInv, AllPools
  <2>2. fam[f] \in {F, G}
    <3>1. fam[f] = IF f \in ProtocolOf(cfg) /\ ~SameConfig(F, cfg[f]) THEN G ELSE F
      OBVIOUS
    <3> HIDE DEF fam, F, G
    <3> QED
      BY <3>1
  <2> HIDE DEF F
  <2>3. /\ FamilyInv(G)
        /\ \A p \in AllPools \ S.pools : G.pool[p] = EmptyPool
    <3>1. cfg[f] \in FamilyConfig /\ cfg[f].ips \subseteq cfg[f].cidr
      BY Zenon
    <3>2. /\ FamilyInv(G)
          /\ \A p \in PoolNames : F.pool[p] = EmptyPool => G.pool[p] = EmptyPool
      BY <2>1, <3>1, UpdateFamilyInv, Zenon
    <3> HIDE DEF G
    <3> QED
      BY <2>1, <3>2
  <2>4. /\ UsedFamily(G)
        /\ \A k \in Nics : G.nicToIP[k] \in {F.nicToIP[k], NoIP}
        /\ \A ip \in Addr : G.ipToPod[ip] \in {F.ipToPod[ip], {}}
    BY <2>1, UpdateFamilyUsed, Zenon
  <2> HIDE DEF G, fam
  <2>5. CASE fam[f] = F
    BY <2>1, <2>5, Zenon DEF F
  <2>6. CASE fam[f] = G
    BY <2>3, <2>4, <2>6, Zenon DEF F
  <2> QED
    BY <2>2, <2>5, <2>6, Zenon
<1>4. fam \in [Families -> Family]
  <2>1. \A f \in Families : fam[f] \in Family
    BY <1>3, Zenon DEF FamilyInv
  <2> QED
    BY <2>1, Zenon
<1> HIDE DEF fam
<1>5. R \in SubnetType
  <2>1. S \in SubnetType
    BY <1>1, SoundTypes, Zenon
  <2>2. ProtocolOf(cfg) \in SUBSET Families
    BY ConfigFacts, Zenon
  <2> QED
    BY <1>4, <2>1, <2>2, Zenon DEF SubnetType
<1>6. /\ R.fam = fam /\ R.pools = S.pools /\ R.gatewayMAC = S.gatewayMAC
      /\ R.podNics = S.podNics /\ R.nicToMac = S.nicToMac /\ R.macToPod = S.macToPod
  BY <1>1, SoundTypes DEF SubnetType
<1> HIDE DEF R
<1>7. SubnetInv(R)
  <2>1. Default \in R.pools
    BY <1>1, <1>6, SoundTypes, Zenon DEF SubnetInv
  <2>2. \A f \in Families : /\ FamilyInv(R.fam[f])
                            /\ \A p \in AllPools \ R.pools : R.fam[f].pool[p] = EmptyPool
    BY <1>3, <1>6, Zenon
  <2> QED
    BY <1>5, <2>1, <2>2, Zenon DEF SubnetInv
<1>8. Sound(R)
  <2>1. /\ R.gatewayMAC \in GatewayMacs \cup {NoMac}
        /\ \A pod \in Pods : \A k \in R.podNics[pod] : PodOf[k] = pod
    BY <1>1, <1>6, Zenon DEF Sound
  <2>2. \A f \in Families : UsedFamily(R.fam[f])
    BY <1>3, <1>6, Zenon
  <2> QED
    BY <1>1, <1>6, <1>7, <2>1, <2>2, ReconfiguredSound, Zenon
<1>9. /\ Sound(T) /\ T.fam = R.fam /\ T.podNics = R.podNics
      /\ \A k \in Nics : T.nicToMac[k] = IF k \in N THEN NoMac ELSE R.nicToMac[k]
      /\ \A m \in Macs :
           T.macToPod[m] = R.macToPod[m] \/
           (T.macToPod[m] = NoPod /\ \E k \in N : R.macToPod[m] = PodOf[k])
  <2>1. MacsDropped(R, T, N)
    BY <1>8, DropMacsSound, Zenon
  <2> QED
    BY <2>1, Zenon DEF MacsDropped
<1>10. \A k \in Nics : k \in N <=> ~HasIP(R, k)
  OBVIOUS
<1> HIDE DEF T, N
<1>11. \A k \in Nics : /\ HasIP(T, k) <=> HasIP(R, k)
                       /\ HasIP(R, k) => HasIP(S, k)
  <2>1. \A f \in Families : \A k \in Nics :
           R.fam[f].nicToIP[k] \in {S.fam[f].nicToIP[k], NoIP}
    BY <1>3, <1>6, Zenon
  <2> QED
    BY <1>9, <2>1, Zenon DEF HasIP
<1>12. ASSUME NEW k \in Nics
       PROVE  MacWithIP(T, k) /\ (GatewayApart => Listed(T, k))
  <2>1. MacWithIP(S, k) /\ (GatewayApart => Listed(S, k))
    BY DEF Whole
  <2>2. T.nicToMac[k] = IF HasIP(T, k) THEN S.nicToMac[k] ELSE NoMac
    BY <1>6, <1>9, <1>10, <1>11, Zenon
  <2> QED
    BY <1>6, <1>9, <1>11, <2>1, <2>2, Zenon DEF MacWithIP, Listed
<1>13. Revoked(S, T)
  <2>1. \A f \in Families : \A ip \in Addr :
           T.fam[f].ipToPod[ip] \in {S.fam[f].ipToPod[ip], {}}
    BY <1>3, <1>6, <1>9, Zenon
  <2>2. \A m \in Macs : T.macToPod[m] \in {S.macToPod[m], NoPod}
    BY <1>6, <1>9
  <2> QED
    BY <2>1, <2>2, Zenon DEF Revoked
<1> QED
  BY <1>2, <1>9, <1>12, <1>13, Zenon DEF Whole

\* AddOrUpdateIPPool and RemoveIPPool leave the leases alone.
LEMMA PoolsChanged ==
    ASSUME NEW S, Whole(S), NEW T, SubnetInv(T),
           SameMacs(S, T), T.podNics = S.podNics, T.gatewayMAC = S.gatewayMAC,
           \A f \in Families : /\ T.fam[f].nicToIP = S.fam[f].nicToIP
                               /\ T.fam[f].ipToPod = S.fam[f].ipToPod
                               /\ T.fam[f].using = S.fam[f].using
    PROVE  Whole(T) /\ Revoked(S, T)
<1>1. Sound(S)
  BY Zenon DEF Whole
<1>2. ASSUME NEW f \in Families
      PROVE  UsedFamily(T.fam[f])
  <2>1. UsedFamily(S.fam[f])
    BY <1>1, Zenon DEF Sound
  <2> QED
    BY <2>1, Zenon DEF UsedFamily, OwnedFamily
<1>3. T.gatewayMAC \in GatewayMacs \cup {NoMac}
  BY <1>1, Zenon DEF Sound
<1>4. Sound(T)
  <2>1. \A pod \in Pods : \A k \in T.podNics[pod] : PodOf[k] = pod
    BY <1>1, Zenon DEF Sound
  <2>2. T.nicToMac = S.nicToMac /\ T.macToPod = S.macToPod
    BY DEF SameMacs
  <2> QED
    BY <1>1, <1>2, <1>3, <2>1, <2>2, ReconfiguredSound, Zenon
<1>5. \A k \in Nics : MacWithIP(T, k) /\ (GatewayApart => Listed(T, k))
  BY Zenon DEF Whole, MacWithIP, Listed, HasIP, SameMacs
<1> QED
  BY <1>4, <1>5, Zenon DEF Whole, Revoked, SameMacs

-----------------------------------------------------------------------------
(* The steps.                                                               *)

\* What a call owes to its own NICs N.
LeftWell(S, T, N) ==
    \A k \in Nics \cap N : /\ MacWithIP(T, k)
                           /\ GatewayApart /\ Listed(S, k) => Listed(T, k)

\* A call for NICs N of pod c that leaves N itself well.
LEMMA Called ==
    ASSUME NEW S, Whole(S), NEW T, NEW N, NEW c, Sound(T), Touch(S, T, N, c),
           LeftWell(S, T, N)
    PROVE  Whole(T)
<1> SUFFICES ASSUME NEW k \in Nics
             PROVE  MacWithIP(T, k) /\ (GatewayApart => Listed(T, k))
  BY DEF Whole
<1>1. MacWithIP(S, k) /\ (GatewayApart => Listed(S, k))
  BY DEF Whole
<1> QED
  BY <1>1, OthersKept DEF LeftWell

\* The MAC that a request draws is nobody's.
LEMMA DrawnAsks ==
    ASSUME NEW n \in Nics, NEW mac \in MacRequests[n], NEW m \in Draws(mac)
    PROVE  Asks(s, n, mac, m)
BY ConstantsAssumption DEF Draws, FreshMacs, Asks, MacArg, Drawable

\* What a step does to the owners of addresses and MACs.
OwnersStep == Revoked(s, s') \/ \E c \in Pods : \E N : Touch(s, s', N, c)

LEMMA LeaseStep ==
    ASSUME CheckConflicts \subseteq {TRUE}, OwnMacs, KeptMacs, LeaseInvariant, [Next]_vars
    PROVE  LeaseInvariant' /\ OwnersStep
<1>1. present \in BOOLEAN /\ Whole(s) /\ Sound(s)
  BY DEF LeaseInvariant, Whole
<1>2. ASSUME present' \in BOOLEAN, Whole(s'), OwnersStep
      PROVE  LeaseInvariant' /\ OwnersStep
  BY <1>2 DEF LeaseInvariant
<1>3. ASSUME NEW n \in Nics
      PROVE  /\ MacWithIP(s, n) /\ PodOf[n] \in Pods
             /\ MacRequests[n] \subseteq Macs \cup {NoMac, Nil}
  BY <1>1, ConstantsAssumption DEF Whole
<1>4. ASSUME NEW n \in Nics, NEW want \in Wants, NEW check \in CheckConflicts,
             NEW mac \in MacRequests[n], NEW p \in AllPools, NEW skip \in SkipSets,
             GetRandomAddress(n, p, mac, want, skip, check)
      PROVE  LeaseInvariant' /\ OwnersStep
  <2>1. skip \in [Families -> SUBSET Addr] /\ check = TRUE
    BY ConstantsAssumption, Zenon
  <2>2. PICK m \in Draws(mac) :
           s' = GetRandomAddressWithFamily(s, p, n, mac, want, skip, check, m).s
    BY <1>4, Zenon DEF GetRandomAddress
  <2>3. /\ Sound(s') /\ Touch(s, s', {n}, PodOf[n]) /\ MacWithIP(s', n) /\ Listed(s', n)
    <3>1. Asks(s, n, mac, m) /\ MacWithIP(s, n)
      BY <1>3, DrawnAsks
    <3> DEFINE R == GetRandomAddressWithFamily(s, p, n, mac, want, skip, TRUE, m)
    <3>2. /\ Sound(R.s) /\ Touch(s, R.s, {n}, PodOf[n])
          /\ MacWithIP(R.s, n) /\ Listed(R.s, n)
      BY <1>1, <2>1, <3>1, GetRandomAddressSound, Zenon
    <3>3. s' = R.s
      BY <2>1, <2>2, Zenon
    <3> HIDE DEF R
    <3> QED
      BY <3>2, <3>3, Zenon
  <2>4. Whole(s')
    <3>1. LeftWell(s, s', {n})
      <4> SUFFICES ASSUME NEW k \in Nics \cap {n}
                   PROVE  /\ MacWithIP(s', k)
                          /\ GatewayApart /\ Listed(s, k) => Listed(s', k)
        BY DEF LeftWell
      <4>1. k = n
        OBVIOUS
      <4> QED
        BY <2>3, <4>1, Zenon
    <3> QED
      BY <1>1, <2>3, <3>1, Called, Zenon
  <2>5. OwnersStep
    BY <1>3, <2>3, Zenon DEF OwnersStep
  <2> QED
    BY <1>1, <1>2, <1>4, <2>4, <2>5, Zenon DEF GetRandomAddress
<1>5. ASSUME NEW n \in Nics, NEW want \in Wants, NEW check \in CheckConflicts,
             NEW mac \in MacRequests[n], NEW ips \in StaticRequests,
             GetStaticAddress(n, ips, mac, want, check)
      PROVE  LeaseInvariant' /\ OwnersStep
  <2>1. ips \in [Families -> Addr \cup {NoIP}] /\ ips # Nothing /\ check = TRUE
    BY ConstantsAssumption, Zenon
  <2>2. PICK m \in Draws(mac) :
           s' = GetStaticAddressWithFamily(s, n, ips, mac, want, check, m).s
    BY <1>5 DEF GetStaticAddress
  <2>3. /\ Sound(s') /\ Touch(s, s', {n}, PodOf[n]) /\ MacWithIP(s', n)
        /\ GatewayApart /\ Listed(s, n) => Listed(s', n)
    <3>1. Asks(s, n, mac, m) /\ MacWithIP(s, n)
      BY <1>3, DrawnAsks
    <3> DEFINE T == GetStaticAddressWithFamily(s, n, ips, mac, want, TRUE, m).s
    <3>2. /\ Sound(T) /\ Touch(s, T, {n}, PodOf[n]) /\ MacWithIP(T, n)
          /\ GatewayApart /\ Listed(s, n) => Listed(T, n)
      BY <1>1, <2>1, <3>1, GetStaticAddressSound, Zenon
    <3>3. s' = T
      BY <2>1, <2>2, Zenon
    <3> HIDE DEF T
    <3> QED
      BY <3>2, <3>3, Zenon
  <2>4. Whole(s')
    <3>1. LeftWell(s, s', {n})
      <4> SUFFICES ASSUME NEW k \in Nics \cap {n}
                   PROVE  /\ MacWithIP(s', k)
                          /\ GatewayApart /\ Listed(s, k) => Listed(s', k)
        BY DEF LeftWell
      <4>1. k = n
        OBVIOUS
      <4> QED
        BY <2>3, <4>1, Zenon
    <3> QED
      BY <1>1, <2>3, <3>1, Called, Zenon
  <2>5. OwnersStep
    BY <1>3, <2>3, Zenon DEF OwnersStep
  <2> QED
    BY <1>1, <1>2, <1>5, <2>4, <2>5, Zenon DEF GetStaticAddress
<1>6. ASSUME NEW c \in Pods, NEW N \in SUBSET Nics, \A k \in N : PodOf[k] = c,
             s' = ReleaseNics(s, c, N), present' = present
      PROVE  LeaseInvariant' /\ OwnersStep
  <2>1. /\ Sound(s') /\ Touch(s, s', N, c)
        /\ \A k \in N : ~HasIP(s', k) /\ s'.nicToMac[k] = NoMac
    <3> DEFINE T == ReleaseNics(s, c, N)
    <3>1. /\ Sound(T) /\ Touch(s, T, N, c)
          /\ \A k \in N : ~HasIP(T, k) /\ T.nicToMac[k] = NoMac
      BY <1>1, <1>6, ReleaseNicsSound, Zenon
    <3>2. s' = T
      BY <1>6
    <3> HIDE DEF T
    <3> QED
      BY <3>1, <3>2, Zenon
  <2>2. \A k \in N : MacWithIP(s', k) /\ Listed(s', k)
    BY <2>1 DEF MacWithIP, Listed
  <2>3. Whole(s')
    <3>1. LeftWell(s, s', N)
      BY <2>2, Zenon DEF LeftWell
    <3> QED
      BY <1>1, <2>1, <3>1, Called, Zenon
  <2>4. OwnersStep
    BY <2>1 DEF OwnersStep
  <2> QED
    BY <1>1, <1>2, <1>6, <2>3, <2>4
<1>7. ASSUME NEW pod \in Pods, ReleaseAddressByPod(pod)
      PROVE  LeaseInvariant' /\ OwnersStep
  <2>1. s.podNics[pod] \in SUBSET Nics /\ \A k \in s.podNics[pod] : PodOf[k] = pod
    <3>1. s.podNics \in [Pods -> SUBSET Nics]
      BY <1>1, SoundTypes, Zenon
    <3>2. \A k \in s.podNics[pod] : PodOf[k] = pod
      BY <1>1, Zenon DEF Sound
    <3> QED
      BY <3>1, <3>2
  <2> QED
    BY <1>6, <1>7, <2>1 DEF ReleaseAddressByPod
<1>8. ASSUME NEW n \in Nics, ReleaseAddressByNic(n)
      PROVE  LeaseInvariant' /\ OwnersStep
  <2>1. {n} \in SUBSET Nics /\ \A k \in {n} : PodOf[k] = PodOf[n]
    OBVIOUS
  <2> QED
    BY <1>3, <1>6, <1>8, <2>1 DEF ReleaseAddressByNic
<1>9. ASSUME Whole(s'), Revoked(s, s'), present' \in BOOLEAN
      PROVE  LeaseInvariant' /\ OwnersStep
  BY <1>2, <1>9 DEF OwnersStep
<1>10. Revoked(s, s)
  BY DEF Revoked
<1>11. ASSUME NEW T, Sound(T), \A k \in Nics : MacWithIP(T, k) /\ Listed(T, k),
              \A f \in Families, ip \in Addr : T.fam[f].ipToPod[ip] = {},
              \A m \in Macs : T.macToPod[m] = NoPod
       PROVE  Whole(T) /\ Revoked(s, T)
  BY <1>11, Zenon DEF Whole, Revoked
<1>12. ASSUME NEW cfg \in SubnetConfigs, AddOrUpdateSubnet(cfg)
       PROVE  LeaseInvariant' /\ OwnersStep
  <2>1. /\ cfg \in [Families -> FamilyConfig]
        /\ \A f \in Families : cfg[f].ips \subseteq cfg[f].cidr
    BY ConfigsAssumption
  <2>2. Whole(NewSubnet(cfg)) /\ Revoked(s, NewSubnet(cfg))
    <3> DEFINE T == NewSubnet(cfg)
    <3>1. /\ Sound(T)
          /\ \A k \in Nics : MacWithIP(T, k) /\ Listed(T, k)
          /\ \A f \in Families, ip \in Addr : T.fam[f].ipToPod[ip] = {}
          /\ \A m \in Macs : T.macToPod[m] = NoPod
      BY <2>1, NewSubnetSound, Zenon
    <3> HIDE DEF T
    <3>2. Whole(T) /\ Revoked(s, T)
      BY <1>11, <3>1, Zenon
    <3> QED
      BY <3>2 DEF T
  <2>3. Whole(UpdateSubnet(s, cfg)) /\ Revoked(s, UpdateSubnet(s, cfg))
    BY <1>1, <2>1, UpdateSubnetSound, Zenon
  <2>4. present' \in BOOLEAN /\ s' \in {NewSubnet(cfg), UpdateSubnet(s, cfg), s}
    BY <1>1, <1>12, Zenon DEF AddOrUpdateSubnet
  <2> QED
    BY <1>1, <1>9, <1>10, <2>2, <2>3, <2>4
<1>13. ASSUME DeleteSubnet
       PROVE  LeaseInvariant' /\ OwnersStep
  <2> DEFINE T == NewSubnet([f \in Families |-> NoFamily])
  <2>1. s' = T /\ present' \in BOOLEAN
    BY <1>13, Zenon DEF DeleteSubnet
  <2>2. /\ Sound(T)
        /\ \A k \in Nics : MacWithIP(T, k) /\ Listed(T, k)
        /\ \A f \in Families, ip \in Addr : T.fam[f].ipToPod[ip] = {}
        /\ \A m \in Macs : T.macToPod[m] = NoPod
    BY EmptySubnetSound, Zenon
  <2> HIDE DEF T
  <2>3. Whole(T) /\ Revoked(s, T)
    BY <1>11, <2>2, Zenon
  <2> QED
    BY <1>9, <2>1, <2>3
<1>14. ASSUME NEW T, SubnetInv(T), NEW pools, NEW fam,
              T = [s EXCEPT !.pools = pools, !.fam = fam],
              \A f \in Families : /\ fam[f].nicToIP = s.fam[f].nicToIP
                                  /\ fam[f].ipToPod = s.fam[f].ipToPod
                                  /\ fam[f].using = s.fam[f].using
       PROVE  Whole(T) /\ Revoked(s, T)
  <2>1. /\ T.fam = fam /\ T.nicToMac = s.nicToMac /\ T.macToPod = s.macToPod
        /\ T.podNics = s.podNics /\ T.gatewayMAC = s.gatewayMAC
    BY <1>1, <1>14, SoundTypes DEF SubnetType
  <2>2. SameMacs(s, T)
    BY <2>1 DEF SameMacs
  <2> QED
    BY <1>1, <1>14, <2>1, <2>2, PoolsChanged, Zenon
<1>15. ASSUME NEW name \in PoolNames, RemoveIPPool(name)
       PROVE  LeaseInvariant' /\ OwnersStep
  <2> DEFINE T == SubnetRemovePool(s, name)
             fam == [f \in Families |-> FamilyRemovePool(s.fam[f], name)]
             pools == s.pools \ {name}
  <2>1. s' = T /\ present' \in BOOLEAN
    BY <1>1, <1>15 DEF RemoveIPPool
  <2>2. SubnetInv(T) /\ T = [s EXCEPT !.pools = pools, !.fam = fam]
    BY <1>1, SoundTypes, SubnetRemovePoolInv, Zenon DEF SubnetRemovePool
  <2>3. \A f \in Families : /\ fam[f].nicToIP = s.fam[f].nicToIP
                            /\ fam[f].ipToPod = s.fam[f].ipToPod
                            /\ fam[f].using = s.fam[f].using
    BY <1>1, SoundTypes DEF FamilyRemovePool, Family
  <2> HIDE DEF T, fam, pools
  <2>4. Whole(T) /\ Revoked(s, T)
    BY <1>14, <2>2, <2>3, Zenon
  <2> QED
    BY <1>9, <2>1, <2>4
<1>16. ASSUME NEW name \in PoolNames, NEW ips \in PoolConfigs, AddOrUpdateIPPool(name, ips)
       PROVE  LeaseInvariant' /\ OwnersStep
  <2> DEFINE T == SubnetAddPool(s, name, ips)
             fam == [f \in Families |-> FamilyAddPool(s.fam[f], name, ips[f])]
             pools == s.pools \cup {name}
  <2>1. present' \in BOOLEAN /\ (s' = s \/ (~PoolConflict(s, name, ips) /\ s' = T))
    BY <1>1, <1>16 DEF AddOrUpdateIPPool
  <2>2. ~PoolConflict(s, name, ips) => SubnetInv(T)
    BY <1>1, SoundTypes, SubnetAddPoolInv, ConstantsAssumption, Zenon
  <2>3. T = [s EXCEPT !.pools = pools, !.fam = fam]
    BY DEF SubnetAddPool
  <2>4. \A f \in Families : /\ fam[f].nicToIP = s.fam[f].nicToIP
                            /\ fam[f].ipToPod = s.fam[f].ipToPod
                            /\ fam[f].using = s.fam[f].using
    BY <1>1, SoundTypes DEF FamilyAddPool, Family
  <2> HIDE DEF T, fam, pools
  <2>5. ~PoolConflict(s, name, ips) => Whole(T) /\ Revoked(s, T)
    BY <1>14, <2>2, <2>3, <2>4, Zenon
  <2> QED
    BY <1>1, <1>9, <1>10, <2>1, <2>5
<1>17. ASSUME NEW mac \in GatewayMacs, RecordGatewayMAC(mac)
       PROVE  LeaseInvariant' /\ OwnersStep
  <2> DEFINE T == [s EXCEPT !.gatewayMAC = mac]
  <2>1. s' = T /\ present' \in BOOLEAN
    BY <1>1, <1>17 DEF RecordGatewayMAC
  <2>2. T \in SubnetType
    <3>1. s \in SubnetType /\ mac \in Macs
      BY <1>1, SoundTypes, ConstantsAssumption, Zenon
    <3> QED
      BY <3>1, Zenon DEF SubnetType
  <2>3. /\ T.fam = s.fam /\ T.pools = s.pools /\ T.gatewayMAC = mac
        /\ T.nicToMac = s.nicToMac /\ T.macToPod = s.macToPod /\ T.podNics = s.podNics
    BY <1>1, SoundTypes DEF SubnetType
  <2> HIDE DEF T
  <2>4. SubnetInv(T)
    BY <1>1, <2>2, <2>3, SoundTypes, SameFamilies, Zenon
  <2>5. /\ \A f \in Families : UsedFamily(T.fam[f])
        /\ \A pod \in Pods : \A k \in T.podNics[pod] : PodOf[k] = pod
    BY <1>1, <2>3, Zenon DEF Sound
  <2>6. Sound(T)
    <3>1. T.gatewayMAC \in GatewayMacs \cup {NoMac}
      BY <2>3
    <3> QED
      BY <1>1, <2>3, <2>4, <2>5, <3>1, ReconfiguredSound, Zenon
  <2>7. \A k \in Nics : MacWithIP(T, k) /\ (GatewayApart => Listed(T, k))
    BY <1>1, <2>3, Zenon DEF Whole, MacWithIP, Listed, HasIP
  <2>8. Whole(T) /\ Revoked(s, T)
    BY <2>3, <2>6, <2>7 DEF Whole, Revoked
  <2> QED
    BY <1>9, <2>1, <2>8
<1>18. ASSUME UNCHANGED vars
       PROVE  LeaseInvariant' /\ OwnersStep
  <2>1. s' = s /\ present' = present
    BY <1>18 DEF vars
  <2> QED
    BY <1>1, <1>9, <1>10, <2>1
<1> QED
  BY <1>4, <1>5, <1>7, <1>8, <1>12, <1>13, <1>15, <1>16, <1>17, <1>18, Zenon DEF Next

-----------------------------------------------------------------------------
(* The theorems.                                                            *)

\* The stronger invariant holds in every state, if every caller asks for the
\* conflict check and the requests keep the NICs' MACs apart.
THEOREM LeaseInvariance ==
    ASSUME CheckConflicts \subseteq {TRUE}, OwnMacs, KeptMacs
    PROVE  Spec => []LeaseInvariant
<1>1. Init => LeaseInvariant
  <2> DEFINE T == NewSubnet([f \in Families |-> NoFamily])
  <2>1. Sound(T) /\ \A k \in Nics : MacWithIP(T, k) /\ Listed(T, k)
    BY EmptySubnetSound, Zenon
  <2>2. Init => s = T /\ present = FALSE
    BY DEF Init
  <2> HIDE DEF T
  <2> QED
    BY <2>1, <2>2, Zenon DEF LeaseInvariant, Whole
<1>2. LeaseInvariant /\ [Next]_vars => LeaseInvariant'
  BY LeaseStep, Zenon
<1> QED
  BY <1>1, <1>2, PTL DEF Spec

\* What the used list is, given the NIC map.
LEMMA UsingIsHeld ==
    ASSUME NEW F, FamilyInv(F), UsedFamily(F)
    PROVE  F.using = {F.nicToIP[n] : n \in Nics} \ {NoIP}
<1>1. F \in Family /\ ExclusiveFamily(F)
  BY DEF FamilyInv
<1>2. /\ F.nicToIP \in [Nics -> Addr \cup {NoIP}] /\ F.using \in SUBSET Addr
      /\ NoIP \notin Addr
  BY <1>1, ConstantsAssumption DEF Family
<1>3. ASSUME NEW n \in Nics, F.nicToIP[n] # NoIP
      PROVE  F.nicToIP[n] \in F.using
  <2>1. F.nicToIP[n] \in Addr /\ F.ipToPod[F.nicToIP[n]] # {}
    BY <1>1, <1>2, <1>3 DEF ExclusiveFamily
  <2> QED
    BY <2>1, Zenon DEF UsedFamily, OwnedFamily
<1>4. \A ip \in F.using : ip # NoIP /\ \E n \in Nics : F.nicToIP[n] = ip
  BY <1>2 DEF UsedFamily
<1> QED
  BY <1>3, <1>4

\* No sequence of calls makes an address count as used that no NIC has, or lets
\* a NIC have one that is not counted: static and random allocation, and their
\* undoing, update V4Using, V4NicToIP and V4IPToPod together.
THEOREM NothingLeaked ==
    ASSUME CheckConflicts \subseteq {TRUE}, OwnMacs, KeptMacs
    PROVE  Spec => []NoLeakedAddress
<1>1. LeaseInvariant => NoLeakedAddress
  <2> SUFFICES ASSUME LeaseInvariant, NEW f \in Families
               PROVE  /\ OwnedFamily(s.fam[f])
                      /\ s.fam[f].using = {s.fam[f].nicToIP[n] : n \in Nics} \ {NoIP}
    BY DEF NoLeakedAddress
  <2>1. FamilyInv(s.fam[f]) /\ UsedFamily(s.fam[f])
    BY SoundTypes, Zenon DEF LeaseInvariant, Whole
  <2> QED
    BY <2>1, UsingIsHeld, Zenon DEF UsedFamily
<1> QED
  BY <1>1, LeaseInvariance, PTL

\* The MAC of a NIC is recorded as its pod's in MacToPod, whatever is drawn,
\* named, refused and released: so no other pod can name it.
THEOREM MacsAlwaysExclusive ==
    ASSUME CheckConflicts \subseteq {TRUE}, OwnMacs, KeptMacs
    PROVE  Spec => []MacsExclusive
<1>1. LeaseInvariant => MacsExclusive
  BY Zenon DEF LeaseInvariant, Whole, Sound, NicMac, MacsExclusive
<1> QED
  BY <1>1, LeaseInvariance, PTL

\* A MAC recorded in MacToPod is that of a NIC, if a NIC always asks for the same
\* one: every release that drops the NIC's MAC drops the record too.
THEOREM NoMacLeaked ==
    ASSUME CheckConflicts \subseteq {TRUE}, OwnMacs, KeptMacs, SteadyMacs
    PROVE  Spec => []NoLeakedMac
<1>1. LeaseInvariant => NoLeakedMac
  <2> SUFFICES ASSUME LeaseInvariant, NEW m \in Macs, s.macToPod[m] # NoPod
               PROVE  \E n \in Nics : PodOf[n] = s.macToPod[m] /\ s.nicToMac[n] = m
    BY Zenon DEF NoLeakedMac
  <2>1. Sound(s)
    BY DEF LeaseInvariant, Whole
  <2>2. PICK n \in Nics : s.nicToMac[n] = m
    BY <2>1 DEF Sound, NoLostMac
  <2>3. s.nicToMac[n] # NoMac
    BY <2>2, ConstantsAssumption
  <2> QED
    BY <2>1, <2>2, <2>3, Zenon DEF Sound, NicMac
<1> QED
  BY <1>1, LeaseInvariance, PTL

\* ReleaseAddressByPod finds in PodToNicList every NIC with an address or a MAC,
\* if no router port has a MAC that a NIC may be given.
THEOREM ReleaseFindsAll ==
    ASSUME CheckConflicts \subseteq {TRUE}, OwnMacs, KeptMacs, GatewayApart
    PROVE  Spec => []ReleasedPodHasNothing
<1>1. LeaseInvariant => ReleasedPodHasNothing
  <2> SUFFICES ASSUME LeaseInvariant, NEW pod \in Pods, NEW n \in Nics, PodOf[n] = pod
               PROVE  LET R == ReleaseNics(s, pod, s.podNics[pod])
                      IN  ~HasIP(R, n) /\ R.nicToMac[n] = NoMac
    BY Zenon DEF ReleasedPodHasNothing
  <2> DEFINE N == s.podNics[pod]
             R == ReleaseNics(s, pod, N)
  <2>1. Sound(s) /\ Listed(s, n)
    BY DEF LeaseInvariant, Whole
  <2>2. N \in SUBSET Nics /\ \A k \in N : PodOf[k] = pod
    <3>1. s.podNics \in [Pods -> SUBSET Nics]
      BY <2>1, SoundTypes, Zenon
    <3>2. \A k \in N : PodOf[k] = pod
      BY <2>1, Zenon DEF Sound
    <3> QED
      BY <3>1, <3>2
  <2>3. n \notin N => ~HasIP(s, n) /\ s.nicToMac[n] = NoMac
    BY <2>1 DEF Listed
  <2> HIDE DEF N
  <2>4. /\ Touch(s, R, N, pod)
        /\ \A k \in N : ~HasIP(R, k) /\ R.nicToMac[k] = NoMac
    BY <2>1, <2>2, ReleaseNicsSound, Zenon
  <2> HIDE DEF R
  <2>5. n \notin N => ~HasIP(R, n) /\ R.nicToMac[n] = NoMac
    BY <2>3, <2>4, Zenon DEF Touch, HasIP
  <2> QED
    BY <2>4, <2>5, Zenon DEF R, N
<1> QED
  BY <1>1, LeaseInvariance, PTL

\* A random allocation that fails leaves everybody's addresses as they were,
\* the caller's included: getDualRandomAddress undoes a new IPv4 address, and
\* only a new one, when it gets no IPv6 address, and a refused MAC undoes the
\* address just taken.
THEOREM FailureKeepsLeases ==
    ASSUME CheckConflicts \subseteq {TRUE}, OwnMacs, KeptMacs
    PROVE  Spec => []FailedRandomKeepsLeases
<1>1. LeaseInvariant => FailedRandomKeepsLeases
  <2> SUFFICES ASSUME LeaseInvariant, NEW n \in Nics, NEW p \in AllPools, NEW want \in Wants,
                      NEW check \in CheckConflicts, NEW mac \in MacRequests[n],
                      NEW m \in Draws(mac),
                      GetRandomAddressWithFamily(s, p, n, mac, want, NoSkip, check, m).err # "",
                      NEW f \in Families
               PROVE  LET T == GetRandomAddressWithFamily(s, p, n, mac, want, NoSkip, check, m).s
                      IN  /\ T.fam[f].nicToIP = s.fam[f].nicToIP
                          /\ T.fam[f].using = s.fam[f].using
    BY Zenon DEF FailedRandomKeepsLeases
  <2> DEFINE R == GetRandomAddressWithFamily(s, p, n, mac, want, NoSkip, check, m)
  <2>1. Sound(s) /\ MacWithIP(s, n) /\ Asks(s, n, mac, m) /\ check = TRUE
    BY DrawnAsks, Zenon DEF LeaseInvariant, Whole
  <2>2. NoSkip \in [Families -> SUBSET Addr]
    BY Zenon DEF NoSkip
  <2>3. Sound(R.s) /\ Touch(s, R.s, {n}, PodOf[n]) /\ KeepsOnError(s, n, R)
    BY <2>1, <2>2, GetRandomAddressSound, Zenon
  <2> HIDE DEF R
  <2>4. \A k \in Nics : R.s.fam[f].nicToIP[k] = s.fam[f].nicToIP[k]
    BY <2>3, Zenon DEF R, Touch, KeepsOnError
  <2>5. /\ R.s.fam[f].nicToIP \in [Nics -> Addr \cup {NoIP}]
        /\ s.fam[f].nicToIP \in [Nics -> Addr \cup {NoIP}]
        /\ FamilyInv(s.fam[f]) /\ UsedFamily(s.fam[f])
        /\ FamilyInv(R.s.fam[f]) /\ UsedFamily(R.s.fam[f])
    BY <2>1, <2>3, SoundTypes, Zenon
  <2>6. R.s.fam[f].nicToIP = s.fam[f].nicToIP
    <3> DEFINE x == R.s.fam[f].nicToIP
               y == s.fam[f].nicToIP
    <3>1. x \in [Nics -> Addr \cup {NoIP}] /\ y \in [Nics -> Addr \cup {NoIP}]
      BY <2>5, Zenon
    <3>2. \A k \in Nics : x[k] = y[k]
      BY <2>4, Zenon
    <3> HIDE DEF x, y
    <3>3. x = [k \in Nics |-> x[k]] /\ y = [k \in Nics |-> y[k]]
      BY <3>1, Zenon
    <3>4. x = y
      BY <3>2, <3>3, Zenon
    <3> QED
      BY <3>4, Zenon DEF x, y
  <2>7. R.s.fam[f].using = s.fam[f].using
    <3>1. /\ R.s.fam[f].using = {R.s.fam[f].nicToIP[k] : k \in Nics} \ {NoIP}
          /\ s.fam[f].using = {s.fam[f].nicToIP[k] : k \in Nics} \ {NoIP}
      BY <2>5, UsingIsHeld, Zenon
    <3> QED
      BY <2>6, <3>1, Zenon
  <2> QED
    BY <2>6, <2>7, Zenon DEF R
<1> QED
  BY <1>1, LeaseInvariance, PTL

\* A pod that names no MAC gets an address of each family as long as the pool has
\* one: refilling the Free list from the released addresses misses none.
THEOREM RandomAlwaysServes ==
    ASSUME CheckConflicts \subseteq {TRUE}, OwnMacs, KeptMacs
    PROVE  Spec => []RandomServesAvailable
<1>1. LeaseInvariant => RandomServesAvailable
  <2> SUFFICES ASSUME LeaseInvariant, NEW n \in {k \in Nics : Nil \in MacRequests[k]},
                      NEW p \in s.pools, NEW m \in Draws(Nil),
                      \A f \in s.protocol :
                         s.fam[f].nicToIP[n] # NoIP \/ s.fam[f].pool[p].available # {}
               PROVE  LET R == GetRandomAddressWithFamily(s, p, n, Nil, Families, NoSkip, TRUE, m)
                      IN  /\ R.err = ""
                          /\ \A f \in s.protocol :
                               /\ R.ip[f] = R.s.fam[f].nicToIP[n]
                               /\ IF s.fam[f].nicToIP[n] # NoIP
                                  THEN R.ip[f] = s.fam[f].nicToIP[n]
                                  ELSE R.ip[f] \in s.fam[f].pool[p].available
    BY Zenon DEF RandomServesAvailable
  <2> DEFINE R == GetRandomAddressWithFamily(s, p, n, Nil, Families, NoSkip, TRUE, m)
  <2>1. Available(s, s.protocol, p, n) /\ Nil \in MacRequests[n] /\ n \in Nics
    BY DEF Available
  <2>2. Sound(s) /\ MacWithIP(s, n) /\ Asks(s, n, Nil, m)
    BY <2>1, DrawnAsks, Zenon DEF LeaseInvariant, Whole
  <2>3. NoSkip \in [Families -> SUBSET Addr] /\ Families \in Wants /\ p \in AllPools
    BY <2>2, SoundTypes, Zenon DEF NoSkip, Wants
  <2>4. Serves(s, s.protocol, p, n, R)
    BY <2>1, <2>2, <2>3, GetRandomAddressSound, Zenon
  <2> HIDE DEF R
  <2>5. /\ R.err = ""
        /\ \A f \in s.protocol :
             /\ R.ip[f] = R.s.fam[f].nicToIP[n]
             /\ IF s.fam[f].nicToIP[n] # NoIP
                THEN R.ip[f] = s.fam[f].nicToIP[n]
                ELSE R.ip[f] \in s.fam[f].pool[p].available
    BY <2>4, Zenon DEF Serves
  <2> QED
    BY <2>5, Zenon DEF R
<1> QED
  BY <1>1, LeaseInvariance, PTL

-----------------------------------------------------------------------------
(* AddressLease.                                                            *)

\* The holder that Subnet!Holder computes.
HolderOf(S, a) ==
    IF a[1] = "mac"
    THEN S.macToPod[a[2]]
    ELSE IF S.fam[a[1]].ipToPod[a[2]] = {}
    THEN NoPod
    ELSE CHOOSE pod \in S.fam[a[1]].ipToPod[a[2]] : TRUE

\* It is the one owner of the address or of the MAC.
LEMMA HolderIsOwner ==
    ASSUME NEW S, Sound(S)
    PROVE  /\ \A f \in Families, ip \in Addr :
                /\ HolderOf(S, <<f, ip>>) \in Pods \cup {NoPod}
                /\ S.fam[f].ipToPod[ip] = IF HolderOf(S, <<f, ip>>) = NoPod THEN {}
                                          ELSE {HolderOf(S, <<f, ip>>)}
           /\ \A m \in Macs : /\ HolderOf(S, <<"mac", m>>) \in Pods \cup {NoPod}
                              /\ HolderOf(S, <<"mac", m>>) = S.macToPod[m]
<1>1. ASSUME NEW f \in Families, NEW ip \in Addr
      PROVE  /\ HolderOf(S, <<f, ip>>) \in Pods \cup {NoPod}
             /\ S.fam[f].ipToPod[ip] = IF HolderOf(S, <<f, ip>>) = NoPod THEN {}
                                       ELSE {HolderOf(S, <<f, ip>>)}
  <2> DEFINE F == S.fam[f]
             h == HolderOf(S, <<f, ip>>)
  <2>1. f # "mac" /\ NoPod \notin Pods /\ NoIP \notin Addr /\ PodOf \in [Nics -> Pods]
    BY ConstantsAssumption, SoundTypes, Zenon DEF Families
  <2>2. h = IF F.ipToPod[ip] = {} THEN NoPod ELSE CHOOSE pod \in F.ipToPod[ip] : TRUE
    BY <2>1 DEF HolderOf
  <2>3. CASE F.ipToPod[ip] = {}
    BY <2>2, <2>3, Zenon
  <2>4. CASE F.ipToPod[ip] # {}
    <3>1. UsedFamily(F) /\ ExclusiveFamily(F)
      BY SoundTypes, Zenon DEF FamilyInv
    <3>2. PICK k \in Nics : F.nicToIP[k] = ip
      BY <2>4, <3>1, Zenon DEF UsedFamily, OwnedFamily
    <3>3. F.ipToPod[ip] = {PodOf[k]}
      BY <2>1, <3>1, <3>2, Zenon DEF ExclusiveFamily
    <3> HIDE DEF h, F
    <3>4. h = PodOf[k]
      BY <2>2, <3>3
    <3> QED
      BY <2>1, <3>3, <3>4, Zenon DEF h, F
  <2> QED
    BY <2>3, <2>4, Zenon
<1>2. \A m \in Macs : HolderOf(S, <<"mac", m>>) = S.macToPod[m]
  BY DEF HolderOf
<1>3. \A m \in Macs : S.macToPod[m] \in Pods \cup {NoPod}
  <2>1. S.macToPod \in [Macs -> Pods \cup {NoPod}]
    BY SoundTypes, Zenon
  <2> QED
    BY <2>1
<1> QED
  BY <1>1, <1>2, <1>3, Zenon

\* The address manager implements AddressLease: each call is a request of one
\* pod, which gets only what nobody has and gives up only its own, or a
\* reconfiguration, which only takes away.
THEOREM LeaseRefinement ==
    ASSUME CheckConflicts \subseteq {TRUE}, OwnMacs, KeptMacs
    PROVE  Spec => ImplementsLease
<1> DEFINE h == [a \in Addresses |-> Holder(a)]
<1>1. \A a : Holder(a) = HolderOf(s, a)
  BY DEF Holder, HolderOf
<1>2. Init => AL!Init
  <2> SUFFICES ASSUME Init PROVE \A a \in Addresses : Holder(a) = NoPod
    BY DEF AL!Init
  <2>1. /\ \A f \in Families, ip \in Addr : s.fam[f].ipToPod[ip] = {}
        /\ \A m \in Macs : s.macToPod[m] = NoPod
    BY EmptySubnetSound, Zenon DEF Init
  <2>2. \A f \in Families : f # "mac"
    BY DEF Families
  <2> QED
    BY <2>1, <2>2, Zenon DEF Addresses, Holder
<1>3. LeaseInvariant /\ LeaseInvariant' /\ OwnersStep => AL!Next
  <2> SUFFICES ASSUME LeaseInvariant, LeaseInvariant', OwnersStep PROVE AL!Next
    OBVIOUS
  <2>1. Sound(s) /\ Sound(s')
    BY DEF LeaseInvariant, Whole
  <2>2. h = [a \in Addresses |-> HolderOf(s, a)] /\ h' = [a \in Addresses |-> HolderOf(s', a)]
    BY Zenon DEF Holder, HolderOf
  <2> DEFINE Owned(S, f, ip) == /\ HolderOf(S, <<f, ip>>) \in Pods \cup {NoPod}
                                /\ S.fam[f].ipToPod[ip] =
                                     IF HolderOf(S, <<f, ip>>) = NoPod THEN {}
                                     ELSE {HolderOf(S, <<f, ip>>)}
             OwnedMac(S, m) == /\ HolderOf(S, <<"mac", m>>) \in Pods \cup {NoPod}
                               /\ HolderOf(S, <<"mac", m>>) = S.macToPod[m]
  <2>3. /\ \A f \in Families, ip \in Addr : Owned(s, f, ip) /\ Owned(s', f, ip)
        /\ \A m \in Macs : OwnedMac(s, m) /\ OwnedMac(s', m)
    BY <2>1, HolderIsOwner, Zenon
  <2>4. ASSUME NEW a \in Addresses
        PROVE  \/ \E f \in Families, ip \in Addr : a = <<f, ip>>
               \/ \E m \in Macs : a = <<"mac", m>>
    BY DEF Addresses
  <2>5. \A a \in Addresses : HolderOf(s', a) \in Pods \cup {NoPod}
    BY <2>3, <2>4, Zenon
  <2> HIDE DEF Owned, OwnedMac
  <2>6. CASE Revoked(s, s')
    <3>1. ASSUME NEW f \in Families, NEW ip \in Addr
          PROVE  HolderOf(s', <<f, ip>>) \in {HolderOf(s, <<f, ip>>), NoPod}
      <4>1. Owned(s, f, ip) /\ Owned(s', f, ip)
        BY <2>3
      <4>2. s'.fam[f].ipToPod[ip] \in {s.fam[f].ipToPod[ip], {}}
        BY <2>6, Zenon DEF Revoked
      <4> QED
        BY <4>1, <4>2, Zenon DEF Owned
    <3>2. ASSUME NEW m \in Macs
          PROVE  HolderOf(s', <<"mac", m>>) \in {HolderOf(s, <<"mac", m>>), NoPod}
      BY <2>3, <2>6, Zenon DEF Revoked, OwnedMac
    <3>3. \A a \in Addresses : HolderOf(s', a) \in {HolderOf(s, a), NoPod}
      BY <2>4, <3>1, <3>2, Zenon
    <3> HIDE DEF h
    <3>4. h' \in [Addresses -> Pods \cup {NoPod}] /\ \A a \in Addresses : h'[a] \in {h[a], NoPod}
      BY <2>2, <2>5, <3>3
    <3> QED
      BY <3>4 DEF AL!Next, AL!Revoke, h
  <2>7. ASSUME NEW c \in Pods, NEW N, Touch(s, s', N, c) PROVE AL!Next
    <3> DEFINE Passed(a) == HolderOf(s', a) # HolderOf(s, a) =>
                              {HolderOf(s, a), HolderOf(s', a)} = {c, NoPod}
    <3>1. ASSUME NEW f \in Families, NEW ip \in Addr
          PROVE  Passed(<<f, ip>>)
      <4>1. Owned(s, f, ip) /\ Owned(s', f, ip)
        BY <2>3
      <4>2. Moved(s.fam[f].ipToPod[ip], s'.fam[f].ipToPod[ip], {}, {c})
        BY <2>7, Zenon DEF Touch
      <4> QED
        BY <4>1, <4>2, Zenon DEF Owned, Moved
    <3>2. ASSUME NEW m \in Macs
          PROVE  Passed(<<"mac", m>>)
      <4>1. OwnedMac(s, m) /\ OwnedMac(s', m)
        BY <2>3
      <4>2. Moved(s.macToPod[m], s'.macToPod[m], NoPod, c)
        BY <2>7, Zenon DEF Touch
      <4> QED
        BY <4>1, <4>2, Zenon DEF OwnedMac, Moved
    <3> HIDE DEF Passed
    <3>3. \A a \in Addresses : Passed(a)
      BY <2>4, <3>1, <3>2, Zenon
    <3> HIDE DEF h
    <3>4. /\ h' \in [Addresses -> Pods \cup {NoPod}]
          /\ \A a \in Addresses : h'[a] # h[a] => {h[a], h'[a]} = {c, NoPod}
      BY <2>2, <2>5, <3>3 DEF Passed
    <3> QED
      BY <3>4 DEF AL!Next, AL!Serve, h
  <2> QED
    BY <2>6, <2>7 DEF OwnersStep
<1>4. LeaseInvariant /\ [Next]_vars => LeaseInvariant' /\ OwnersStep
  BY LeaseStep, Zenon
<1> QED
  BY <1>2, <1>3, <1>4, LeaseInvariance, PTL DEF Spec, ImplementsLease, AL!Spec

=============================================================================
