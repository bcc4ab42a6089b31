---------------------------- MODULE SubnetProofs ----------------------------
(***************************************************************************)
(* Proofs about module Subnet, for any number of pods, NICs, pools and     *)
(* addresses, as long as every caller asks for the conflict check.         *)
(***************************************************************************)
EXTENDS Subnet, WellFoundedInduction, TLAPS

\* Allocate takes an address of the list: a set of addresses has a lowest.
LEMMA LowestIn ==
    ASSUME NEW A \in SUBSET Addr, A # {}
    PROVE  Lowest(A) \in A
<1>1. A \subseteq Nat
  BY ConstantsAssumption
<1>2. PICK x \in A : \A y \in A : <<y, x>> \notin OpToRel(<, Nat)
  BY <1>1, NatLessThanWellFounded, WFMin, Zenon
<1>3. \A y \in A : x <= y
  <2> TAKE y \in A
  <2>1. x \in Nat /\ y \in Nat
    BY <1>1
  <2>2. <<y, x>> \in Nat \X Nat /\ <<y, x>>[1] = y /\ <<y, x>>[2] = x
    BY <2>1
  <2>3. ~(y < x)
    BY <1>2, <2>2 DEF OpToRel
  <2> QED
    BY <2>1, <2>3
<1> QED
  BY <1>2, <1>3, Zenon DEF Lowest

-----------------------------------------------------------------------------
(* The inductive invariant.                                                 *)

\* The address a NIC has counts as used.  That excludes it from the lists that
\* random allocation takes addresses from, which is why ExclusiveFamily is
\* preserved.
HeldFamily(F) == \A n \in Nics : F.nicToIP[n] # NoIP => F.nicToIP[n] \in F.using

FamilyInv(F) ==
    /\ F \in Family
    /\ F.ips \subseteq F.cidr
    /\ ExclusiveFamily(F)
    /\ HeldFamily(F)
    /\ AccountedFamily(F)
    /\ PartitionedFamily(F)

\* A subnet as the operations find it and leave it.  A pool that is not in the
\* IPPools map has no addresses, so nothing is lost when it is created.
SubnetInv(S) ==
    /\ S \in SubnetType
    /\ Default \in S.pools
    /\ \A f \in Families : FamilyInv(S.fam[f])
    /\ \A f \in Families, p \in AllPools \ S.pools : S.fam[f].pool[p] = EmptyPool

Inv == present \in BOOLEAN /\ SubnetInv(s)

-----------------------------------------------------------------------------
(* Each operation on a family preserves what holds of it.                   *)

\* releaseV4Addr and releaseV6Addr give an address back to the lists it came
\* from, and only if no NIC has it any more.
LEMMA ReleaseFamilyInv ==
    ASSUME NEW F, FamilyInv(F), NEW pod \in Pods, NEW N \in SUBSET Nics
    PROVE  /\ FamilyInv(ReleaseFamily(F, pod, N))
           /\ \A p \in AllPools :
                /\ ReleaseFamily(F, pod, N).pool[p].ips = F.pool[p].ips
                /\ F.pool[p] = EmptyPool => ReleaseFamily(F, pod, N).pool[p] = EmptyPool
<1> DEFINE sole == SoleHolders(F, N)
           gone == {F.nicToIP[n] : n \in sole}
           left == {F.nicToIP[n] : n \in {k \in N \ sole : F.nicToIP[k] # NoIP}}
           back == Returned(F, gone)
           nicToIP == [n \in Nics |-> IF n \in sole THEN NoIP ELSE F.nicToIP[n]]
           ipToPod == [ip \in Addr |->
                          CASE ip \in gone -> {}
                            [] ip \in left -> F.ipToPod[ip] \ {pod}
                            [] OTHER -> F.ipToPod[ip]]
           mine(p) == back \cap F.pool[p].using
           pool == [p \in AllPools |->
                       [F.pool[p] EXCEPT
                          !.using = F.pool[p].using \ gone,
                          !.available = F.pool[p].available \cup mine(p),
                          !.released = F.pool[p].released \cup mine(p)]]
           G == [F EXCEPT !.nicToIP = nicToIP, !.ipToPod = ipToPod,
                          !.using = F.using \ gone,
                          !.available = F.available \cup back,
                          !.pool = pool]
<1> USE DEF FamilyInv
<1>1. ReleaseFamily(F, pod, N) = G
  BY DEF ReleaseFamily
<1>2. sole = {n \in N : F.nicToIP[n] # NoIP} /\ left = {}
  BY DEF SoleHolders, Shared, ExclusiveFamily, Family
<1>3. /\ gone \in SUBSET F.using
      /\ gone \in SUBSET Addr
      /\ \A n \in Nics : F.nicToIP[n] \in gone => n \in sole
  BY <1>2, ConstantsAssumption DEF HeldFamily, ExclusiveFamily, Family
<1>4. back = gone \ F.reserved /\ back \in SUBSET Addr
  BY <1>3 DEF AccountedFamily, Returned
<1>5. nicToIP \in [Nics -> Addr \cup {NoIP}]
  BY DEF Family
<1>6. ipToPod \in [Addr -> SUBSET Pods]
  BY DEF Family
<1>7. \A ip \in Addr \ gone : ipToPod[ip] = F.ipToPod[ip]
  BY <1>2
<1>8. \A n \in Nics : nicToIP[n] # NoIP => nicToIP[n] = F.nicToIP[n] /\ nicToIP[n] \notin gone
  BY <1>3
<1> HIDE DEF gone, back, nicToIP, ipToPod, sole, left
<1>9. \A p \in AllPools :
        /\ pool[p] \in Pool
        /\ pool[p].ips = F.pool[p].ips
        /\ pool[p].free = F.pool[p].free
        /\ pool[p].reserved = F.pool[p].reserved
        /\ pool[p].using = F.pool[p].using \ gone
        /\ pool[p].available = F.pool[p].available \cup mine(p)
        /\ pool[p].released = F.pool[p].released \cup mine(p)
  <2> TAKE p \in AllPools
  <2>1. F.pool[p] \in Pool
    BY DEF Family
  <2>2. mine(p) \in SUBSET Addr
    BY <1>4
  <2> HIDE DEF mine
  <2> QED
    BY <1>3, <2>1, <2>2, Zenon DEF Pool
<1>10. /\ pool \in [AllPools -> Pool]
       /\ \A p \in AllPools : F.pool[p] = EmptyPool => pool[p] = EmptyPool
  <2>1. \A P \in Pool : /\ P.ips = {} /\ P.free = {} /\ P.available = {}
                        /\ P.reserved = {} /\ P.released = {} /\ P.using = {}
                        => P = EmptyPool
    BY DEF Pool, EmptyPool
  <2>2. ASSUME NEW p \in AllPools, F.pool[p] = EmptyPool
        PROVE  pool[p] = EmptyPool
    <3>1. /\ F.pool[p].ips = {} /\ F.pool[p].free = {} /\ F.pool[p].available = {}
          /\ F.pool[p].reserved = {} /\ F.pool[p].released = {} /\ F.pool[p].using = {}
      BY <2>2 DEF EmptyPool
    <3> HIDE DEF pool
    <3> QED
      BY <1>9, <2>1, <3>1
  <2> QED
    BY <1>9, <2>2, Zenon
<1> HIDE DEF pool
<1>11. /\ G.cidr = F.cidr /\ G.ips = F.ips /\ G.reserved = F.reserved /\ G.gw = F.gw
       /\ G.nicToIP = nicToIP /\ G.ipToPod = ipToPod
       /\ G.using = F.using \ gone /\ G.available = F.available \cup back
       /\ G.pool = pool
  BY DEF Family
<1>12. G \in Family
  BY <1>4, <1>5, <1>6, <1>10, Zenon DEF Family
<1> HIDE DEF G
<1>13. ExclusiveFamily(G)
  BY <1>5, <1>7, <1>8, <1>11 DEF ExclusiveFamily, Family
<1>14. HeldFamily(G)
  BY <1>8, <1>11 DEF HeldFamily
<1>15. AccountedFamily(G)
  BY <1>3, <1>4, <1>11 DEF AccountedFamily
<1>16. PartitionedFamily(G)
  BY <1>3, <1>4, <1>9, <1>11 DEF PartitionedFamily, AccountedPool, AccountedFamily
<1> QED
  BY <1>1, <1>9, <1>10, <1>11, <1>12, <1>13, <1>14, <1>15, <1>16

\* A family whose pool p is replaced by P.
WithPool(F, p, P) == [F EXCEPT !.pool = [F.pool EXCEPT ![p] = P]]

\* Only the division of a pool's available addresses between its Free and
\* Released lists may change while nothing is allocated.
LEMMA WithPoolInv ==
    ASSUME NEW F, FamilyInv(F), NEW p \in AllPools, NEW P \in Pool,
           P.ips = F.pool[p].ips, P.available = F.pool[p].available,
           P.reserved = F.pool[p].reserved, P.using = F.pool[p].using,
           P.free \cup P.released = P.available, P.free \cap P.released = {}
    PROVE  FamilyInv(WithPool(F, p, P))
<1> DEFINE pool == [F.pool EXCEPT ![p] = P]
           G == [F EXCEPT !.pool = pool]
<1> USE DEF FamilyInv
<1>1. /\ pool \in [AllPools -> Pool]
      /\ pool[p] = P
      /\ \A q \in AllPools : q # p => pool[q] = F.pool[q]
  BY DEF Family
<1> HIDE DEF pool
<1>2. /\ G.cidr = F.cidr /\ G.ips = F.ips /\ G.reserved = F.reserved
      /\ G.nicToIP = F.nicToIP /\ G.ipToPod = F.ipToPod
      /\ G.using = F.using /\ G.available = F.available /\ G.pool = pool
  BY DEF Family
<1>3. G \in Family
  BY <1>1 DEF Family
<1>4. WithPool(F, p, P) = G
  BY DEF WithPool, pool
<1> HIDE DEF G
<1>5. \A q \in AllPools : pool[q].ips = F.pool[q].ips
  BY <1>1
<1>6. PartitionedFamily(G)
  <2>1. /\ G.ips \subseteq UNION {G.pool[q].ips : q \in AllPools}
        /\ \A q1, q2 \in AllPools : q1 # q2 => G.pool[q1].ips \cap G.pool[q2].ips = {}
    BY <1>2, <1>5 DEF PartitionedFamily, AccountedPool
  <2> QED
    BY <1>1, <1>2, <2>1 DEF PartitionedFamily, AccountedPool
<1> QED
  BY <1>2, <1>3, <1>4, <1>6 DEF ExclusiveFamily, HeldFamily, AccountedFamily

\* P is pool Q with its free lists rearranged.
Refilled(Q, P) ==
    /\ P \in Pool
    /\ P.ips = Q.ips /\ P.available = Q.available
    /\ P.reserved = Q.reserved /\ P.using = Q.using
    /\ P.free \cup P.released = P.available
    /\ P.free \cap P.released = {}

\* The first lines of a random allocation: the Free list never holds a reserved
\* address, and is replaced by the Released list when it runs out.
LEMMA RefillFreeLists ==
    ASSUME NEW F, FamilyInv(F), NEW p \in AllPools
    PROVE  Refilled(F.pool[p], RefillFree(F.pool[p]))
<1> DEFINE Q == F.pool[p]
<1> USE DEF Refilled
<1>1. Q \in Pool
  BY DEF FamilyInv, Family
<1>2. /\ Q.free \cup Q.released = Q.available
      /\ Q.free \cap Q.released = {}
      /\ Q.available \cap Q.reserved = {}
  BY DEF FamilyInv, PartitionedFamily, AccountedPool
<1> HIDE DEF Q
<1>3. RefillFree(Q) = IF Q.free # {}
                      THEN [Q EXCEPT !.free = Q.free]
                      ELSE [Q EXCEPT !.free = Q.released, !.released = {}]
  <2>1. Q.free \ Q.reserved = Q.free /\ Q.released \ Q.reserved = Q.released
    BY <1>2
  <2> QED
    BY <2>1, Zenon DEF RefillFree
<1>4. CASE Q.free # {}
  BY <1>1, <1>2, <1>3, <1>4 DEF Pool, Q
<1>5. CASE Q.free = {}
  <2> DEFINE R == [Q EXCEPT !.free = Q.released, !.released = {}]
  <2>1. R \in Pool
    BY <1>1, Zenon DEF Pool
  <2>2. /\ R.ips = Q.ips /\ R.available = Q.available /\ R.reserved = Q.reserved
        /\ R.using = Q.using /\ R.free = Q.released /\ R.released = {}
    BY <1>1 DEF Pool
  <2>3. RefillFree(Q) = R
    BY <1>3, <1>5, Zenon
  <2> HIDE DEF R
  <2> QED
    BY <1>2, <1>5, <2>1, <2>2, <2>3 DEF Q
<1> QED
  BY <1>4, <1>5, Zenon

\* Handing out an address of pool p that no NIC has, an available one or, on
\* request, a reserved one.
LEMMA LeaseInv ==
    ASSUME NEW F, FamilyInv(F), NEW p \in AllPools, NEW n \in Nics, NEW ip \in Addr,
           NEW free \in SUBSET Addr, NEW released \in SUBSET Addr,
           ip \in F.pool[p].ips,
           ip \in F.pool[p].available \cup F.reserved,
           \A k \in Nics : F.nicToIP[k] # ip,
           free \cup released = F.pool[p].available \ {ip},
           free \cap released = {}
    PROVE  FamilyInv(Lease(F, p, n, ip, free, released))
<1> DEFINE nicToIP == [F.nicToIP EXCEPT ![n] = ip]
           ipToPod == [F.ipToPod EXCEPT ![ip] = {PodOf[n]}]
           P == [F.pool[p] EXCEPT !.free = free, !.released = released,
                                  !.available = F.pool[p].available \ {ip},
                                  !.using = F.pool[p].using \cup {ip}]
           pool == [F.pool EXCEPT ![p] = P]
           G == [F EXCEPT !.nicToIP = nicToIP, !.ipToPod = ipToPod,
                          !.using = F.using \cup {ip},
                          !.available = F.available \ {ip},
                          !.pool = pool]
<1> USE DEF FamilyInv
<1>1. /\ nicToIP \in [Nics -> Addr \cup {NoIP}]
      /\ nicToIP[n] = ip
      /\ \A k \in Nics : k # n => nicToIP[k] = F.nicToIP[k]
  BY DEF Family
<1>2. /\ ipToPod \in [Addr -> SUBSET Pods]
      /\ ipToPod[ip] = {PodOf[n]}
      /\ \A a \in Addr : a # ip => ipToPod[a] = F.ipToPod[a]
  BY ConstantsAssumption DEF Family
<1>3. /\ P \in Pool /\ P.ips = F.pool[p].ips /\ P.reserved = F.pool[p].reserved
      /\ P.free = free /\ P.released = released
      /\ P.available = F.pool[p].available \ {ip}
      /\ P.using = F.pool[p].using \cup {ip}
  <2>1. F.pool[p] \in Pool
    BY DEF Family
  <2> QED
    BY <2>1, Zenon DEF Pool
<1> HIDE DEF nicToIP, ipToPod, P
<1>4. /\ pool \in [AllPools -> Pool]
      /\ pool[p] = P
      /\ \A q \in AllPools : q # p => pool[q] = F.pool[q]
  BY <1>3 DEF Family
<1> HIDE DEF pool
<1>5. /\ G.cidr = F.cidr /\ G.ips = F.ips /\ G.reserved = F.reserved
      /\ G.nicToIP = nicToIP /\ G.ipToPod = ipToPod
      /\ G.using = F.using \cup {ip} /\ G.available = F.available \ {ip}
      /\ G.pool = pool
  BY DEF Family
<1>6. G \in Family
  BY <1>1, <1>2, <1>4, Zenon DEF Family
<1>7. Lease(F, p, n, ip, free, released) = G
  BY DEF Lease, nicToIP, ipToPod, P, pool
<1> HIDE DEF G
<1>8. ExclusiveFamily(G)
  BY <1>1, <1>2, <1>5 DEF ExclusiveFamily, Family
<1>9. HeldFamily(G)
  BY <1>1, <1>5 DEF HeldFamily
<1>10. AccountedFamily(G)
  BY <1>5 DEF AccountedFamily, PartitionedFamily, AccountedPool
<1>11. PartitionedFamily(G)
  <2>1. \A q \in AllPools : pool[q].ips = F.pool[q].ips
    BY <1>3, <1>4
  <2>2. /\ G.ips \subseteq UNION {G.pool[q].ips : q \in AllPools}
        /\ \A q1, q2 \in AllPools : q1 # q2 => G.pool[q1].ips \cap G.pool[q2].ips = {}
    BY <1>5, <2>1 DEF PartitionedFamily, AccountedPool
  <2>3. \A q \in AllPools : q # p => ip \notin F.pool[q].ips
    BY DEF PartitionedFamily, AccountedPool
  <2>4. ASSUME NEW q \in AllPools
        PROVE  AccountedPool(G, pool[q])
    <3>1. AccountedPool(F, F.pool[q])
      BY Zenon DEF PartitionedFamily
    <3>2. CASE q = p
      BY <1>3, <1>4, <1>5, <3>1, <3>2 DEF AccountedPool
    <3>3. CASE q # p
      <4>1. pool[q] = F.pool[q] /\ ip \notin F.pool[q].ips
        BY <1>4, <2>3, <3>3, Zenon
      <4> QED
        BY <1>5, <3>1, <4>1 DEF AccountedPool
    <3> QED
      BY <3>2, <3>3
  <2> QED
    BY <1>5, <2>2, <2>4 DEF PartitionedFamily, AccountedPool
<1> QED
  BY <1>5, <1>6, <1>7, <1>8, <1>9, <1>10, <1>11

\* NewSubnet: everything is free and in the default pool.
LEMMA NewFamilyInv ==
    ASSUME NEW c \in FamilyConfig, c.ips \subseteq c.cidr
    PROVE  /\ FamilyInv(NewFamily(c))
           /\ \A p \in PoolNames : NewFamily(c).pool[p] = EmptyPool
<1> DEFINE free == c.ips \ c.reserved
           D == [ips |-> c.ips, free |-> free, available |-> free,
                 reserved |-> c.reserved, released |-> {}, using |-> {}]
           pool == [p \in AllPools |-> IF p = Default THEN D ELSE EmptyPool]
           nicToIP == [n \in Nics |-> NoIP]
           ipToPod == [ip \in Addr |-> {}]
           G == [cidr |-> c.cidr, ips |-> c.ips, gw |-> c.gw, reserved |-> c.reserved,
                 available |-> free, using |-> {}, nicToIP |-> nicToIP,
                 ipToPod |-> ipToPod, pool |-> pool]
<1>1. NewFamily(c) = G
  BY DEF NewFamily
<1>2. /\ c.cidr \in SUBSET Addr /\ c.ips \in SUBSET Addr
      /\ c.gw \in Addr \cup {NoIP} /\ c.reserved \in SUBSET Addr
  BY DEF FamilyConfig
<1>3. D \in Pool /\ EmptyPool \in Pool
  BY <1>2 DEF Pool, EmptyPool
<1>4. /\ pool \in [AllPools -> Pool]
      /\ pool[Default] = D
      /\ \A p \in PoolNames : pool[p] = EmptyPool
  BY <1>3, ConstantsAssumption DEF AllPools
<1>5. nicToIP \in [Nics -> Addr \cup {NoIP}] /\ ipToPod \in [Addr -> SUBSET Pods]
  OBVIOUS
<1>6. AccountedPool(G, D) /\ AccountedPool(G, EmptyPool) /\ D.ips = c.ips /\ EmptyPool.ips = {}
  BY Zenon DEF AccountedPool, EmptyPool
<1>7. ExclusiveFamily(G) /\ HeldFamily(G)
  BY Zenon DEF ExclusiveFamily, HeldFamily
<1> HIDE DEF nicToIP, ipToPod, pool, D
<1>8. G \in Family
  BY <1>2, <1>4, <1>5 DEF Family
<1>9. G.pool = pool /\ G.ips = c.ips
  OBVIOUS
<1>10. AccountedFamily(G)
  BY DEF AccountedFamily
<1> HIDE DEF G
<1>11. \A p \in AllPools : p = Default \/ p \in PoolNames
  BY DEF AllPools
<1>12. PartitionedFamily(G)
  <2>1. \A p \in AllPools : AccountedPool(G, G.pool[p])
    BY <1>4, <1>6, <1>9, <1>11
  <2>2. \A p, q \in AllPools : p # q => G.pool[p].ips \cap G.pool[q].ips = {}
    BY <1>4, <1>6, <1>9, <1>11
  <2>3. G.ips \subseteq UNION {G.pool[p].ips : p \in AllPools}
    BY <1>4, <1>6, <1>9 DEF AllPools
  <2> QED
    BY <2>1, <2>2, <2>3 DEF PartitionedFamily
<1>13. G.ips \subseteq G.cidr
  BY DEF G
<1> QED
  BY <1>1, <1>4, <1>7, <1>8, <1>9, <1>10, <1>12, <1>13 DEF FamilyInv

\* AddOrUpdateSubnet: what the new configuration keeps of the leases stays in
\* use, and all the rest it has is free again.
LEMMA UpdateFamilyInv ==
    ASSUME NEW F, FamilyInv(F), NEW c \in FamilyConfig, c.ips \subseteq c.cidr
    PROVE  /\ FamilyInv(UpdateFamily(F, c))
           /\ \A p \in PoolNames : F.pool[p] = EmptyPool =>
                UpdateFamily(F, c).pool[p] = EmptyPool
<1> DEFINE using == F.using \cap c.ips
           free == (c.ips \ c.reserved) \ using
           named == [p \in PoolNames |-> UpdatePool(F.pool[p], c)]
           theirIPs == UNION {named[p].ips : p \in PoolNames}
           theirReserved == UNION {named[p].reserved : p \in PoolNames}
           theirUsing == UNION {named[p].using : p \in PoolNames}
           dropped == {F.nicToIP[n] : n \in Nics} \ (c.ips \cup {NoIP})
           D == [ips |-> c.ips \ theirIPs, free |-> free \ theirIPs,
                 available |-> free \ theirIPs, reserved |-> c.reserved \ theirReserved,
                 released |-> {}, using |-> using \ theirUsing]
           nicToIP == [n \in Nics |-> IF F.nicToIP[n] \in dropped THEN NoIP ELSE F.nicToIP[n]]
           ipToPod == [ip \in Addr |-> IF ip \in dropped THEN {} ELSE F.ipToPod[ip]]
           pool == [p \in AllPools |-> IF p = Default THEN D ELSE named[p]]
           G == [cidr |-> c.cidr, ips |-> c.ips, gw |-> c.gw, reserved |-> c.reserved,
                 available |-> free, using |-> using, nicToIP |-> nicToIP,
                 ipToPod |-> ipToPod, pool |-> pool]
<1> USE DEF FamilyInv
<1>1. UpdateFamily(F, c) = G
  BY DEF UpdateFamily
<1>2. /\ c.cidr \in SUBSET Addr /\ c.ips \in SUBSET Addr
      /\ c.gw \in Addr \cup {NoIP} /\ c.reserved \in SUBSET Addr
  BY DEF FamilyConfig
<1>3. nicToIP \in [Nics -> Addr \cup {NoIP}] /\ ipToPod \in [Addr -> SUBSET Pods]
  BY DEF Family
<1>4. \A n \in Nics : nicToIP[n] # NoIP =>
         /\ nicToIP[n] = F.nicToIP[n]
         /\ nicToIP[n] \in c.ips
         /\ ipToPod[nicToIP[n]] = F.ipToPod[nicToIP[n]]
  BY <1>2 DEF Family
<1>5. ASSUME NEW p \in PoolNames
      PROVE  /\ named[p] \in Pool /\ named[p].ips = F.pool[p].ips
             /\ named[p].using = using \cap named[p].ips
             /\ named[p].reserved = c.reserved \cap named[p].ips
             /\ AccountedPool(G, named[p])
             /\ F.pool[p] = EmptyPool => named[p] = EmptyPool
  <2> DEFINE P == F.pool[p]
             Q == [ips |-> P.ips,
                   free |-> ((c.ips \cap P.ips) \ (P.using \cap c.ips)) \ (c.reserved \cap P.ips),
                   available |-> ((c.ips \cap P.ips) \ (P.using \cap c.ips)) \ (c.reserved \cap P.ips),
                   reserved |-> c.reserved \cap P.ips, released |-> {},
                   using |-> P.using \cap c.ips]
  <2>1. P \in Pool /\ AccountedPool(F, P)
    BY DEF Family, AllPools, PartitionedFamily
  <2>2. named[p] = Q
    BY Zenon DEF UpdatePool
  <2>3. P.using = F.using \cap P.ips /\ P.ips \in SUBSET Addr
    BY <2>1, Zenon DEF AccountedPool, Pool
  <2> HIDE DEF named
  <2>4. P = EmptyPool => Q = EmptyPool
    BY DEF EmptyPool
  <2> HIDE DEF P
  <2>5. Q \in Pool
    BY <1>2, <2>3 DEF Pool
  <2>6. AccountedPool(G, Q) /\ Q.using = using \cap Q.ips
    BY <2>3, Zenon DEF AccountedPool
  <2>7. Q.ips = P.ips /\ Q.reserved = c.reserved \cap Q.ips
    OBVIOUS
  <2> HIDE DEF Q, G, using
  <2> QED
    BY <2>2, <2>4, <2>5, <2>6, <2>7 DEF P
<1>6. /\ theirIPs \in SUBSET Addr
      /\ theirUsing = using \cap theirIPs
      /\ theirReserved = c.reserved \cap theirIPs
  <2>1. \A p \in PoolNames : named[p].ips \in SUBSET Addr
    BY <1>5, Zenon DEF Pool
  <2>2. \A p \in PoolNames : /\ named[p].using = using \cap named[p].ips
                             /\ named[p].reserved = c.reserved \cap named[p].ips
    BY <1>5, Zenon
  <2> HIDE DEF named, using
  <2> QED
    BY <2>1, <2>2
<1> HIDE DEF named, theirIPs, theirUsing, theirReserved
<1>7. D \in Pool /\ AccountedPool(G, D) /\ D.ips = c.ips \ theirIPs
  BY <1>2, <1>6, Zenon DEF Pool, AccountedPool
<1>8. AccountedFamily(G) /\ HeldFamily(G)
  <2>1. \A n \in Nics : nicToIP[n] # NoIP => nicToIP[n] \in using
    BY <1>4, Zenon DEF HeldFamily
  <2> QED
    BY <2>1, Zenon DEF AccountedFamily, HeldFamily
<1>9. ExclusiveFamily(G)
  <2>1. G.nicToIP = nicToIP /\ G.ipToPod = ipToPod
    BY Zenon
  <2> HIDE DEF nicToIP, ipToPod, G
  <2>2. ASSUME NEW n \in Nics, nicToIP[n] # NoIP
        PROVE  ipToPod[nicToIP[n]] = {PodOf[n]}
    BY <1>4, <2>2, Zenon DEF ExclusiveFamily
  <2>3. ASSUME NEW n1 \in Nics, NEW n2 \in Nics,
               nicToIP[n1] = nicToIP[n2], nicToIP[n1] # NoIP
        PROVE  n1 = n2
    <3>1. F.nicToIP[n1] = F.nicToIP[n2] /\ F.nicToIP[n1] # NoIP
      BY <1>4, <2>3, Zenon
    <3> QED
      BY <3>1 DEF ExclusiveFamily
  <2> QED
    BY <2>1, <2>2, <2>3, Zenon DEF ExclusiveFamily
<1> HIDE DEF D
<1>10. /\ pool \in [AllPools -> Pool]
       /\ pool[Default] = D
       /\ \A p \in PoolNames : pool[p] = named[p]
  BY <1>5, <1>7, ConstantsAssumption, Zenon DEF AllPools
<1> HIDE DEF pool, nicToIP, ipToPod
<1>11. G \in Family
  BY <1>2, <1>3, <1>10 DEF Family
<1>12. G.pool = pool /\ G.ips = c.ips /\ G.cidr = c.cidr
  BY Zenon
<1> HIDE DEF G
<1>13. PartitionedFamily(G)
  <2>1. \A p \in AllPools : p = Default \/ p \in PoolNames
    BY DEF AllPools
  <2>2. \A p \in AllPools : AccountedPool(G, G.pool[p])
    BY <1>5, <1>7, <1>10, <1>12, <2>1, Zenon
  <2>3. G.ips \subseteq UNION {G.pool[p].ips : p \in AllPools}
    <3> SUFFICES ASSUME NEW ip \in c.ips
                 PROVE  \E p \in AllPools : ip \in pool[p].ips
      BY <1>12
    <3>1. CASE ip \in theirIPs
      <4>1. PICK p \in PoolNames : ip \in named[p].ips
        BY <3>1 DEF theirIPs
      <4> QED
        BY <1>10, <4>1 DEF AllPools
    <3>2. CASE ip \notin theirIPs
      BY <1>7, <1>10, <3>2 DEF AllPools
    <3> QED
      BY <3>1, <3>2, Zenon
  <2>4. \A p \in PoolNames : named[p].ips \cap D.ips = {}
    BY <1>7, Zenon DEF theirIPs
  <2>5. \A p, q \in PoolNames : p # q => named[p].ips \cap named[q].ips = {}
    BY <1>5 DEF PartitionedFamily, AllPools
  <2>6. \A p, q \in AllPools : p # q => G.pool[p].ips \cap G.pool[q].ips = {}
    BY <1>10, <1>12, <2>1, <2>4, <2>5
  <2> QED
    BY <2>2, <2>3, <2>6, Zenon DEF PartitionedFamily
<1> QED
  BY <1>1, <1>5, <1>8, <1>9, <1>10, <1>11, <1>12, <1>13

\* Pools name and Default may be replaced by two that divide their addresses,
\* and those of nobody else, between them.
LEMMA TwoPoolsInv ==
    ASSUME NEW F, FamilyInv(F), NEW name \in PoolNames, NEW P \in Pool, NEW D \in Pool,
           AccountedPool(F, P), AccountedPool(F, D),
           P.ips \cap D.ips = {},
           F.pool[name].ips \cup F.pool[Default].ips \subseteq P.ips \cup D.ips,
           \A q \in PoolNames : q # name => (P.ips \cup D.ips) \cap F.pool[q].ips = {}
    PROVE  FamilyInv([F EXCEPT !.pool = [F.pool EXCEPT ![name] = P, ![Default] = D]])
<1> DEFINE pool == [F.pool EXCEPT ![name] = P, ![Default] = D]
           G == [F EXCEPT !.pool = pool]
<1> USE DEF FamilyInv
<1>1. name # Default /\ \A q \in AllPools : q = Default \/ q \in PoolNames
  BY ConstantsAssumption DEF AllPools
<1>2. /\ pool \in [AllPools -> Pool]
      /\ pool[name] = P /\ pool[Default] = D
      /\ \A q \in AllPools : q # name /\ q # Default => pool[q] = F.pool[q]
  BY <1>1, Zenon DEF Family, AllPools
<1> HIDE DEF pool
<1>3. /\ G.cidr = F.cidr /\ G.ips = F.ips /\ G.reserved = F.reserved
      /\ G.nicToIP = F.nicToIP /\ G.ipToPod = F.ipToPod
      /\ G.using = F.using /\ G.available = F.available /\ G.pool = pool
  BY DEF Family
<1>4. G \in Family
  BY <1>2 DEF Family
<1> HIDE DEF G
<1>5. \A q \in AllPools : AccountedPool(G, pool[q])
  <2>1. \A Q : AccountedPool(F, Q) => AccountedPool(G, Q)
    BY <1>3 DEF AccountedPool
  <2>2. \A q \in AllPools : AccountedPool(F, F.pool[q])
    BY DEF PartitionedFamily
  <2> QED
    BY <1>2, <2>1, <2>2
<1>6. \A p, q \in AllPools : p # q => pool[p].ips \cap pool[q].ips = {}
  BY <1>1, <1>2 DEF PartitionedFamily
<1>7. F.ips \subseteq UNION {pool[q].ips : q \in AllPools}
  BY <1>1, <1>2 DEF PartitionedFamily, AllPools
<1>8. PartitionedFamily(G)
  BY <1>3, <1>5, <1>6, <1>7 DEF PartitionedFamily
<1> QED
  BY <1>3, <1>4, <1>8 DEF ExclusiveFamily, HeldFamily, AccountedFamily, G, pool

\* What holds of two pools that are distinct.
LEMMA PoolFacts ==
    ASSUME NEW F, FamilyInv(F), NEW name \in PoolNames
    PROVE  /\ F.pool[name] \in Pool /\ F.pool[Default] \in Pool
           /\ AccountedPool(F, F.pool[name]) /\ AccountedPool(F, F.pool[Default])
           /\ F.pool[name].ips \cap F.pool[Default].ips = {}
           /\ \A q \in PoolNames : q # name =>
                (F.pool[name].ips \cup F.pool[Default].ips) \cap F.pool[q].ips = {}
BY ConstantsAssumption DEF FamilyInv, PartitionedFamily, Family, AllPools

\* AddOrUpdateIPPool: the new pool gets the addresses it asks for, used ones
\* included, and the default pool keeps or gets back the others.
LEMMA FamilyAddPoolInv ==
    ASSUME NEW F, FamilyInv(F), NEW name \in PoolNames, NEW ips \in SUBSET Addr,
           F.cidr # {} => \A q \in PoolNames : q # name => ips \cap F.pool[q].ips = {}
    PROVE  FamilyInv(FamilyAddPool(F, name, ips))
<1> DEFINE old == F.pool[name]
           D == F.pool[Default]
           P == NewPool(F, ips)
           E == ShrinkDefault(F, old, P)
<1>1. /\ old \in Pool /\ D \in Pool
      /\ AccountedPool(F, old) /\ AccountedPool(F, D)
      /\ old.ips \cap D.ips = {}
      /\ \A q \in PoolNames : q # name => (old.ips \cup D.ips) \cap F.pool[q].ips = {}
  BY PoolFacts
<1>2. F \in Family /\ F.ips \subseteq F.cidr /\ F.using \in SUBSET Addr
      /\ F.reserved \in SUBSET Addr /\ F.ips \in SUBSET Addr
  BY Zenon DEF FamilyInv, Family
<1>3. /\ P \in Pool /\ AccountedPool(F, P)
      /\ P.ips \subseteq IF F.cidr = {} THEN {} ELSE ips
      /\ P.free = P.available /\ P.reserved = F.reserved \cap P.ips
  <2>1. CASE F.cidr = {}
    <3>1. P = EmptyPool
      BY <2>1 DEF NewPool
    <3>2. EmptyPool \in Pool
      BY Zenon DEF EmptyPool, Pool
    <3> HIDE DEF P
    <3> QED
      BY <2>1, <3>1, <3>2 DEF EmptyPool, AccountedPool
  <2>2. CASE F.cidr # {}
    <3> DEFINE free == ((F.ips \cap ips) \ F.using) \ F.reserved
    <3>1. P = [ips |-> ips, free |-> free, available |-> free,
               reserved |-> F.reserved \cap ips, released |-> {},
               using |-> F.using \cap ips]
      BY <2>2 DEF NewPool
    <3> HIDE DEF P
    <3> QED
      BY <1>2, <2>2, <3>1 DEF Pool, AccountedPool
  <2> QED
    BY <2>1, <2>2
<1> HIDE DEF P
<1>4. E \in Pool /\ AccountedPool(F, E) /\ E.ips = (D.ips \cup old.ips) \ P.ips
  <2> DEFINE free == ((D.available \cup old.available) \ P.free) \ F.reserved
  <2>1. E = [ips |-> (D.ips \cup old.ips) \ P.ips, free |-> free, available |-> free,
             reserved |-> (D.reserved \cup old.reserved) \ P.reserved, released |-> {},
             using |-> (D.using \cup old.using) \ P.using]
    BY DEF ShrinkDefault
  <2> HIDE DEF E, D, old
  <2> USE <2>1
  <2>2. E \in Pool
    BY <1>1, <1>3, Zenon DEF Pool
  <2>3. E.using = F.using \cap E.ips
    BY <1>1, <1>3, Zenon DEF AccountedPool
  <2>4. F.reserved \cap E.ips \subseteq E.reserved /\ E.reserved \subseteq F.reserved
    BY <1>1, <1>3, Zenon DEF AccountedPool
  <2>5. E.available = ((E.ips \cap F.ips) \ F.reserved) \ F.using
    BY <1>1, <1>3, Zenon DEF AccountedPool
  <2> QED
    BY <2>2, <2>3, <2>4, <2>5, Zenon DEF AccountedPool
<1> HIDE DEF E
<1>5. \A q \in PoolNames : q # name => (P.ips \cup E.ips) \cap F.pool[q].ips = {}
  <2> TAKE q \in PoolNames
  <2> HAVE q # name
  <2>1. P.ips \cap F.pool[q].ips = {}
    BY <1>3
  <2>2. E.ips \cap F.pool[q].ips = {}
    BY <1>1, <1>4
  <2> QED
    BY <2>1, <2>2
<1>6. old.ips \cup D.ips \subseteq P.ips \cup E.ips /\ P.ips \cap E.ips = {}
  BY <1>4
<1> QED
  BY <1>3, <1>4, <1>5, <1>6, TwoPoolsInv DEF FamilyAddPool, P, E

\* RemoveIPPool: the default pool takes over all that the pool had.
LEMMA FamilyRemovePoolInv ==
    ASSUME NEW F, FamilyInv(F), NEW name \in PoolNames
    PROVE  FamilyInv(FamilyRemovePool(F, name))
<1> DEFINE P == F.pool[name]
           D == F.pool[Default]
           E == MergePools(D, P)
<1>1. /\ P \in Pool /\ D \in Pool
      /\ AccountedPool(F, P) /\ AccountedPool(F, D)
      /\ P.ips \cap D.ips = {}
      /\ \A q \in PoolNames : q # name => (P.ips \cup D.ips) \cap F.pool[q].ips = {}
  BY PoolFacts
<1> HIDE DEF P, D
<1>2. E = [ips |-> D.ips \cup P.ips, free |-> D.free \cup P.free,
           available |-> D.available \cup P.available,
           reserved |-> D.reserved \cup P.reserved,
           released |-> D.released \cup P.released, using |-> D.using \cup P.using]
  BY DEF MergePools
<1> HIDE DEF E
<1>3. E \in Pool
  BY <1>1, <1>2 DEF Pool
<1>4. AccountedPool(F, E)
  <2>1. /\ D.free \subseteq D.ips /\ D.released \subseteq D.ips
        /\ P.free \subseteq P.ips /\ P.released \subseteq P.ips
    BY <1>1 DEF AccountedPool
  <2> QED
    BY <1>1, <1>2, <2>1 DEF AccountedPool
<1>5. EmptyPool \in Pool /\ AccountedPool(F, EmptyPool) /\ EmptyPool.ips = {}
  BY Zenon DEF EmptyPool, Pool, AccountedPool
<1>6. E.ips = D.ips \cup P.ips
  BY <1>2
<1> QED
  BY <1>1, <1>3, <1>4, <1>5, <1>6, TwoPoolsInv DEF FamilyRemovePool, E, D, P

-----------------------------------------------------------------------------
(* The same for the operations on a subnet.                                 *)

\* Only the families and the pools matter to the invariant.
LEMMA SameFamilies ==
    ASSUME NEW S, SubnetInv(S), NEW T \in SubnetType, T.fam = S.fam, T.pools = S.pools
    PROVE  SubnetInv(T)
BY DEF SubnetInv

\* Replacing one family by one that satisfies its invariant.
LEMMA WithFamilyInv ==
    ASSUME NEW S, SubnetInv(S), NEW f \in Families, NEW G, FamilyInv(G),
           \A p \in AllPools \ S.pools : G.pool[p] = EmptyPool
    PROVE  /\ SubnetInv(WithFamily(S, f, G))
           /\ WithFamily(S, f, G).pools = S.pools
           /\ WithFamily(S, f, G).fam[f] = G
<1> DEFINE fam == [S.fam EXCEPT ![f] = G]
           T == [S EXCEPT !.fam = fam]
<1>1. /\ fam \in [Families -> Family]
      /\ fam[f] = G
      /\ \A g \in Families : g # f => fam[g] = S.fam[g]
  BY DEF SubnetInv, SubnetType, FamilyInv
<1>2. WithFamily(S, f, G) = T
  BY DEF WithFamily
<1> HIDE DEF fam
<1>3. T \in SubnetType /\ T.fam = fam /\ T.pools = S.pools
  BY <1>1 DEF SubnetInv, SubnetType
<1> HIDE DEF T
<1>4. SubnetInv(T)
  BY <1>1, <1>3 DEF SubnetInv
<1> QED
  BY <1>1, <1>2, <1>3, <1>4

\* T differs from S in MACs and PodToNicList at most.
SameAddresses(S, T) == SubnetInv(T) /\ T.fam = S.fam /\ T.pools = S.pools

\* The invariant says nothing of MACs: GetRandomMac, GetStaticMac and the
\* clean-up of MACs may change them.
LEMMA MacsChanged ==
    ASSUME NEW S, SubnetInv(S),
           NEW nicToMac \in [Nics -> Macs \cup {NoMac}],
           NEW macToPod \in [Macs -> Pods \cup {NoPod}]
    PROVE  SameAddresses(S, [S EXCEPT !.macToPod = macToPod, !.nicToMac = nicToMac])
<1> DEFINE T == [S EXCEPT !.macToPod = macToPod, !.nicToMac = nicToMac]
<1>1. T \in SubnetType /\ T.fam = S.fam /\ T.pools = S.pools
  BY Zenon DEF SubnetInv, SubnetType
<1> HIDE DEF T
<1>2. SubnetInv(T)
  BY <1>1, SameFamilies
<1> QED
  BY <1>1, <1>2 DEF T, SameAddresses

\* Nor of PodToNicList: pushPodNic and popPodNic may change it.
LEMMA PodNicsChanged ==
    ASSUME NEW S, SubnetInv(S), NEW podNics \in [Pods -> SUBSET Nics]
    PROVE  SameAddresses(S, [S EXCEPT !.podNics = podNics])
<1> DEFINE T == [S EXCEPT !.podNics = podNics]
<1>1. T \in SubnetType /\ T.fam = S.fam /\ T.pools = S.pools
  BY DEF SubnetInv, SubnetType
<1> HIDE DEF T
<1>2. SubnetInv(T)
  BY <1>1, SameFamilies
<1> QED
  BY <1>1, <1>2 DEF T, SameAddresses

\* The types that the next lemmas need.
LEMMA MapTypes ==
    ASSUME NEW S, SubnetInv(S)
    PROVE  /\ S.nicToMac \in [Nics -> Macs \cup {NoMac}]
           /\ S.macToPod \in [Macs -> Pods \cup {NoPod}]
           /\ S.podNics \in [Pods -> SUBSET Nics]
           /\ S.pools \in SUBSET AllPools
           /\ PodOf \in [Nics -> Pods]
BY ConstantsAssumption DEF SubnetInv, SubnetType

\* GetRandomMac changes only the MAC maps.
LEMMA GetRandomMacSame ==
    ASSUME NEW S, SubnetInv(S), NEW n \in Nics, NEW m \in Macs
    PROVE  SameAddresses(S, GetRandomMac(S, n, m))
<1>1. /\ [S.macToPod EXCEPT ![m] = PodOf[n]] \in [Macs -> Pods \cup {NoPod}]
      /\ [S.nicToMac EXCEPT ![n] = m] \in [Nics -> Macs \cup {NoMac}]
  BY MapTypes
<1>2. SameAddresses(S, S)
  BY DEF SameAddresses
<1> QED
  BY <1>1, <1>2, MacsChanged, Zenon DEF GetRandomMac

\* GetStaticMac changes only the MAC maps.
LEMMA GetStaticMacSame ==
    ASSUME NEW S, SubnetInv(S), NEW n \in Nics, NEW mac \in Macs \cup {NoMac}
    PROVE  SameAddresses(S, GetStaticMac(S, n, mac))
<1>1. mac # NoMac => /\ [S.macToPod EXCEPT ![mac] = PodOf[n]] \in [Macs -> Pods \cup {NoPod}]
                     /\ [S.nicToMac EXCEPT ![n] = mac] \in [Nics -> Macs \cup {NoMac}]
  BY MapTypes
<1>2. SameAddresses(S, S)
  BY DEF SameAddresses
<1> QED
  BY <1>1, <1>2, MacsChanged, Zenon DEF GetStaticMac

\* pushPodNic changes only PodToNicList.
LEMMA pushPodNicSame ==
    ASSUME NEW S, SubnetInv(S), NEW n \in Nics
    PROVE  SameAddresses(S, pushPodNic(S, n))
<1>1. [S.podNics EXCEPT ![PodOf[n]] = S.podNics[PodOf[n]] \cup {n}] \in [Pods -> SUBSET Nics]
  BY MapTypes
<1>2. SameAddresses(S, S)
  BY DEF SameAddresses
<1> QED
  BY <1>1, <1>2, PodNicsChanged DEF pushPodNic

\* popPodNic changes only PodToNicList.
LEMMA popPodNicsSame ==
    ASSUME NEW S, SubnetInv(S), NEW pod \in Pods, NEW N \in SUBSET Nics
    PROVE  SameAddresses(S, popPodNics(S, pod, N))
<1>1. [S.podNics EXCEPT ![pod] = S.podNics[pod] \ N] \in [Pods -> SUBSET Nics]
  BY MapTypes
<1> QED
  BY <1>1, PodNicsChanged DEF popPodNics

\* Forgetting MACs, at the end of a release, changes only the MAC maps.
LEMMA DropMacsSame ==
    ASSUME NEW S, SubnetInv(S), NEW N \in SUBSET Nics
    PROVE  SameAddresses(S, DropMacs(S, N))
<1> DEFINE macs == {S.nicToMac[k] : k \in N} \ {NoMac}
           nicToMac == [k \in Nics |-> IF k \in N THEN NoMac ELSE S.nicToMac[k]]
           macToPod == [m \in Macs |-> IF m \in macs THEN NoPod ELSE S.macToPod[m]]
           T == [S EXCEPT !.macToPod = macToPod, !.nicToMac = nicToMac]
<1>1. nicToMac \in [Nics -> Macs \cup {NoMac}] /\ macToPod \in [Macs -> Pods \cup {NoPod}]
  BY MapTypes
<1>2. DropMacs(S, N) = [S EXCEPT !.nicToMac = nicToMac, !.macToPod = macToPod]
  BY DEF DropMacs
<1> HIDE DEF nicToMac, macToPod
<1>3. DropMacs(S, N) = T
  BY <1>2, Zenon DEF SubnetInv, SubnetType
<1>4. SameAddresses(S, T)
  BY <1>1, MacsChanged, Zenon
<1> HIDE DEF T
<1> QED
  BY <1>3, <1>4

\* releaseV4Addr and releaseV6Addr.
LEMMA releaseFamAddrInv ==
    ASSUME NEW S, SubnetInv(S), NEW f \in Families, NEW pod \in Pods, NEW N \in SUBSET Nics
    PROVE  LET T == releaseFamAddr(S, f, pod, N)
           IN  /\ SubnetInv(T) /\ T.pools = S.pools
               /\ \A p \in AllPools : T.fam[f].pool[p].ips = S.fam[f].pool[p].ips
<1> DEFINE F == S.fam[f]
           G == ReleaseFamily(F, pod, N)
           bare == {n \in SoleHolders(F, N) : S.fam[Other(f)].nicToIP[n] = NoIP}
           T1 == WithFamily(S, f, G)
<1>1. FamilyInv(F) /\ \A p \in AllPools \ S.pools : F.pool[p] = EmptyPool
  BY DEF SubnetInv
<1> HIDE DEF F
<1>2. /\ FamilyInv(G)
      /\ \A p \in AllPools : G.pool[p].ips = F.pool[p].ips
      /\ \A p \in AllPools \ S.pools : G.pool[p] = EmptyPool
  BY <1>1, ReleaseFamilyInv
<1> HIDE DEF G
<1>3. SubnetInv(T1) /\ T1.pools = S.pools /\ T1.fam[f] = G
  BY <1>2, WithFamilyInv
<1> HIDE DEF T1
<1>4. bare \in SUBSET Nics
  BY DEF SoleHolders
<1>5. releaseFamAddr(S, f, pod, N) = DropMacs(T1, bare)
  BY DEF releaseFamAddr, F, G, T1
<1> HIDE DEF bare
<1>6. SameAddresses(T1, DropMacs(T1, bare))
  BY <1>3, <1>4, DropMacsSame
<1> QED
  BY <1>2, <1>3, <1>5, <1>6, Zenon DEF F, SameAddresses

\* Subnet.ReleaseAddress and ReleaseAddressWithNicName.
LEMMA ReleaseNicsInv ==
    ASSUME NEW S, SubnetInv(S), NEW pod \in Pods, NEW N \in SUBSET Nics
    PROVE  SubnetInv(ReleaseNics(S, pod, N))
<1> DEFINE R == releaseFamAddr(releaseFamAddr(S, "v4", pod, N), "v6", pod, N)
           bare == {n \in N : ~HasIP(R, n)}
<1>1. SubnetInv(R)
  BY releaseFamAddrInv DEF Families
<1> HIDE DEF R
<1>2. SubnetInv(DropMacs(R, bare))
  BY <1>1, DropMacsSame DEF SameAddresses
<1>3. SubnetInv(popPodNics(DropMacs(R, bare), pod, N))
  BY <1>2, popPodNicsSame DEF SameAddresses
<1> QED
  BY <1>3 DEF ReleaseNics, releaseAddr, R

-----------------------------------------------------------------------------
(* Random allocation.                                                       *)

\* The mac argument of a call and the MAC it draws if it has to.
MacArg(mac, m) == mac \in Macs \cup {NoMac, Nil} /\ (mac \in {Nil, NoMac} => m \in Macs)

\* getV4RandomAddress and getV6RandomAddress past the cached address, the
\* release after a MAC conflict included.
LEMMA AllocateRandomInv ==
    ASSUME NEW S, SubnetInv(S), NEW f \in Families, NEW p \in AllPools, NEW n \in Nics,
           NEW mac, NEW m, MacArg(mac, m), NEW skip \in SUBSET Addr, NEW check
    PROVE  SubnetInv(AllocateRandom(S, f, p, n, mac, skip, check, m).s)
<1> DEFINE F == S.fam[f]
           P == RefillFree(F.pool[p])
           refilled == WithFamily(S, f, [F EXCEPT !.pool = [F.pool EXCEPT ![p] = P]])
           ip == Lowest(P.free \ skip)
           L == Lease(F, p, n, ip, P.free \ {ip}, P.released)
           leased == pushPodNic(WithFamily(S, f, L), n)
           undone == popPodNics(releaseFamAddr(leased, f, PodOf[n], {n}), PodOf[n], {n})
<1>1. /\ FamilyInv(F) /\ F \in Family
      /\ \A q \in AllPools \ S.pools : F.pool[q] = EmptyPool
      /\ PodOf[n] \in Pods
  BY ConstantsAssumption, Zenon DEF SubnetInv, FamilyInv
<1> HIDE DEF F
<1>2. /\ P \in Pool /\ P.ips = F.pool[p].ips /\ P.available = F.pool[p].available
      /\ P.reserved = F.pool[p].reserved /\ P.using = F.pool[p].using
      /\ P.free \cup P.released = P.available /\ P.free \cap P.released = {}
  <2>1. FamilyInv(F)
    BY <1>1, Zenon
  <2>2. Refilled(F.pool[p], P)
    BY <2>1, RefillFreeLists, Zenon
  <2> HIDE DEF P
  <2> QED
    BY <2>2 DEF Refilled
<1>3. P.free \in SUBSET Addr /\ P.released \in SUBSET Addr
  BY <1>2, Zenon DEF Pool
<1> HIDE DEF P
<1>4. CASE p \notin S.pools
  BY <1>4 DEF AllocateRandom, Result
<1>5. ASSUME p \in S.pools PROVE SubnetInv(refilled)
  <2> DEFINE G == WithPool(F, p, P)
  <2>1. FamilyInv(G)
    BY <1>1, <1>2, WithPoolInv, Zenon
  <2>2. \A q \in AllPools \ S.pools : G.pool[q] = EmptyPool
    BY <1>1, <1>5 DEF WithPool, Family
  <2>3. refilled = WithFamily(S, f, G)
    BY DEF WithPool
  <2> HIDE DEF G, refilled
  <2> QED
    BY <2>1, <2>2, <2>3, WithFamilyInv
<1>6. ASSUME p \in S.pools, ~(P.free \subseteq skip)
      PROVE  SubnetInv(leased)
  <2>1. ip \in P.free \ skip
    BY <1>3, <1>6, LowestIn
  <2> HIDE DEF ip
  <2>2. ip \in F.pool[p].ips /\ ip \in F.pool[p].available /\ ip \notin F.using /\ ip \in Addr
    <3>1. AccountedPool(F, F.pool[p])
      BY <1>1, Zenon DEF FamilyInv, PartitionedFamily
    <3>2. ip \in F.pool[p].available /\ ip \in Addr
      BY <1>2, <1>3, <2>1
    <3> QED
      BY <3>1, <3>2 DEF AccountedPool
  <2>3. \A k \in Nics : F.nicToIP[k] # ip
    BY <1>1, <2>2, ConstantsAssumption, Zenon DEF FamilyInv, HeldFamily
  <2>4. /\ (P.free \ {ip}) \cup P.released = F.pool[p].available \ {ip}
        /\ (P.free \ {ip}) \cap P.released = {}
    BY <1>2, <2>1, Zenon
  <2>5. FamilyInv(L)
    BY <1>1, <1>3, <2>2, <2>3, <2>4, LeaseInv, Zenon
  <2>6. \A q \in AllPools \ S.pools : L.pool[q] = EmptyPool
    BY <1>1, <1>6 DEF Lease, Family
  <2> HIDE DEF L
  <2>7. SubnetInv(WithFamily(S, f, L))
    BY <2>5, <2>6, WithFamilyInv, Zenon
  <2> QED
    BY <2>7, pushPodNicSame DEF SameAddresses
<1>7. AllocateRandom(S, f, p, n, mac, skip, check, m).s =
         IF p \notin S.pools THEN S
         ELSE IF P.free \subseteq skip THEN refilled
         ELSE IF mac = Nil THEN GetRandomMac(leased, n, m)
         ELSE IF MacRefused(leased, n, mac, check) THEN undone
         ELSE GetStaticMac(leased, n, mac)
  <2> HIDE DEF refilled, leased, undone
  <2> QED
    BY Zenon DEF AllocateRandom, Result, F, P, refilled, leased, undone
<1> HIDE DEF leased, refilled
<1>8. ASSUME SubnetInv(leased)
      PROVE  /\ mac = Nil => SubnetInv(GetRandomMac(leased, n, m))
             /\ mac # Nil => SubnetInv(GetStaticMac(leased, n, mac))
             /\ SubnetInv(undone)
  <2>1. mac = Nil => SubnetInv(GetRandomMac(leased, n, m))
    BY <1>8, GetRandomMacSame DEF MacArg, SameAddresses
  <2>2. mac # Nil => SubnetInv(GetStaticMac(leased, n, mac))
    BY <1>8, GetStaticMacSame DEF MacArg, SameAddresses
  <2>3. SubnetInv(releaseFamAddr(leased, f, PodOf[n], {n}))
    BY <1>1, <1>8, releaseFamAddrInv, Zenon
  <2>4. SubnetInv(undone)
    BY <1>1, <2>3, popPodNicsSame, Zenon DEF SameAddresses
  <2> QED
    BY <2>1, <2>2, <2>4, Zenon
<1> HIDE DEF undone
<1> QED
  BY <1>4, <1>5, <1>6, <1>7, <1>8, Zenon

\* getV4RandomAddress and getV6RandomAddress.
LEMMA getRandomFamInv ==
    ASSUME NEW S, SubnetInv(S), NEW f \in Families, NEW p \in AllPools, NEW n \in Nics,
           NEW mac, NEW m, MacArg(mac, m), NEW skip \in SUBSET Addr, NEW check
    PROVE  SubnetInv(getRandomFam(S, f, p, n, mac, skip, check, m).s)
<1> DEFINE R == releaseFamAddr(S, f, PodOf[n], {n})
<1>1. SubnetInv(R)
  BY releaseFamAddrInv, MapTypes, Zenon
<1> HIDE DEF R
<1>2. /\ SubnetInv(AllocateRandom(S, f, p, n, mac, skip, check, m).s)
      /\ SubnetInv(AllocateRandom(R, f, p, n, mac, skip, check, m).s)
  BY <1>1, AllocateRandomInv
<1> QED
  BY <1>2, Zenon DEF getRandomFam, Result, R

\* getMacOnlyAddress.
LEMMA getMacOnlyAddressInv ==
    ASSUME NEW S, SubnetInv(S), NEW n \in Nics, NEW mac, NEW m, MacArg(mac, m), NEW check
    PROVE  SubnetInv(getMacOnlyAddress(S, n, mac, check, m).s)
<1>1. mac \in {Nil, NoMac} => SubnetInv(GetRandomMac(S, n, m))
  BY GetRandomMacSame DEF MacArg, SameAddresses
<1>2. mac \notin {Nil, NoMac} => SubnetInv(GetStaticMac(S, n, mac))
  BY GetStaticMacSame DEF MacArg, SameAddresses
<1> QED
  BY <1>1, <1>2 DEF getMacOnlyAddress, Results

\* getDualRandomAddress, the undoing of its IPv4 half included.
LEMMA getDualRandomAddressInv ==
    ASSUME NEW S, SubnetInv(S), NEW p \in AllPools, NEW n \in Nics,
           NEW mac, NEW m, MacArg(mac, m),
           NEW skip \in [Families -> SUBSET Addr], NEW check
    PROVE  SubnetInv(getDualRandomAddress(S, p, n, mac, skip, check, m).s)
<1> DEFINE existing == S.fam["v4"].nicToIP[n]
           R4 == getRandomFam(S, "v4", p, n, mac, skip["v4"], check, m)
           R6 == getRandomFam(R4.s, "v6", p, n, mac, skip["v6"], check, m)
           again == getRandomFam(R6.s, "v4", p, n, mac, skip["v4"], check, m)
           undone == UndoV4(R6.s, n, existing, R4.ip)
<1>1. /\ "v4" \in Families /\ "v6" \in Families
      /\ skip["v4"] \in SUBSET Addr /\ skip["v6"] \in SUBSET Addr
  BY DEF Families
<1>2. SubnetInv(R4.s)
  BY <1>1, getRandomFamInv
<1> HIDE DEF R4
<1>3. SubnetInv(R6.s)
  BY <1>1, <1>2, getRandomFamInv, Zenon
<1> HIDE DEF R6
<1>4. SubnetInv(again.s)
  BY <1>1, <1>3, getRandomFamInv, Zenon
<1>5. SubnetInv(undone)
  <2> DEFINE rel == releaseFamAddr(R6.s, "v4", PodOf[n], {n})
  <2>1. SubnetInv(rel) /\ PodOf[n] \in Pods
    BY <1>1, <1>3, releaseFamAddrInv, MapTypes, Zenon
  <2> HIDE DEF rel
  <2>2. SubnetInv(popPodNics(rel, PodOf[n], {n}))
    BY <2>1, popPodNicsSame DEF SameAddresses
  <2> QED
    BY <1>3, <2>2 DEF UndoV4, rel
<1> HIDE DEF again, undone
<1>6. getDualRandomAddress(S, p, n, mac, skip, check, m).s \in {R4.s, undone, again.s, R6.s}
  BY Zenon DEF getDualRandomAddress, Results, R4, R6, again, undone
<1> QED
  BY <1>2, <1>3, <1>4, <1>5, <1>6, Zenon

\* Subnet.GetRandomAddressWithFamily.
LEMMA GetRandomAddressInv ==
    ASSUME NEW S, SubnetInv(S), NEW p \in AllPools, NEW n \in Nics,
           NEW mac, NEW m, MacArg(mac, m), NEW want \in Wants,
           NEW skip \in [Families -> SUBSET Addr], NEW check
    PROVE  SubnetInv(GetRandomAddressWithFamily(S, p, n, mac, want, skip, check, m).s)
<1> DEFINE f == CHOOSE g \in S.protocol \cap want : TRUE
           R0 == getMacOnlyAddress(S, n, mac, check, m)
           R1 == Results(S, "ErrInvalidIPFamily", NoIP, NoIP)
           R2 == getDualRandomAddress(S, p, n, mac, skip, check, m)
           R3 == OneFamily(f, getRandomFam(S, f, p, n, mac, skip[f], check, m))
           R == CASE S.protocol = {} -> R0
                  [] S.protocol \notin {{}, Families, want} /\ want # Families -> R1
                  [] S.protocol = Families /\ want = Families -> R2
                  [] OTHER -> R3
<1>1. SubnetInv(R0.s) /\ SubnetInv(R1.s) /\ SubnetInv(R2.s)
  BY getMacOnlyAddressInv, getDualRandomAddressInv, Zenon DEF Results
<1>2. f \in Families => SubnetInv(R3.s)
  <2> HIDE DEF f
  <2>1. f \in Families => SubnetInv(getRandomFam(S, f, p, n, mac, skip[f], check, m).s)
    BY getRandomFamInv
  <2> QED
    BY <2>1, Zenon DEF OneFamily, Results
<1>3. S.protocol \in SUBSET {"v4", "v6"} /\ want \in {{"v4", "v6"}, {"v4"}, {"v6"}}
  BY DEF SubnetInv, SubnetType, Wants, Families
<1>4. R \in {R0, R1, R2} \/ (R = R3 /\ f \in Families)
  <2> HIDE DEF R0, R1, R2, R3
  <2>1. ASSUME S.protocol # {},
               ~(S.protocol \notin {{}, Families, want} /\ want # Families),
               ~(S.protocol = Families /\ want = Families)
        PROVE  f \in Families
    <3>1. \E g \in Families : g \in S.protocol \cap want
      BY <1>3, <2>1 DEF Families
    <3>2. f \in S.protocol
      BY <3>1
    <3> QED
      BY <1>3, <3>2 DEF Families
  <2> HIDE DEF f
  <2>2. \/ S.protocol = {} /\ R = R0
        \/ S.protocol \notin {{}, Families, want} /\ want # Families /\ R = R1
        \/ S.protocol = Families /\ want = Families /\ R = R2
        \/ /\ S.protocol # {}
           /\ ~(S.protocol \notin {{}, Families, want} /\ want # Families)
           /\ ~(S.protocol = Families /\ want = Families)
           /\ R = R3
    <3>1. Families # {}
      BY DEF Families
    <3> QED
      BY <3>1
  <2> QED
    BY <2>1, <2>2
<1>5. SubnetInv(R.s)
  <2> HIDE DEF R0, R1, R2, R3, R, f
  <2> QED
    BY <1>1, <1>2, <1>4
<1>6. GetRandomAddressWithFamily(S, p, n, mac, want, skip, check, m).s = pushPodNic(R.s, n)
  <2>1. GetRandomAddressWithFamily(S, p, n, mac, want, skip, check, m)
           = [R EXCEPT !.s = pushPodNic(R.s, n)]
    BY DEF GetRandomAddressWithFamily
  <2> QED
    BY <2>1
<1> HIDE DEF R
<1> QED
  BY <1>5, <1>6, pushPodNicSame, Zenon DEF SameAddresses

-----------------------------------------------------------------------------
(* Static allocation, with the conflict check.                              *)

\* allocateStaticAddress with markStaticAddressAllocated, for the pool that has
\* the address.
LEMMA allocateStaticAddressInv ==
    ASSUME NEW S, SubnetInv(S), NEW f \in Families, NEW p \in S.pools, NEW n \in Nics,
           NEW ip \in S.fam[f].pool[p].ips
    PROVE  SubnetInv(allocateStaticAddress(S, f, p, n, ip, TRUE).s)
<1> DEFINE F == S.fam[f]
           P == F.pool[p]
           owners == F.ipToPod[ip]
           L(free, released) == Lease(F, p, n, ip, free, released)
<1>1. /\ FamilyInv(F) /\ F \in Family /\ p \in AllPools
      /\ \A q \in AllPools \ S.pools : F.pool[q] = EmptyPool
  BY MapTypes, Zenon DEF SubnetInv, FamilyInv
<1>2. P \in Pool /\ AccountedPool(F, P)
  BY <1>1, Zenon DEF Family, FamilyInv, PartitionedFamily
<1>3. ip \in Addr /\ P.free \in SUBSET Addr /\ P.released \in SUBSET Addr
  BY <1>2, Zenon DEF Pool
<1> HIDE DEF F
<1>4. ASSUME owners = {},
             NEW free \in SUBSET Addr, NEW released \in SUBSET Addr,
             ip \in P.available \cup F.reserved,
             free \cup released = P.available \ {ip}, free \cap released = {}
      PROVE  SubnetInv(WithFamily(S, f, L(free, released)))
  <2>1. \A k \in Nics : F.nicToIP[k] # ip
    <3>1. ExclusiveFamily(F)
      BY <1>1, Zenon DEF FamilyInv
    <3> QED
      BY <1>3, <1>4, <3>1, ConstantsAssumption DEF ExclusiveFamily
  <2>2. ip \in F.pool[p].ips
    BY DEF F
  <2>3. FamilyInv(L(free, released))
    BY <1>1, <1>3, <1>4, <2>1, <2>2, LeaseInv, Zenon
  <2>4. \A q \in AllPools \ S.pools : L(free, released).pool[q] = EmptyPool
    BY <1>1 DEF Lease, Family
  <2> HIDE DEF L
  <2> QED
    BY <2>3, <2>4, WithFamilyInv, Zenon
<1>5. /\ P.available \cap F.reserved = {} /\ P.reserved \subseteq F.reserved
      /\ P.free \cup P.released = P.available /\ P.free \cap P.released = {}
  BY <1>2, Zenon DEF AccountedPool
<1>6. owners = {} /\ ip \in P.reserved => SubnetInv(WithFamily(S, f, L(P.free, P.released)))
  <2> HIDE DEF P, owners, L
  <2> SUFFICES ASSUME owners = {}, ip \in P.reserved
               PROVE  SubnetInv(WithFamily(S, f, L(P.free, P.released)))
    OBVIOUS
  <2>1. ip \in P.available \cup F.reserved /\ P.free \cup P.released = P.available \ {ip}
    BY <1>5
  <2> QED
    BY <1>3, <1>4, <1>5, <2>1, Zenon
<1>7. owners = {} /\ ip \in P.free => SubnetInv(WithFamily(S, f, L(P.free \ {ip}, P.released)))
  <2> HIDE DEF P, owners, L
  <2> SUFFICES ASSUME owners = {}, ip \in P.free
               PROVE  SubnetInv(WithFamily(S, f, L(P.free \ {ip}, P.released)))
    BY Zenon
  <2>1. /\ ip \in P.available \cup F.reserved
        /\ (P.free \ {ip}) \cup P.released = P.available \ {ip}
        /\ (P.free \ {ip}) \cap P.released = {}
        /\ P.free \ {ip} \in SUBSET Addr
    BY <1>3, <1>5
  <2> QED
    BY <1>3, <1>4, <2>1, Zenon
<1>8. owners = {} /\ ip \in P.released => SubnetInv(WithFamily(S, f, L(P.free, P.released \ {ip})))
  <2> HIDE DEF P, owners, L
  <2> SUFFICES ASSUME owners = {}, ip \in P.released
               PROVE  SubnetInv(WithFamily(S, f, L(P.free, P.released \ {ip})))
    OBVIOUS
  <2>1. /\ ip \in P.available \cup F.reserved
        /\ P.free \cup (P.released \ {ip}) = P.available \ {ip}
        /\ P.free \cap (P.released \ {ip}) = {}
        /\ P.released \ {ip} \in SUBSET Addr
    BY <1>3, <1>5
  <2> QED
    BY <1>3, <1>4, <2>1, Zenon
<1>9. LET T == allocateStaticAddress(S, f, p, n, ip, TRUE).s
      IN  \/ T = S
          \/ owners = {} /\ ip \in P.reserved /\ T = WithFamily(S, f, L(P.free, P.released))
          \/ owners = {} /\ ip \in P.free /\ T = WithFamily(S, f, L(P.free \ {ip}, P.released))
          \/ owners = {} /\ ip \in P.released /\ T = WithFamily(S, f, L(P.free, P.released \ {ip}))
  BY Zenon DEF allocateStaticAddress, TakenByOther, Done, F
<1> HIDE DEF P, owners, L
<1> QED
  BY <1>6, <1>7, <1>8, <1>9, Zenon

\* Subnet.GetStaticAddress.
LEMMA GetStaticFamInv ==
    ASSUME NEW S, SubnetInv(S), NEW f \in Families, NEW n \in Nics, NEW ip,
           NEW mac, NEW m, MacArg(mac, m)
    PROVE  SubnetInv(GetStaticFam(S, f, n, ip, mac, TRUE, m).s)
<1> DEFINE refusal == StaticRefusal(S, f, ip, TRUE)
           p == CHOOSE q \in S.pools : ip \in S.fam[f].pool[q].ips
           rel == releaseFamAddr(S, f, PodOf[n], {n})
           S1 == IF S.fam[f].nicToIP[n] \notin {NoIP, ip} THEN rel ELSE S
           S2 == IF mac = Nil THEN GetRandomMac(S1, n, m) ELSE GetStaticMac(S1, n, mac)
           R == IF mac # Nil /\ MacRefused(S1, n, mac, TRUE)
                THEN Done(S1, "ErrConflict")
                ELSE allocateStaticAddress(S2, f, p, n, ip, TRUE)
<1>1. CASE refusal # ""
  BY <1>1, Zenon DEF GetStaticFam, Done
<1>2. CASE refusal = ""
  <2>1. p \in S.pools /\ ip \in S.fam[f].pool[p].ips
    <3>1. \E q \in S.pools : ip \in S.fam[f].pool[q].ips
      BY <1>2 DEF StaticRefusal
    <3> QED
      BY <3>1, Zenon
  <2> HIDE DEF p
  <2>2. p \in AllPools
    BY <2>1, MapTypes
  <2>3. /\ SubnetInv(rel) /\ rel.pools = S.pools
        /\ \A q \in AllPools : rel.fam[f].pool[q].ips = S.fam[f].pool[q].ips
    <3>1. PodOf[n] \in Pods /\ {n} \in SUBSET Nics
      BY MapTypes
    <3> QED
      BY <3>1, releaseFamAddrInv, Zenon
  <2> HIDE DEF rel
  <2>4. SubnetInv(S1) /\ p \in S1.pools /\ ip \in S1.fam[f].pool[p].ips
    BY <2>1, <2>2, <2>3, Zenon
  <2> HIDE DEF S1
  <2>5. SameAddresses(S1, S2)
    BY <2>4, GetRandomMacSame, GetStaticMacSame, Zenon DEF MacArg
  <2>6. SubnetInv(S2) /\ p \in S2.pools /\ ip \in S2.fam[f].pool[p].ips
    BY <2>4, <2>5, Zenon DEF SameAddresses
  <2> HIDE DEF S2
  <2>7. SubnetInv(allocateStaticAddress(S2, f, p, n, ip, TRUE).s)
    BY <2>6, allocateStaticAddressInv, Zenon
  <2>8. SubnetInv(R.s)
    BY <2>4, <2>7, Zenon DEF Done
  <2>9. GetStaticFam(S, f, n, ip, mac, TRUE, m).s = pushPodNic(R.s, n)
    BY <1>2, Zenon DEF GetStaticFam, Done, p, rel, S1, S2
  <2> HIDE DEF R
  <2> QED
    BY <2>8, <2>9, pushPodNicSame, Zenon DEF SameAddresses
<1> QED
  BY <1>1, <1>2, Zenon

\* The family checkAndAppendIpsForDual adds is a family.
LEMMA OtherFamily == \A f \in Families : Other(f) \in Families
BY DEF Other, Families

\* IPAM.GetStaticAddressWithFamily.
LEMMA GetStaticAddressInv ==
    ASSUME NEW S, SubnetInv(S), NEW n \in Nics, NEW mac, NEW m, MacArg(mac, m),
           NEW ips \in [Families -> Addr \cup {NoIP}], ips # Nothing, NEW want
    PROVE  SubnetInv(GetStaticAddressWithFamily(S, n, ips, mac, want, TRUE, m).s)
<1>1. ASSUME NEW f \in Families
      PROVE  SubnetInv(StaticOne(S, f, n, ips[f], mac, want, TRUE, m).s)
  <2> DEFINE R == GetStaticFam(S, f, n, ips[f], mac, TRUE, m)
             macStr == IF mac = Nil THEN R.s.nicToMac[n] ELSE mac
             R2 == getRandomFam(R.s, Other(f), Default, n, macStr, {}, TRUE, m)
  <2>1. SubnetInv(R.s)
    BY GetStaticFamInv, Zenon
  <2> HIDE DEF R
  <2>2. MacArg(macStr, m)
    <3>1. R.s.nicToMac \in [Nics -> Macs \cup {NoMac}]
      BY <2>1, MapTypes, Zenon
    <3> HIDE DEF R
    <3> QED
      BY <3>1 DEF MacArg
  <2> HIDE DEF macStr
  <2>3. SubnetInv(R2.s)
    BY <2>1, <2>2, OtherFamily, getRandomFamInv, Zenon DEF AllPools
  <2> HIDE DEF R2
  <2>4. StaticOne(S, f, n, ips[f], mac, want, TRUE, m).s \in {R.s, R2.s}
    BY Zenon DEF StaticOne, Done, R, macStr, R2
  <2> QED
    BY <2>1, <2>3, <2>4, Zenon
<1>2. SubnetInv(StaticTwo(S, n, ips, mac, TRUE, m).s)
  <2> DEFINE R4 == GetStaticFam(S, "v4", n, ips["v4"], mac, TRUE, m)
             R6 == GetStaticFam(R4.s, "v6", n, ips["v6"], mac, TRUE, m)
             rel == ReleaseNics(R6.s, PodOf[n], {n})
  <2>1. "v4" \in Families /\ "v6" \in Families /\ PodOf[n] \in Pods
    BY MapTypes DEF Families
  <2>2. SubnetInv(R4.s)
    BY <2>1, GetStaticFamInv, Zenon
  <2> HIDE DEF R4
  <2>3. SubnetInv(R6.s)
    BY <2>1, <2>2, GetStaticFamInv, Zenon
  <2> HIDE DEF R6
  <2>4. SubnetInv(rel)
    BY <2>1, <2>3, ReleaseNicsInv
  <2> HIDE DEF rel
  <2>5. StaticTwo(S, n, ips, mac, TRUE, m).s \in {R4.s, R6.s, rel}
    BY Zenon DEF StaticTwo, Done, R4, R6, rel
  <2> QED
    BY <2>2, <2>3, <2>4, <2>5, Zenon
<1>3. \E f \in Families : f \in {g \in Families : ips[g] # NoIP}
  BY DEF Nothing
<1>4. LET f == CHOOSE g \in {h \in Families : ips[h] # NoIP} : TRUE
      IN  f \in Families
  BY <1>3
<1> QED
  BY <1>1, <1>2, <1>4, Zenon DEF GetStaticAddressWithFamily, Done

-----------------------------------------------------------------------------
(* Reconfiguration.                                                         *)

\* What is assumed of a subnet's configuration.
LEMMA ConfigFacts ==
    ASSUME NEW cfg \in [Families -> FamilyConfig],
           \A f \in Families : cfg[f].ips \subseteq cfg[f].cidr
    PROVE  ProtocolOf(cfg) \in SUBSET Families
BY DEF ProtocolOf

\* NewSubnet and NewMacOnlySubnet.
LEMMA NewSubnetInv ==
    ASSUME NEW cfg \in [Families -> FamilyConfig],
           \A f \in Families : cfg[f].ips \subseteq cfg[f].cidr
    PROVE  SubnetInv(NewSubnet(cfg))
<1> DEFINE fam == [f \in Families |-> NewFamily(cfg[f])]
           nicToMac == [n \in Nics |-> NoMac]
           macToPod == [m \in Macs |-> NoPod]
           podNics == [p \in Pods |-> {}]
           T == [protocol |-> ProtocolOf(cfg), fam |-> fam, pools |-> {Default},
                 nicToMac |-> nicToMac, macToPod |-> macToPod, podNics |-> podNics,
                 gatewayMAC |-> NoMac]
<1>1. NewSubnet(cfg) = T
  BY Zenon DEF NewSubnet
<1>2. ASSUME NEW f \in Families
      PROVE  /\ FamilyInv(fam[f])
             /\ \A p \in PoolNames : fam[f].pool[p] = EmptyPool
  BY NewFamilyInv
<1>3. fam \in [Families -> Family]
  BY <1>2, Zenon DEF FamilyInv
<1>4. /\ nicToMac \in [Nics -> Macs \cup {NoMac}]
      /\ macToPod \in [Macs -> Pods \cup {NoPod}]
      /\ podNics \in [Pods -> SUBSET Nics]
  OBVIOUS
<1> HIDE DEF fam, nicToMac, macToPod, podNics
<1>5. T \in SubnetType
  BY <1>3, <1>4, ConfigFacts, Zenon DEF SubnetType, AllPools
<1>6. T.fam = fam /\ T.pools = {Default}
  BY Zenon
<1> HIDE DEF T
<1>7. AllPools \ {Default} \subseteq PoolNames
  BY DEF AllPools
<1> QED
  BY <1>1, <1>2, <1>5, <1>6, <1>7 DEF SubnetInv

\* The subnet before it is added and after DeleteSubnet.
LEMMA EmptySubnetInv == SubnetInv(NewSubnet([f \in Families |-> NoFamily]))
<1> DEFINE none == [f \in Families |-> NoFamily]
<1>1. NoFamily \in FamilyConfig /\ NoFamily.ips \subseteq NoFamily.cidr
  BY Zenon DEF NoFamily, FamilyConfig
<1>2. /\ none \in [Families -> FamilyConfig]
      /\ \A f \in Families : none[f].ips \subseteq none[f].cidr
  BY <1>1
<1> QED
  BY <1>2, NewSubnetInv

\* AddOrUpdateSubnet on a subnet that exists.
LEMMA UpdateSubnetInv ==
    ASSUME NEW S, SubnetInv(S), NEW cfg \in [Families -> FamilyConfig],
           \A f \in Families : cfg[f].ips \subseteq cfg[f].cidr
    PROVE  SubnetInv(UpdateSubnet(S, cfg))
<1> DEFINE fam == [f \in Families |->
                     IF f \in ProtocolOf(cfg) /\ ~SameConfig(S.fam[f], cfg[f])
                     THEN UpdateFamily(S.fam[f], cfg[f])
                     ELSE S.fam[f]]
           T == [S EXCEPT !.protocol = ProtocolOf(cfg), !.fam = fam]
<1>1. /\ S \in SubnetType /\ Default \in S.pools
      /\ AllPools \ S.pools \subseteq PoolNames
  BY DEF SubnetInv, AllPools
<1>2. ASSUME NEW f \in Families
      PROVE  /\ FamilyInv(fam[f])
             /\ \A p \in AllPools \ S.pools : fam[f].pool[p] = EmptyPool
  <2>1. /\ FamilyInv(S.fam[f])
        /\ \A p \in AllPools \ S.pools : S.fam[f].pool[p] = EmptyPool
    BY DEF SubnetInv
  <2>2. /\ FamilyInv(UpdateFamily(S.fam[f], cfg[f]))
        /\ \A p \in AllPools \ S.pools :
             UpdateFamily(S.fam[f], cfg[f]).pool[p] = EmptyPool
    <3>1. cfg[f] \in FamilyConfig /\ cfg[f].ips \subseteq cfg[f].cidr
      BY Zenon
    <3>2. /\ FamilyInv(UpdateFamily(S.fam[f], cfg[f]))
          /\ \A p \in PoolNames : S.fam[f].pool[p] = EmptyPool =>
               UpdateFamily(S.fam[f], cfg[f]).pool[p] = EmptyPool
      BY <2>1, <3>1, UpdateFamilyInv, Zenon
    <3> QED
      BY <1>1, <2>1, <3>2, Zenon
  <2> QED
    BY <2>1, <2>2, Zenon
<1>3. fam \in [Families -> Family]
  <2>1. \A f \in Families : fam[f] \in Family
    BY <1>2, Zenon DEF FamilyInv
  <2> QED
    BY <2>1
<1> HIDE DEF fam
<1>4. T \in SubnetType /\ T.fam = fam /\ T.pools = S.pools
  BY <1>1, <1>3, ConfigFacts, Zenon DEF SubnetType
<1> HIDE DEF T
<1>5. SubnetInv(T)
  BY <1>1, <1>2, <1>4, Zenon DEF SubnetInv
<1>6. SubnetInv(DropMacs(T, {n \in Nics : ~HasIP(T, n)}))
  BY <1>5, DropMacsSame DEF SameAddresses
<1> QED
  BY <1>6, Zenon DEF UpdateSubnet, T, fam

\* A subnet whose families are replaced, with a changed set of pools.
LEMMA WithPoolsInv ==
    ASSUME NEW S, SubnetInv(S), NEW pools \in SUBSET AllPools, Default \in pools,
           NEW fam \in [Families -> Family],
           \A f \in Families : FamilyInv(fam[f]),
           \A f \in Families, p \in AllPools \ pools : fam[f].pool[p] = EmptyPool
    PROVE  SubnetInv([S EXCEPT !.pools = pools, !.fam = fam])
<1> DEFINE T == [S EXCEPT !.pools = pools, !.fam = fam]
<1>1. T \in SubnetType /\ T.fam = fam /\ T.pools = pools
  BY Zenon DEF SubnetInv, SubnetType
<1> HIDE DEF T
<1>2. SubnetInv(T)
  BY <1>1 DEF SubnetInv
<1> QED
  BY <1>2 DEF T

\* AddOrUpdateIPPool, when the new pool overlaps no other named one.
LEMMA SubnetAddPoolInv ==
    ASSUME NEW S, SubnetInv(S), NEW name \in PoolNames,
           NEW ips \in [Families -> SUBSET Addr], ~PoolConflict(S, name, ips)
    PROVE  SubnetInv(SubnetAddPool(S, name, ips))
<1> DEFINE fam == [f \in Families |-> FamilyAddPool(S.fam[f], name, ips[f])]
           pools == S.pools \cup {name}
<1>1. pools \in SUBSET AllPools /\ Default \in pools
  BY MapTypes, Zenon DEF SubnetInv, AllPools
<1>2. ASSUME NEW f \in Families
      PROVE  /\ FamilyInv(fam[f])
             /\ \A p \in AllPools \ pools : fam[f].pool[p] = EmptyPool
  <2> DEFINE F == S.fam[f]
  <2>1. /\ FamilyInv(F) /\ F \in Family
        /\ \A p \in AllPools \ S.pools : F.pool[p] = EmptyPool
    BY Zenon DEF SubnetInv, FamilyInv
  <2>2. ASSUME F.cidr # {}, NEW q \in PoolNames, q # name
        PROVE  ips[f] \cap F.pool[q].ips = {}
    <3>1. CASE q \in S.pools
      BY <2>2, <3>1, ConstantsAssumption, Zenon DEF PoolConflict
    <3>2. CASE q \notin S.pools
      <4>1. F.pool[q] = EmptyPool
        BY <2>1, <3>2, Zenon DEF AllPools
      <4>2. EmptyPool.ips = {}
        BY DEF EmptyPool
      <4> QED
        BY <4>1, <4>2
    <3> QED
      BY <3>1, <3>2
  <2> HIDE DEF F
  <2>3. FamilyInv(FamilyAddPool(F, name, ips[f]))
    BY <2>1, <2>2, FamilyAddPoolInv, Zenon
  <2>4. \A p \in AllPools \ pools : FamilyAddPool(F, name, ips[f]).pool[p] = F.pool[p]
    BY <1>1, <2>1 DEF FamilyAddPool, Family
  <2> QED
    BY <2>1, <2>3, <2>4, Zenon DEF F
<1>3. fam \in [Families -> Family]
  BY <1>2, Zenon DEF FamilyInv
<1>4. SubnetAddPool(S, name, ips) = [S EXCEPT !.pools = pools, !.fam = fam]
  BY DEF SubnetAddPool
<1> HIDE DEF fam, pools
<1>5. /\ \A f \in Families : FamilyInv(fam[f])
      /\ \A f \in Families, p \in AllPools \ pools : fam[f].pool[p] = EmptyPool
  BY <1>2
<1>6. SubnetInv([S EXCEPT !.pools = pools, !.fam = fam])
  BY <1>1, <1>3, <1>5, WithPoolsInv, Zenon
<1> QED
  BY <1>4, <1>6

\* RemoveIPPool.
LEMMA SubnetRemovePoolInv ==
    ASSUME NEW S, SubnetInv(S), NEW name \in PoolNames
    PROVE  SubnetInv(SubnetRemovePool(S, name))
<1> DEFINE fam == [f \in Families |-> FamilyRemovePool(S.fam[f], name)]
           pools == S.pools \ {name}
<1>1. pools \in SUBSET AllPools /\ Default \in pools /\ name \in AllPools /\ name # Default
  BY MapTypes, ConstantsAssumption, Zenon DEF SubnetInv, AllPools
<1>2. ASSUME NEW f \in Families
      PROVE  /\ FamilyInv(fam[f])
             /\ \A p \in AllPools \ pools : fam[f].pool[p] = EmptyPool
  <2> DEFINE F == S.fam[f]
  <2>1. /\ FamilyInv(F) /\ F \in Family
        /\ \A p \in AllPools \ S.pools : F.pool[p] = EmptyPool
    BY Zenon DEF SubnetInv, FamilyInv
  <2> HIDE DEF F
  <2>2. FamilyInv(FamilyRemovePool(F, name))
    BY <2>1, FamilyRemovePoolInv
  <2>3. \A p \in AllPools \ pools :
          FamilyRemovePool(F, name).pool[p] = IF p = name THEN EmptyPool ELSE F.pool[p]
    BY <1>1, <2>1 DEF FamilyRemovePool, Family
  <2> QED
    BY <2>1, <2>2, <2>3, Zenon DEF F
<1>3. fam \in [Families -> Family]
  BY <1>2, Zenon DEF FamilyInv
<1>4. SubnetRemovePool(S, name) = [S EXCEPT !.pools = pools, !.fam = fam]
  BY DEF SubnetRemovePool
<1> HIDE DEF fam, pools
<1>5. /\ \A f \in Families : FamilyInv(fam[f])
      /\ \A f \in Families, p \in AllPools \ pools : fam[f].pool[p] = EmptyPool
  BY <1>2
<1>6. SubnetInv([S EXCEPT !.pools = pools, !.fam = fam])
  BY <1>1, <1>3, <1>5, WithPoolsInv, Zenon
<1> QED
  BY <1>4, <1>6

-----------------------------------------------------------------------------
(* The theorems.                                                            *)

\* Every operation of ipam.go preserves the invariant, if every caller asks for
\* the conflict check.  (Without it two pods may share an address, and the
\* release of one of them leaves the address of its NIC in the maps.)
LEMMA StepInv ==
    ASSUME CheckConflicts \subseteq {TRUE}, Inv, [Next]_vars
    PROVE  Inv'
<1> USE DEF Inv
<1>1. \A mac \in Macs \cup {NoMac, Nil} : \A m \in Draws(mac) : MacArg(mac, m)
  BY ConstantsAssumption, Zenon DEF Draws, FreshMacs, MacArg
<1>2. \A n \in Nics : MacRequests[n] \subseteq Macs \cup {NoMac, Nil}
  BY ConstantsAssumption
<1>3. ASSUME NEW n \in Nics, NEW want \in Wants, NEW check \in CheckConflicts,
             NEW mac \in MacRequests[n], NEW p \in AllPools, NEW skip \in SkipSets,
             GetRandomAddress(n, p, mac, want, skip, check)
      PROVE  Inv'
  <2>1. skip \in [Families -> SUBSET Addr]
    BY ConstantsAssumption
  <2>2. PICK m \in Draws(mac) :
           s' = GetRandomAddressWithFamily(s, p, n, mac, want, skip, check, m).s
    BY <1>3 DEF GetRandomAddress
  <2>3. SubnetInv(s')
    BY <1>1, <1>2, <2>1, <2>2, GetRandomAddressInv, Zenon
  <2> QED
    BY <1>3, <2>3 DEF GetRandomAddress
<1>4. ASSUME NEW n \in Nics, NEW want \in Wants, NEW check \in CheckConflicts,
             NEW mac \in MacRequests[n], NEW ips \in StaticRequests,
             GetStaticAddress(n, ips, mac, want, check)
      PROVE  Inv'
  <2>1. ips \in [Families -> Addr \cup {NoIP}] /\ ips # Nothing
    BY ConstantsAssumption
  <2>2. PICK m \in Draws(mac) :
           s' = GetStaticAddressWithFamily(s, n, ips, mac, want, TRUE, m).s
    BY <1>4, Zenon DEF GetStaticAddress
  <2>3. SubnetInv(s')
    BY <1>1, <1>2, <2>1, <2>2, GetStaticAddressInv, Zenon
  <2> QED
    BY <1>4, <2>3, Zenon DEF GetStaticAddress
<1>5. ASSUME NEW pod \in Pods, ReleaseAddressByPod(pod)
      PROVE  Inv'
  BY <1>5, ReleaseNicsInv, MapTypes DEF ReleaseAddressByPod
<1>6. ASSUME NEW n \in Nics, ReleaseAddressByNic(n)
      PROVE  Inv'
  BY <1>6, ReleaseNicsInv, MapTypes DEF ReleaseAddressByNic
<1>7. ASSUME NEW cfg \in SubnetConfigs, AddOrUpdateSubnet(cfg)
      PROVE  Inv'
  <2>1. /\ cfg \in [Families -> FamilyConfig]
        /\ \A f \in Families : cfg[f].ips \subseteq cfg[f].cidr
    BY ConfigsAssumption
  <2>2. SubnetInv(NewSubnet(cfg)) /\ SubnetInv(UpdateSubnet(s, cfg))
    BY <2>1, NewSubnetInv, UpdateSubnetInv, Zenon
  <2> QED
    BY <1>7, <2>2 DEF AddOrUpdateSubnet
<1>8. CASE DeleteSubnet
  BY <1>8, EmptySubnetInv, Zenon DEF DeleteSubnet
<1>9. ASSUME NEW name \in PoolNames, RemoveIPPool(name)
      PROVE  Inv'
  BY <1>9, SubnetRemovePoolInv DEF RemoveIPPool
<1>10. ASSUME NEW name \in PoolNames, NEW ips \in PoolConfigs, AddOrUpdateIPPool(name, ips)
       PROVE  Inv'
  <2>1. ips \in [Families -> SUBSET Addr]
    BY ConstantsAssumption
  <2> QED
    BY <1>10, <2>1, SubnetAddPoolInv DEF AddOrUpdateIPPool
<1>11. ASSUME NEW mac \in GatewayMacs, RecordGatewayMAC(mac)
       PROVE  Inv'
  <2> DEFINE T == [s EXCEPT !.gatewayMAC = mac]
  <2>1. T \in SubnetType /\ T.fam = s.fam /\ T.pools = s.pools
    BY ConstantsAssumption DEF SubnetInv, SubnetType
  <2> HIDE DEF T
  <2>2. SubnetInv(T)
    BY <2>1, SameFamilies
  <2> QED
    BY <1>11, <2>2 DEF RecordGatewayMAC, T
<1>12. CASE UNCHANGED vars
  BY <1>12 DEF vars
<1> QED
  BY <1>3, <1>4, <1>5, <1>6, <1>7, <1>8, <1>9, <1>10, <1>11, <1>12, Zenon DEF Next

\* The subnets of the address manager satisfy the invariant in every state.
THEOREM Invariance ==
    ASSUME CheckConflicts \subseteq {TRUE}
    PROVE  Spec => []Inv
<1>1. Init => Inv
  BY EmptySubnetInv, Zenon DEF Init, Inv
<1>2. Inv /\ [Next]_vars => Inv'
  BY StepInv, Zenon
<1> QED
  BY <1>1, <1>2, PTL DEF Spec

\* Every call leaves ipam.Subnets with well-formed lists and maps: in particular
\* each address and each pool that an operation looks up exists.
THEOREM TypeCorrect ==
    ASSUME CheckConflicts \subseteq {TRUE}
    PROVE  Spec => []TypeOK
<1>1. Inv => TypeOK
  BY DEF Inv, SubnetInv, TypeOK
<1> QED
  BY <1>1, Invariance, PTL

\* No sequence of random and static allocations, releases, changes of the subnet
\* and of its pools gives two NICs the same address or an address to two pods.
THEOREM Exclusive ==
    ASSUME CheckConflicts \subseteq {TRUE}
    PROVE  Spec => []ExclusiveLeases
<1>1. Inv => ExclusiveLeases
  BY DEF Inv, SubnetInv, FamilyInv, ExclusiveLeases
<1> QED
  BY <1>1, Invariance, PTL

\* Nor does it lose an address or make one available that is used or excluded:
\* neither in the subnet's lists ...
THEOREM Accounted ==
    ASSUME CheckConflicts \subseteq {TRUE}
    PROVE  Spec => []AddressesAccounted
<1>1. Inv => AddressesAccounted
  BY DEF Inv, SubnetInv, FamilyInv, AddressesAccounted
<1> QED
  BY <1>1, Invariance, PTL

\* ... nor in those of its pools, which divide its addresses among them.
THEOREM Partitioned ==
    ASSUME CheckConflicts \subseteq {TRUE}
    PROVE  Spec => []PoolsPartition
<1>1. Inv => PoolsPartition
  BY DEF Inv, SubnetInv, FamilyInv, PoolsPartition
<1> QED
  BY <1>1, Invariance, PTL

=============================================================================
