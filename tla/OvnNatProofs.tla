---------------------------- MODULE OvnNatProofs ----------------------------
(***************************************************************************)
(* Proofs about OvnNat: what a step does, the types it keeps and what it   *)
(* leaves alone; that a rule that is ready has its row; and, from the EIPs *)
(* that rules have used, that no two EIPs lease one address and that the   *)
(* address an EIP shows is leased to it.                                   *)
(***************************************************************************)
EXTENDS OvnNat, TLAPS

-----------------------------------------------------------------------------
(* Objects *)

EipOk(o) == o \in Eip /\ (Exists(o) \/ o = NoEip)

RuleOk(o) == o \in Rule /\ (Exists(o) \/ o = NoRule)

EipsOk(f) == f \in [Eips -> Eip] /\ \A e \in Eips : Exists(f[e]) \/ f[e] = NoEip

RulesOk(f) == f \in [Rules -> Rule] /\ \A r \in Rules : Exists(f[r]) \/ f[r] = NoRule

LEMMA NoIPTyped == NoIP \in IPs
BY Zenon DEF IPs

LEMMA NewEipOk ==
    ASSUME NEW u \in Nat, u # 0, NEW f \in BOOLEAN, NEW a \in IPs
    PROVE  EipOk(NewEip(u, f, a))
<1>1. NoIP \in IPs
  BY NoIPTyped, Zenon
<1>2. NewEip(u, f, a) \in Eip
  BY <1>1, Zenon DEF NewEip, Eip
<1>3. NewEip(u, f, a).uid = u
  BY DEF NewEip
<1> QED  BY <1>2, <1>3, Zenon DEF EipOk, Exists

LEMMA NoEipOk == EipOk(NoEip)
<1>1. NoIP \in IPs
  BY NoIPTyped, Zenon
<1>2. NewEip(0, FALSE, NoIP) \in Eip
  BY <1>1, 0 \in Nat, Zenon DEF NewEip, Eip
<1> QED  BY <1>2, Zenon DEF EipOk, NoEip

LEMMA NewRuleOk ==
    ASSUME NEW u \in Nat, u # 0
    PROVE  RuleOk(NewRule(u))
<1>1. NoIP \in IPs
  BY NoIPTyped, Zenon
<1>2. NewRule(u) \in Rule
  BY <1>1, Zenon DEF NewRule, Rule
<1>3. NewRule(u).uid = u
  BY DEF NewRule
<1> QED  BY <1>2, <1>3, Zenon DEF RuleOk, Exists

LEMMA NoRuleOk == RuleOk(NoRule)
<1>1. NoIP \in IPs
  BY NoIPTyped, Zenon
<1>2. NewRule(0) \in Rule
  BY <1>1, 0 \in Nat, Zenon DEF NewRule, Rule
<1> QED  BY <1>2, Zenon DEF RuleOk, NoRule

\* What the numbers of objects are compared with.
LEMMA ZeroNotOne == 0 # 1
OBVIOUS

LEMMA ZeroLeast ==
    ASSUME NEW n \in Nat
    PROVE  0 <= n
OBVIOUS

\* n + 1 is above every number up to n, and the first one after none.
Above(n, m) ==
    /\ m <= n + 1 /\ n + 1 <= n + 1 /\ n + 1 # 0
    /\ n + 1 = 1 => n = 0 /\ m = 0

LEMMA NextAbove ==
    ASSUME NEW m \in Nat, NEW n \in Nat, m <= n
    PROVE  Above(n, m)
BY DEF Above

LEMMA NewRuleFields ==
    \A u : NewRule(u).uid = u /\ NewRule(u).status = NoIP
BY DEF NewRule

\* What the fields of an object that is not there say.
LEMMA NoFields ==
    /\ NoEip.uid = 0 /\ NoEip.term = FALSE /\ NoEip.fin = FALSE
    /\ NoEip.spec = NoIP /\ NoEip.ip = NoIP
    /\ NoRule.uid = 0 /\ NoRule.term = FALSE /\ NoRule.fin = FALSE
    /\ NoRule.status = NoIP
BY DEF NoEip, NewEip, NoRule, NewRule

\* Deletion marks an object that has a finalizer and takes any other.
LEMMA DeletedEip ==
    ASSUME NEW o, EipOk(o)
    PROVE  /\ EipOk(Deleted(o, NoEip))
           /\ Deleted(o, NoEip) = NoEip \/ Deleted(o, NoEip).term
<1>1. CASE ~o.fin
  BY <1>1, NoEipOk, Zenon DEF Deleted
<1>2. CASE o.fin
  <2> DEFINE p == [o EXCEPT !.term = TRUE]
  <2>1. Deleted(o, NoEip) = p
    BY <1>2, Zenon DEF Deleted
  <2>2. o \in Eip
    BY Zenon DEF EipOk
  <2>3. p \in Eip
    BY <2>2, Zenon DEF Eip
  <2>4. p.uid = o.uid /\ p.term
    BY <2>2 DEF Eip
  <2>5. Exists(o)
    BY <1>2, NoFields, Zenon DEF EipOk
  <2> HIDE DEF p
  <2> QED  BY <2>1, <2>3, <2>4, <2>5, Zenon DEF EipOk, Exists
<1> QED  BY <1>1, <1>2

LEMMA DeletedRule ==
    ASSUME NEW o, RuleOk(o)
    PROVE  /\ RuleOk(Deleted(o, NoRule))
           /\ Deleted(o, NoRule) = NoRule \/ Deleted(o, NoRule).term
<1>1. CASE ~o.fin
  BY <1>1, NoRuleOk, Zenon DEF Deleted
<1>2. CASE o.fin
  <2> DEFINE p == [o EXCEPT !.term = TRUE]
  <2>1. Deleted(o, NoRule) = p
    BY <1>2, Zenon DEF Deleted
  <2>2. o \in Rule
    BY Zenon DEF RuleOk
  <2>3. p \in Rule
    BY <2>2, Zenon DEF Rule
  <2>4. p.uid = o.uid /\ p.term
    BY <2>2 DEF Rule
  <2>5. Exists(o)
    BY <1>2, NoFields, Zenon DEF RuleOk
  <2> HIDE DEF p
  <2> QED  BY <2>1, <2>3, <2>4, <2>5, Zenon DEF RuleOk, Exists
<1> QED  BY <1>1, <1>2

\* What a patch of the finalizer leaves of an object.
SameEip(p, o) ==
    /\ p.uid = o.uid /\ p.term = o.term /\ p.spec = o.spec /\ p.ip = o.ip

SameRule(p, o) ==
    p.uid = o.uid /\ p.term = o.term /\ p.status = o.status

LEMMA FinalizedEip ==
    ASSUME NEW o, EipOk(o)
    PROVE  EipOk(Finalized(o)) /\ SameEip(Finalized(o), o)
<1>1. CASE Finalized(o) = o
  BY <1>1, Zenon DEF SameEip
<1>2. CASE Finalized(o) = [o EXCEPT !.fin = TRUE] /\ Exists(o)
  <2> DEFINE p == [o EXCEPT !.fin = TRUE]
  <2>1. o \in Eip
    BY Zenon DEF EipOk
  <2>2. p \in Eip
    BY <2>1, Zenon DEF Eip
  <2>3. SameEip(p, o)
    BY <2>1 DEF Eip, SameEip
  <2> HIDE DEF p
  <2>4. EipOk(p)
    BY <1>2, <2>2, <2>3, Zenon DEF EipOk, Exists, SameEip
  <2> QED  BY <1>2, <2>3, <2>4, Zenon DEF p
<1> QED  BY <1>1, <1>2, Zenon DEF Finalized

LEMMA FinalizedRule ==
    ASSUME NEW o, RuleOk(o)
    PROVE  RuleOk(Finalized(o)) /\ SameRule(Finalized(o), o)
<1>1. CASE Finalized(o) = o
  BY <1>1, Zenon DEF SameRule
<1>2. CASE Finalized(o) = [o EXCEPT !.fin = TRUE] /\ Exists(o)
  <2> DEFINE p == [o EXCEPT !.fin = TRUE]
  <2>1. o \in Rule
    BY Zenon DEF RuleOk
  <2>2. p \in Rule
    BY <2>1, Zenon DEF Rule
  <2>3. SameRule(p, o)
    BY <2>1 DEF Rule, SameRule
  <2> HIDE DEF p
  <2>4. RuleOk(p)
    BY <1>2, <2>2, <2>3, Zenon DEF RuleOk, Exists, SameRule
  <2> QED  BY <1>2, <2>3, <2>4, Zenon DEF p
<1> QED  BY <1>1, <1>2, Zenon DEF Finalized

LEMMA UnfinalizedEip ==
    ASSUME NEW o, EipOk(o), Exists(o)
    PROVE  /\ EipOk(Unfinalized(o, NoEip))
           /\ o.term => Unfinalized(o, NoEip) = NoEip
           /\ ~o.term => SameEip(Unfinalized(o, NoEip), o)
<1>1. CASE o.term
  BY <1>1, NoEipOk, Zenon DEF Unfinalized
<1>2. CASE ~o.term
  <2> DEFINE p == [o EXCEPT !.fin = FALSE]
  <2>1. o \in Eip
    BY Zenon DEF EipOk
  <2>2. p \in Eip
    BY <2>1, Zenon DEF Eip
  <2>3. SameEip(p, o)
    BY <2>1 DEF Eip, SameEip
  <2>4. Unfinalized(o, NoEip) = p
    BY <1>2, Zenon DEF Unfinalized
  <2> HIDE DEF p
  <2>5. EipOk(p)
    BY <2>2, <2>3, Zenon DEF EipOk, Exists, SameEip
  <2> QED  BY <1>2, <2>3, <2>4, <2>5, Zenon
<1> QED  BY <1>1, <1>2

LEMMA UnfinalizedRule ==
    ASSUME NEW o, RuleOk(o), Exists(o)
    PROVE  /\ RuleOk(Unfinalized(o, NoRule))
           /\ o.term => Unfinalized(o, NoRule) = NoRule
           /\ ~o.term => SameRule(Unfinalized(o, NoRule), o)
<1>1. CASE o.term
  BY <1>1, NoRuleOk, Zenon DEF Unfinalized
<1>2. CASE ~o.term
  <2> DEFINE p == [o EXCEPT !.fin = FALSE]
  <2>1. o \in Rule
    BY Zenon DEF RuleOk
  <2>2. p \in Rule
    BY <2>1, Zenon DEF Rule
  <2>3. SameRule(p, o)
    BY <2>1 DEF Rule, SameRule
  <2>4. Unfinalized(o, NoRule) = p
    BY <1>2, Zenon DEF Unfinalized
  <2> HIDE DEF p
  <2>5. RuleOk(p)
    BY <2>2, <2>3, Zenon DEF RuleOk, Exists, SameRule
  <2> QED  BY <1>2, <2>3, <2>4, <2>5, Zenon
<1> QED  BY <1>1, <1>2

LEMMA EipWritten ==
    ASSUME NEW f, EipsOk(f), NEW e \in Eips, NEW x, EipOk(x)
    PROVE  EipsOk([f EXCEPT ![e] = x])
BY Zenon DEF EipsOk, EipOk

LEMMA RuleWritten ==
    ASSUME NEW f, RulesOk(f), NEW r \in Rules, NEW x, RuleOk(x)
    PROVE  RulesOk([f EXCEPT ![r] = x])
BY Zenon DEF RulesOk, RuleOk

-----------------------------------------------------------------------------
(* Types *)

EipWork == [at : {"idle", "acquired", "updated", "patched"}, ip : IPs, obj : Eip]

RuleWork == [at : {"idle", "rows", "finalizer", "label", "status"}, ip : IPs,
             obj : Rule]

\* TypeOK with the types of the variables it leaves out, which a step needs to
\* keep it.
TypeInv ==
    /\ kind \in [Rules -> Kinds]
    /\ EipsOk(eip)
    /\ EipsOk(ceip)
    /\ RulesOk(rule)
    /\ RulesOk(crule)
    /\ uids \in [Eips \cup Rules -> Nat]
    /\ lease \in [Eips -> IPs]
    /\ q \in [Queues -> SUBSET (Eips \cup Rules)]
    /\ eadd \in [Eips -> EipWork]
    /\ eupd \subseteq Eips
    /\ radd \in [Rules -> RuleWork]
    /\ faults \in 0 .. MaxFaults
    /\ makes \in [Eips \cup Rules -> 0 .. MaxMakes]

LEMMA IdleTyped == IdleEip \in EipWork /\ IdleRule \in RuleWork
<1>1. NoIP \in IPs
  BY NoIPTyped, Zenon
<1>2. NoEip \in Eip /\ NoRule \in Rule
  BY NoEipOk, NoRuleOk, Zenon DEF EipOk, RuleOk
<1>3. IdleEip \in EipWork
  BY <1>1, <1>2, Zenon DEF IdleEip, At, EipWork
<1>4. IdleRule \in RuleWork
  BY <1>1, <1>2, Zenon DEF IdleRule, At, RuleWork
<1> QED  BY <1>3, <1>4

LEMMA IdleAt == IdleEip.at = "idle" /\ IdleRule.at = "idle"
BY DEF IdleEip, IdleRule, At

\* The queues after a key was put into one or taken from one.
LEMMA PushTyped ==
    ASSUME q \in [Queues -> SUBSET (Eips \cup Rules)],
           NEW queue \in Queues, NEW k \in Eips \cup Rules
    PROVE  /\ Push(queue, k) \in [Queues -> SUBSET (Eips \cup Rules)]
           /\ Push(queue, k)[queue] = q[queue] \cup {k}
           /\ \A p \in Queues : p # queue => Push(queue, k)[p] = q[p]
BY Zenon DEF Push

LEMMA PopTyped ==
    ASSUME q \in [Queues -> SUBSET (Eips \cup Rules)],
           NEW queue \in Queues, NEW k
    PROVE  /\ Pop(queue, k) \in [Queues -> SUBSET (Eips \cup Rules)]
           /\ Pop(queue, k)[queue] = q[queue] \ {k}
           /\ \A p \in Queues : p # queue => Pop(queue, k)[p] = q[p]
BY Zenon DEF Pop

LEMMA QueueNames ==
    /\ "addEip" \in Queues /\ "updEip" \in Queues /\ "resetEip" \in Queues
    /\ "delEip" \in Queues /\ "addRule" \in Queues /\ "updRule" \in Queues
    /\ "delRule" \in Queues
BY Zenon DEF Queues

LEMMA QueuesTyped ==
    ASSUME q \in [Queues -> SUBSET (Eips \cup Rules)], NEW k \in Eips \cup Rules,
           q' = q \/ \E queue \in Queues : q' = Push(queue, k) \/ q' = Pop(queue, k)
    PROVE  q' \in [Queues -> SUBSET (Eips \cup Rules)]
<1>1. ASSUME NEW queue \in Queues, q' = Push(queue, k)
      PROVE  q' \in [Queues -> SUBSET (Eips \cup Rules)]
  BY <1>1, PushTyped, Zenon
<1>2. ASSUME NEW queue \in Queues, q' = Pop(queue, k)
      PROVE  q' \in [Queues -> SUBSET (Eips \cup Rules)]
  BY <1>2, PopTyped, Zenon
<1> QED  BY <1>1, <1>2, Zenon

\* The queues p after a rule on EIP e was cleaned.
QueuesCleaned(p, e, reset) ==
    /\ p \in [Queues -> SUBSET (Eips \cup Rules)]
    /\ p["delRule"] \subseteq q["delRule"]
    /\ p["delEip"] = q["delEip"]
    /\ reset = FALSE => p["resetEip"] = q["resetEip"]
    /\ p["resetEip"] \subseteq q["resetEip"] \cup {e}

LEMMA CleanedTyped ==
    ASSUME q \in [Queues -> SUBSET (Eips \cup Rules)],
           NEW queue \in {"updRule", "delRule"}, NEW r \in Rules, NEW c, NEW reset
    PROVE  QueuesCleaned(Cleaned(queue, r, c, reset), EipOf[r], reset)
<1>1. EipOf[r] \in Eips
  BY ConstantsAssumption, Zenon
<1> DEFINE A == IF c.fin /\ Exists(rule[r]) THEN {EipOf[r]} ELSE {}
           B == IF reset THEN {EipOf[r]} ELSE {}
           p == Cleaned(queue, r, c, reset)
<1>2. A \subseteq Eips /\ B \subseteq {EipOf[r]} /\ (reset = FALSE => B = {})
  BY <1>1, Zenon
<1>3. p = [q EXCEPT ![queue] = @ \ {r}, !["updEip"] = @ \cup A,
                    !["resetEip"] = @ \cup B]
  BY Zenon DEF Cleaned
<1> HIDE DEF A, B, p
<1>4. /\ p \in [Queues -> SUBSET (Eips \cup Rules)]
      /\ p["delRule"] \subseteq q["delRule"]
      /\ p["delEip"] = q["delEip"]
      /\ p["resetEip"] = q["resetEip"] \cup B
  BY <1>1, <1>2, <1>3, QueueNames, SMT
<1>5. QueuesCleaned(p, EipOf[r], reset)
  BY <1>2, <1>4, Zenon DEF QueuesCleaned
<1> QED  BY <1>5, Zenon DEF p

LEMMA NatTyped ==
    ASSUME kind \in [Rules -> Kinds], NEW a
    PROVE  getOvnEipNat(a) \in SUBSET Kinds
BY Zenon DEF getOvnEipNat

\* EIP p is EIP o with address a in its status.
WithStatus(p, o, a) ==
    /\ EipOk(p) /\ p.uid = o.uid /\ p.term = o.term /\ p.spec = o.spec
    /\ p.ip = a

\* A status patch writes the address of the copy, or that of its spec.
Shown(c) == IF c.ip = NoIP THEN c.spec ELSE c.ip

LEMMA StatusFromOk ==
    ASSUME kind \in [Rules -> Kinds],
           NEW o, EipOk(o), Exists(o), NEW c, EipOk(c), NEW mark \in BOOLEAN
    PROVE  WithStatus(StatusFrom(o, c, mark), o, Shown(c))
<1> DEFINE a == IF c.ip = NoIP THEN c.spec ELSE c.ip
           y == c.ready \/ mark
           n == getOvnEipNat(c.spec)
           p == [o EXCEPT !.ip = a, !.ready = y, !.nat = n]
<1>1. o \in Eip /\ c \in Eip
  BY Zenon DEF EipOk
<1>2. c.ip \in IPs /\ c.spec \in IPs
  BY <1>1 DEF Eip
<1>3. a \in IPs /\ y \in BOOLEAN
  BY <1>2, Zenon
<1>4. n \in SUBSET Kinds
  BY NatTyped, Zenon
<1>5. StatusFrom(o, c, mark) = p
  BY Zenon DEF StatusFrom
<1> HIDE DEF a, y, n
<1>6. p \in Eip
  BY <1>1, <1>3, <1>4, Zenon DEF Eip
<1>7. p.uid = o.uid /\ p.term = o.term /\ p.spec = o.spec /\ p.ip = a
  BY <1>1 DEF Eip
<1> HIDE DEF p
<1>8. EipOk(p)
  BY <1>6, <1>7, Zenon DEF EipOk, Exists
<1>9. a = Shown(c)
  BY Zenon DEF a, Shown
<1> QED  BY <1>5, <1>7, <1>8, <1>9, Zenon DEF WithStatus

\* What patchOvnEipStatus, when it does not fail, leaves of the EIPs.
Patched(f, e) ==
    /\ EipsOk(f)
    /\ \A g \in Eips \ {e} : f[g] = eip[g]
    /\ \/ f[e] = eip[e]
       \/ /\ f[e].uid = eip[e].uid /\ f[e].term = eip[e].term
          /\ f[e].spec = eip[e].spec
          /\ f[e].ip = Shown(ceip[e])

LEMMA PatchedStatus ==
    ASSUME TypeInv, NEW e \in Eips, NEW mark \in BOOLEAN,
           ~patchOvnEipStatusFails(e, mark)
    PROVE  Patched(patchOvnEipStatus(e, mark), e)
<1>1. EipsOk(eip) /\ EipsOk(ceip) /\ kind \in [Rules -> Kinds]
  BY Zenon DEF TypeInv
<1>2. CASE ~StatusChanged(ceip[e], mark)
  <2>1. patchOvnEipStatus(e, mark) = eip
    BY <1>2, Zenon DEF patchOvnEipStatus
  <2> QED  BY <1>1, <2>1, Zenon DEF Patched
<1>3. CASE StatusChanged(ceip[e], mark)
  <2> DEFINE x == StatusFrom(eip[e], ceip[e], mark)
  <2>1. patchOvnEipStatus(e, mark) = [eip EXCEPT ![e] = x]
    BY <1>3, Zenon DEF patchOvnEipStatus
  <2>2. EipOk(eip[e]) /\ EipOk(ceip[e]) /\ Exists(eip[e])
    BY <1>1, <1>3, Zenon DEF EipsOk, EipOk, patchOvnEipStatusFails
  <2>3. WithStatus(x, eip[e], Shown(ceip[e]))
    BY <1>1, <2>2, StatusFromOk, Zenon
  <2> HIDE DEF x
  <2>4. EipsOk([eip EXCEPT ![e] = x])
    BY <1>1, <2>3, EipWritten, Zenon DEF WithStatus
  <2>5. /\ [eip EXCEPT ![e] = x][e] = x
        /\ \A g \in Eips \ {e} : [eip EXCEPT ![e] = x][g] = eip[g]
    BY <1>1, Zenon DEF EipsOk
  <2> QED  BY <2>1, <2>3, <2>4, <2>5, Zenon DEF Patched, WithStatus
<1> QED  BY <1>2, <1>3

-----------------------------------------------------------------------------
(* The steps *)

\* RowOf, of a kind.
RowFor(k, r, a) ==
    CASE k = "fip" -> NatRow("dnat_and_snat", a, Inner[r])
      [] k = "snat" -> NatRow("snat", a, Inner[r])
      [] k = "dnat" -> VipRow(r, a)

\* The rows after rule r was added with address a.
RowsWith(r, a) ==
    {w \in rows : ~(kind[r] = "fip" /\ w.type = "dnat_and_snat" /\ w.ext = a)}
        \cup {RowFor(kind[r], r, a)}

\* What the add handlers of the three kinds have in common.
Started(r) ==
    /\ Exists(crule[r]) /\ crule[r].status = NoIP
    /\ GetOvnEip(EipOf[r])
    /\ kind[r] = "fip" => ~isOvnFipDuplicated(r)
    /\ rows' = RowsWith(r, ceip[EipOf[r]].ip)
    /\ radd' = [radd EXCEPT ![r] = At("rows", ceip[EipOf[r]].ip, crule[r])]

Adds(r) ==
    /\ \A s \in Rules : kind[s] = kind[r] => radd[s] = IdleRule
    /\ q' = Pop("addRule", r)
    /\ UNCHANGED <<rows, radd>> \/ Started(r)
    /\ UNCHANGED <<api, caches, lease, eadd, eupd, env>>

\* What the update and delete handlers have in common: they clean a rule, or
\* find nothing to do.
Cleans(queue, r) ==
    /\ r \in q[queue]
    /\ Exists(crule[r])
    /\ queue = "updRule" => crule[r].term
    /\ rows' = IF crule[r].status = NoIP THEN rows
               ELSE rows \ {RowFor(kind[r], r, crule[r].status)}
    /\ rule' = TakeFinalizer(r, crule[r])
    /\ \E reset \in BOOLEAN :
          /\ q' = Cleaned(queue, r, crule[r], reset)
          /\ queue = "updRule" /\ reset => crule[r].status # NoIP
    /\ UNCHANGED <<eip, uids, caches, lease, workers, env>>

Skips(queue, r) ==
    /\ q' = Pop(queue, r)
    /\ UNCHANGED <<api, caches, lease, rows, workers, env>>

EipStep(e) ==
    \/ CreateEip(e) \/ DeleteEip(e)
    \/ enqueueAddOvnEip(e) \/ enqueueUpdateOvnEip(e) \/ enqueueDelOvnEip(e)
    \/ handleAddOvnEip(e) \/ createOrUpdateOvnEipCR(e)
    \/ createOrUpdateOvnEipCRStatus(e) \/ handleAddOvnEipReady(e)
    \/ handleUpdateOvnEip(e) \/ handleDelOvnEipFinalizer(e)
    \/ handleResetOvnEip(e) \/ handleDelOvnEip(e)

RuleStep(r) ==
    \/ CreateRule(r) \/ DeleteRule(r)
    \/ RuleAdded(r) \/ RuleUpdated(r) \/ RuleDeleted(r)
    \/ Adds(r) \/ AddFinalizer(r) \/ LabelRule(r) \/ RecordRule(r) \/ RefreshEip(r)
    \/ \E queue \in {"updRule", "delRule"} : Cleans(queue, r) \/ Skips(queue, r)

LEMMA KindsDiffer ==
    /\ "fip" # "snat" /\ "fip" # "dnat" /\ "snat" # "dnat"
    /\ "dnat_and_snat" # "snat" /\ "dnat_and_snat" # "lb" /\ "snat" # "lb"
OBVIOUS

LEMMA AddsStep ==
    ASSUME NEW r \in Rules,
           handleAddOvnFip(r) \/ handleAddOvnSnatRule(r) \/ handleAddOvnDnatRule(r)
    PROVE  Adds(r)
<1> DEFINE a == ceip[EipOf[r]].ip
<1>1. CASE handleAddOvnFip(r)
  <2>1. kind[r] = "fip"
    BY <1>1, Zenon DEF handleAddOvnFip
  <2>2. AddRule(r, isOvnFipDuplicated(r), AddNat("dnat_and_snat", a, Inner[r]))
    BY <1>1, Zenon DEF handleAddOvnFip
  <2>3. AddNat("dnat_and_snat", a, Inner[r]) = RowsWith(r, a)
    BY <2>1, Zenon DEF AddNat, RowsWith, RowFor
  <2> HIDE DEF a
  <2>4. AddRule(r, isOvnFipDuplicated(r), RowsWith(r, a))
    BY <2>2, <2>3, Zenon
  <2> QED  BY <2>4, Zenon DEF AddRule, Adds, Started, a
<1>2. CASE handleAddOvnSnatRule(r)
  <2>1. kind[r] = "snat"
    BY <1>2, Zenon DEF handleAddOvnSnatRule
  <2>2. AddRule(r, FALSE, AddNat("snat", a, Inner[r]))
    BY <1>2, Zenon DEF handleAddOvnSnatRule
  <2>3. AddNat("snat", a, Inner[r]) = RowsWith(r, a)
    <3>1. RowFor(kind[r], r, a) = NatRow("snat", a, Inner[r])
      BY <2>1, KindsDiffer, Zenon DEF RowFor
    <3> QED  BY <2>1, <3>1, KindsDiffer, Zenon DEF AddNat, RowsWith
  <2> HIDE DEF a
  <2>4. AddRule(r, FALSE, RowsWith(r, a))
    BY <2>2, <2>3, Zenon
  <2> QED  BY <2>1, <2>4, KindsDiffer, Zenon DEF AddRule, Adds, Started, a
<1>3. CASE handleAddOvnDnatRule(r)
  <2>1. kind[r] = "dnat"
    BY <1>3, Zenon DEF handleAddOvnDnatRule
  <2>2. AddRule(r, checkEipPortConflict(r), AddDnatRule(r, a))
    BY <1>3, Zenon DEF handleAddOvnDnatRule
  <2>3. AddDnatRule(r, a) = RowsWith(r, a)
    <3>1. RowFor(kind[r], r, a) = VipRow(r, a)
      BY <2>1, KindsDiffer, Zenon DEF RowFor
    <3> QED  BY <2>1, <3>1, KindsDiffer, Zenon DEF AddDnatRule, RowsWith
  <2> HIDE DEF a
  <2>4. AddRule(r, checkEipPortConflict(r), RowsWith(r, a))
    BY <2>2, <2>3, Zenon
  <2> QED  BY <2>1, <2>4, KindsDiffer, Zenon DEF AddRule, Adds, Started, a
<1> QED  BY <1>1, <1>2, <1>3

\* The rows each kind of rule takes away are those of RowFor.
LEMMA RowsTaken ==
    ASSUME NEW r, NEW a
    PROVE  /\ kind[r] = "fip" => DeleteNat("dnat_and_snat", a, Inner[r])
                                    = rows \ {RowFor(kind[r], r, a)}
           /\ kind[r] = "snat" => DeleteNat("snat", a, Inner[r])
                                    = rows \ {RowFor(kind[r], r, a)}
           /\ kind[r] = "dnat" => DelDnatRule(r, a) = rows \ {RowFor(kind[r], r, a)}
<1>1. kind[r] = "fip" => RowFor(kind[r], r, a) = NatRow("dnat_and_snat", a, Inner[r])
  BY Zenon DEF RowFor
<1>2. kind[r] = "snat" => RowFor(kind[r], r, a) = NatRow("snat", a, Inner[r])
  BY KindsDiffer, Zenon DEF RowFor
<1>3. kind[r] = "dnat" => RowFor(kind[r], r, a) = VipRow(r, a)
  BY KindsDiffer, Zenon DEF RowFor
<1> QED  BY <1>1, <1>2, <1>3, Zenon DEF DeleteNat, DelDnatRule

LEMMA UpdatesStep ==
    ASSUME NEW r \in Rules,
           \/ handleUpdateOvnFip(r) \/ handleUpdateOvnSnatRule(r)
           \/ handleUpdateOvnDnatRule(r)
    PROVE  Cleans("updRule", r) \/ Skips("updRule", r)
<1> DEFINE without == rows \ {RowFor(kind[r], r, crule[r].status)}
<1>1. UpdateRule(r, without)
  BY RowsTaken, Zenon DEF handleUpdateOvnFip, handleUpdateOvnSnatRule,
                          handleUpdateOvnDnatRule
<1> HIDE DEF without
<1>2. (crule[r].status # NoIP) \in BOOLEAN
  OBVIOUS
<1>3. CASE ~(Exists(crule[r]) /\ crule[r].term)
  BY <1>1, <1>3, Zenon DEF UpdateRule, Skips, api
<1>4. CASE Exists(crule[r]) /\ crule[r].term
  <2>1. /\ r \in q["updRule"]
        /\ rows' = IF crule[r].status = NoIP THEN rows ELSE without
        /\ rule' = TakeFinalizer(r, crule[r])
        /\ q' = Cleaned("updRule", r, crule[r], crule[r].status # NoIP)
        /\ UNCHANGED <<eip, uids, caches, lease, workers, env>>
    BY <1>1, <1>4, Zenon DEF UpdateRule
  <2> QED  BY <1>2, <1>4, <2>1, Zenon DEF Cleans, without
<1> QED  BY <1>3, <1>4

LEMMA DeletesStep ==
    ASSUME NEW r \in Rules,
           handleDelOvnFip(r) \/ handleDelOvnSnatRule(r) \/ handleDelOvnDnatRule(r)
    PROVE  Cleans("delRule", r) \/ Skips("delRule", r)
<1> DEFINE without == rows \ {RowFor(kind[r], r, crule[r].status)}
<1>1. \/ DeleteGone(r) \/ DeleteFound(r, without)
      \/ /\ q' = Pop("delRule", r)
         /\ UNCHANGED <<api, caches, lease, rows, workers, env>>
  BY RowsTaken, Zenon DEF handleDelOvnFip, handleDelOvnSnatRule, handleDelOvnDnatRule
<1> HIDE DEF without
<1>2. CASE DeleteGone(r)
  BY <1>2, Zenon DEF DeleteGone, Skips
<1>3. CASE DeleteFound(r, without)
  BY <1>3, "delRule" # "updRule", Zenon DEF DeleteFound, Cleans, without
<1>4. CASE /\ q' = Pop("delRule", r)
           /\ UNCHANGED <<api, caches, lease, rows, workers, env>>
  BY <1>4, Zenon DEF Skips
<1> QED  BY <1>1, <1>2, <1>3, <1>4

LEMMA StepCases ==
    ASSUME Next
    PROVE  \/ \E e \in Eips : EipStep(e)
           \/ \E r \in Rules : RuleStep(r)
           \/ Crash \/ Fail
<1>1. ASSUME NEW e \in Eips,
             \/ CreateEip(e) \/ DeleteEip(e) \/ EipEvent(e) \/ EipAddWorker(e)
             \/ EipUpdateWorker(e) \/ handleResetOvnEip(e) \/ handleDelOvnEip(e)
      PROVE  EipStep(e)
  BY <1>1, Zenon DEF EipEvent, EipAddWorker, EipUpdateWorker, EipStep
<1>2. ASSUME NEW r \in Rules, RuleEvent(r)
      PROVE  RuleAdded(r) \/ RuleUpdated(r) \/ RuleDeleted(r)
  BY <1>2, Zenon DEF RuleEvent, enqueueAddOvnFip, enqueueUpdateOvnFip,
        enqueueDelOvnFip, enqueueAddOvnSnatRule, enqueueUpdateOvnSnatRule,
        enqueueDelOvnSnatRule, enqueueAddOvnDnatRule, enqueueUpdateOvnDnatRule,
        enqueueDelOvnDnatRule
<1>3. ASSUME NEW r \in Rules, RuleAddWorker(r)
      PROVE  \/ Adds(r) \/ AddFinalizer(r) \/ LabelRule(r) \/ RecordRule(r)
             \/ RefreshEip(r)
  BY <1>3, AddsStep, Zenon DEF RuleAddWorker, handleAddOvnFipFinalizer,
        handleAddOvnSnatFinalizer, handleAddOvnDnatFinalizer, patchOvnFipStatus,
        patchOvnSnatStatus, patchOvnDnatStatus
<1>4. ASSUME NEW r \in Rules, RuleUpdateWorker(r) \/ RuleDeleteWorker(r)
      PROVE  \E queue \in {"updRule", "delRule"} : Cleans(queue, r) \/ Skips(queue, r)
  BY <1>4, UpdatesStep, DeletesStep, Zenon DEF RuleUpdateWorker, RuleDeleteWorker
<1>5. ASSUME NEW r \in Rules,
             \/ CreateRule(r) \/ DeleteRule(r) \/ RuleEvent(r) \/ RuleAddWorker(r)
             \/ RuleUpdateWorker(r) \/ RuleDeleteWorker(r)
      PROVE  RuleStep(r)
  BY <1>2, <1>3, <1>4, <1>5, Zenon DEF RuleStep
<1> QED  BY <1>1, <1>5, Zenon DEF Next, User

-----------------------------------------------------------------------------
(* Every step keeps the types *)

\* The parts of TypeInv that steps of EIPs change.
EipTypes ==
    /\ EipsOk(eip) /\ EipsOk(ceip)
    /\ uids \in [Eips \cup Rules -> Nat]
    /\ lease \in [Eips -> IPs]
    /\ q \in [Queues -> SUBSET (Eips \cup Rules)]
    /\ eadd \in [Eips -> EipWork]
    /\ eupd \subseteq Eips
    /\ makes \in [Eips \cup Rules -> 0 .. MaxMakes]

LEMMA EipTypesKept ==
    ASSUME TypeInv, EipTypes', UNCHANGED <<kind, rule, crule, radd, faults>>
    PROVE  TypeInv'
<1>1. kind' = kind /\ rule' = rule /\ crule' = crule /\ radd' = radd /\ faults' = faults
  OBVIOUS
<1> QED  BY <1>1, Zenon DEF TypeInv, EipTypes

LEMMA CreateEipTyped ==
    ASSUME TypeInv, NEW e \in Eips, CreateEip(e)
    PROVE  TypeInv'
<1>1. /\ UNCHANGED <<kind, rule, crule, radd, faults>>
      /\ ceip' = ceip /\ lease' = lease /\ q' = q /\ eadd' = eadd /\ eupd' = eupd
  BY DEF CreateEip, caches, workers
<1>2. /\ makes[e] > 0
      /\ makes' = [makes EXCEPT ![e] = @ - 1]
      /\ uids' = [uids EXCEPT ![e] = @ + 1]
      /\ eip' = [eip EXCEPT ![e] = NewEip(uids[e] + 1, FALSE, Static[e])]
  BY Zenon DEF CreateEip
<1>3. /\ uids \in [Eips \cup Rules -> Nat]
      /\ makes \in [Eips \cup Rules -> 0 .. MaxMakes]
      /\ EipsOk(eip)
  BY Zenon DEF TypeInv
<1>4. Static[e] \in IPs /\ MaxMakes \in Nat
  BY ConstantsAssumption, Zenon DEF IPs
<1>5. uids[e] \in Nat /\ makes[e] \in 0 .. MaxMakes
  BY <1>3, Zenon
<1>6. uids[e] + 1 \in Nat /\ uids[e] + 1 # 0 /\ makes[e] - 1 \in 0 .. MaxMakes
  BY <1>2, <1>4, <1>5
<1>7. EipOk(NewEip(uids[e] + 1, FALSE, Static[e]))
  BY <1>4, <1>6, NewEipOk, Zenon
<1>8. EipsOk(eip')
  BY <1>2, <1>3, <1>7, EipWritten, Zenon
<1>9. uids' \in [Eips \cup Rules -> Nat] /\ makes' \in [Eips \cup Rules -> 0 .. MaxMakes]
  BY <1>2, <1>3, <1>6, Zenon
<1>10. EipTypes'
  BY <1>1, <1>8, <1>9, Zenon DEF TypeInv, EipTypes
<1> QED  BY <1>1, <1>10, EipTypesKept, Zenon

LEMMA DeleteEipTyped ==
    ASSUME TypeInv, NEW e \in Eips, DeleteEip(e)
    PROVE  TypeInv'
<1>1. /\ UNCHANGED <<kind, rule, crule, radd, faults>>
      /\ ceip' = ceip /\ uids' = uids /\ lease' = lease /\ q' = q /\ eadd' = eadd
      /\ eupd' = eupd /\ makes' = makes
  BY DEF DeleteEip, caches, workers, env
<1>2. eip' = [eip EXCEPT ![e] = Deleted(eip[e], NoEip)]
  BY Zenon DEF DeleteEip
<1>3. EipsOk(eip)
  BY Zenon DEF TypeInv
<1>4. EipOk(eip[e])
  BY <1>3, Zenon DEF EipsOk, EipOk
<1>5. EipsOk(eip')
  BY <1>2, <1>3, <1>4, DeletedEip, EipWritten, Zenon
<1>6. EipTypes'
  BY <1>1, <1>5, Zenon DEF TypeInv, EipTypes
<1> QED  BY <1>1, <1>6, EipTypesKept, Zenon

LEMMA EipEventTyped ==
    ASSUME TypeInv, NEW e \in Eips,
           enqueueAddOvnEip(e) \/ enqueueUpdateOvnEip(e) \/ enqueueDelOvnEip(e)
    PROVE  TypeInv'
<1>1. /\ UNCHANGED <<kind, rule, crule, radd, faults>>
      /\ eip' = eip /\ uids' = uids /\ lease' = lease /\ eadd' = eadd
      /\ eupd' = eupd /\ makes' = makes
  BY DEF enqueueAddOvnEip, enqueueUpdateOvnEip, enqueueDelOvnEip, api, workers, env
<1>2. EipsOk(eip) /\ EipsOk(ceip) /\ q \in [Queues -> SUBSET (Eips \cup Rules)]
  BY Zenon DEF TypeInv
<1>3. EipOk(eip[e])
  BY <1>2, Zenon DEF EipsOk, EipOk
<1>4. ceip' = [ceip EXCEPT ![e] = eip[e]] \/ ceip' = [ceip EXCEPT ![e] = NoEip]
  BY Zenon DEF enqueueAddOvnEip, enqueueUpdateOvnEip, enqueueDelOvnEip
<1>5. EipsOk(ceip')
  <2>1. CASE ceip' = [ceip EXCEPT ![e] = eip[e]]
    BY <1>2, <1>3, <2>1, EipWritten, Zenon
  <2>2. CASE ceip' = [ceip EXCEPT ![e] = NoEip]
    BY <1>2, <2>2, NoEipOk, EipWritten, Zenon
  <2> QED  BY <1>4, <2>1, <2>2, Zenon
<1>6. \/ q' = q \/ q' = Push("updEip", e) \/ q' = Push("addEip", e)
      \/ q' = Push("delEip", e)
  BY Zenon DEF enqueueAddOvnEip, enqueueUpdateOvnEip, enqueueDelOvnEip,
               enqueueUpdateIfTerminatingWithFinalizer
<1>7. q' \in [Queues -> SUBSET (Eips \cup Rules)]
  <2>1. q' = q \/ \E queue \in Queues : q' = Push(queue, e) \/ q' = Pop(queue, e)
    BY <1>6, QueueNames, Zenon
  <2> QED  BY <1>2, <2>1, QueuesTyped, e \in Eips \cup Rules, Zenon
<1>8. EipTypes'
  BY <1>1, <1>2, <1>5, <1>7, Zenon DEF TypeInv, EipTypes
<1> QED  BY <1>1, <1>8, EipTypesKept, Zenon

\* What is acquired is an address, of the spec when there is one.
LEMMA AcquirableTyped ==
    ASSUME TypeInv, NEW e \in Eips, NEW a \in Acquirable(e)
    PROVE  /\ a \in IPs /\ a # NoIP
           /\ ceip[e].spec # NoIP => a = ceip[e].spec
           /\ ceip[e].spec = NoIP /\ lease[e] # NoIP => a = lease[e]
           /\ \A f \in Eips \ {e} : lease[f] = a => lease[e] = a
<1> DEFINE free == {b \in Addresses : \A f \in Eips \ {e} : lease[f] # b}
<1>1. lease[e] \in IPs
  BY Zenon DEF TypeInv
<1>2. CASE ceip[e].spec # NoIP
  <2>1. Acquirable(e) = {ceip[e].spec} \cap free
    BY <1>2, SMT DEF Acquirable
  <2>2. a = ceip[e].spec /\ a \in Addresses /\ \A f \in Eips \ {e} : lease[f] # a
    BY <2>1, Zenon
  <2> QED  BY <1>2, <2>2, Zenon DEF IPs
<1>3. CASE ceip[e].spec = NoIP /\ lease[e] # NoIP
  <2>1. a = lease[e]
    BY <1>3, Zenon DEF Acquirable
  <2> QED  BY <1>1, <1>3, <2>1, Zenon
<1>4. CASE ceip[e].spec = NoIP /\ lease[e] = NoIP
  <2>1. a \in free
    BY <1>4, Zenon DEF Acquirable
  <2> QED  BY <1>4, <2>1, ConstantsAssumption, Zenon DEF IPs
<1> QED  BY <1>2, <1>3, <1>4

LEMMA HandleAddOvnEipTyped ==
    ASSUME TypeInv, NEW e \in Eips, handleAddOvnEip(e)
    PROVE  TypeInv'
<1>1. /\ UNCHANGED <<kind, rule, crule, radd, faults>>
      /\ eip' = eip /\ ceip' = ceip /\ uids' = uids /\ eupd' = eupd /\ makes' = makes
  BY DEF handleAddOvnEip, api, caches, env
<1>2. /\ lease \in [Eips -> IPs] /\ eadd \in [Eips -> EipWork]
      /\ q \in [Queues -> SUBSET (Eips \cup Rules)]
  BY Zenon DEF TypeInv
<1>3. q' \in [Queues -> SUBSET (Eips \cup Rules)]
  BY <1>2, PopTyped, QueueNames, Zenon DEF handleAddOvnEip
<1>4. lease' \in [Eips -> IPs] /\ eadd' \in [Eips -> EipWork]
  <2>1. CASE lease' = lease /\ eadd' = eadd
    BY <1>2, <2>1, Zenon
  <2>2. ASSUME NEW a \in Acquirable(e), lease' = [lease EXCEPT ![e] = a],
               eadd' = [eadd EXCEPT ![e] = At("acquired", a, NoEip)]
        PROVE  lease' \in [Eips -> IPs] /\ eadd' \in [Eips -> EipWork]
    <3>1. a \in IPs
      BY AcquirableTyped, Zenon
    <3>2. At("acquired", a, NoEip) \in EipWork
      BY <3>1, NoEipOk, Zenon DEF At, EipWork, EipOk
    <3> QED  BY <1>2, <2>2, <3>1, <3>2, Zenon
  <2>3. \/ lease' = lease /\ eadd' = eadd
        \/ \E a \in Acquirable(e) :
              /\ lease' = [lease EXCEPT ![e] = a]
              /\ eadd' = [eadd EXCEPT ![e] = At("acquired", a, NoEip)]
    BY DEF handleAddOvnEip
  <2> QED  BY <2>1, <2>2, <2>3, Zenon
<1>5. EipTypes'
  BY <1>1, <1>3, <1>4, Zenon DEF TypeInv, EipTypes
<1> QED  BY <1>1, <1>5, EipTypesKept, Zenon

LEMMA RetryAddEipTyped ==
    ASSUME TypeInv, NEW e \in Eips, RetryAddEip(e)
    PROVE  /\ eadd' \in [Eips -> EipWork]
           /\ q' \in [Queues -> SUBSET (Eips \cup Rules)]
<1>1. /\ eadd \in [Eips -> EipWork]
      /\ q \in [Queues -> SUBSET (Eips \cup Rules)]
  BY Zenon DEF TypeInv
<1> QED  BY <1>1, IdleTyped, PushTyped, QueueNames, e \in Eips \cup Rules,
            Zenon DEF RetryAddEip

\* EIP p is EIP o with address a in its spec.
WithSpec(p, o, a) ==
    /\ EipOk(p) /\ p.uid = o.uid /\ p.term = o.term /\ p.ip = o.ip
    /\ p.spec = a

\* The Update of a spec and the patch of a status change nothing else.
LEMMA SpecWritten ==
    ASSUME NEW o, EipOk(o), Exists(o), NEW a \in IPs
    PROVE  WithSpec([o EXCEPT !.spec = a], o, a)
<1> DEFINE p == [o EXCEPT !.spec = a]
<1>1. o \in Eip
  BY Zenon DEF EipOk
<1>2. p \in Eip
  BY <1>1, Zenon DEF Eip
<1>3. p.uid = o.uid /\ p.term = o.term /\ p.ip = o.ip /\ p.spec = a
  BY <1>1 DEF Eip
<1> HIDE DEF p
<1>4. EipOk(p)
  BY <1>2, <1>3, Zenon DEF EipOk, Exists
<1>5. WithSpec(p, o, a)
  BY <1>3, <1>4, Zenon DEF WithSpec
<1> QED  BY <1>5, Zenon DEF p

LEMMA StatusWritten ==
    ASSUME NEW o, EipOk(o), Exists(o), NEW a \in IPs, NEW y \in BOOLEAN,
           NEW n \in SUBSET Kinds
    PROVE  WithStatus([o EXCEPT !.ip = a, !.ready = y, !.nat = n], o, a)
<1> DEFINE p == [o EXCEPT !.ip = a, !.ready = y, !.nat = n]
<1>1. o \in Eip
  BY Zenon DEF EipOk
<1>2. p \in Eip
  BY <1>1, Zenon DEF Eip
<1>3. p.uid = o.uid /\ p.term = o.term /\ p.ip = a /\ p.spec = o.spec
  BY <1>1 DEF Eip
<1> HIDE DEF p
<1>4. EipOk(p)
  BY <1>2, <1>3, Zenon DEF EipOk, Exists
<1>5. WithStatus(p, o, a)
  BY <1>3, <1>4, Zenon DEF WithStatus
<1> QED  BY <1>5, Zenon DEF p

\* The three ways createOrUpdateOvnEipCR goes: it makes an EIP, gives up, or
\* goes on to the status.
Remade(e) ==
    /\ ~Exists(eip[e])
    /\ uids' = [uids EXCEPT ![e] = @ + 1]
    /\ eip' = [eip EXCEPT ![e] = NewEip(uids[e] + 1, TRUE, eadd[e].ip)]
    /\ eadd' = [eadd EXCEPT ![e] = At("patched", eadd[e].ip, NoEip)]
    /\ q' = q

Retried(e) ==
    RetryAddEip(e) /\ eip' = eip /\ uids' = uids

Updated(e) ==
    /\ Exists(ceip[e])
    /\ \/ ceip[e].spec = eadd[e].ip /\ eip' = eip
       \/ /\ ceip[e].spec # eadd[e].ip /\ ceip[e] = eip[e]
          /\ eip' = [eip EXCEPT ![e] = [eip[e] EXCEPT !.spec = eadd[e].ip]]
    /\ eadd' = [eadd EXCEPT ![e] = At("updated", eadd[e].ip, ceip[e])]
    /\ uids' = uids /\ q' = q

LEMMA CROutcomes ==
    ASSUME NEW e \in Eips, createOrUpdateOvnEipCR(e)
    PROVE  /\ eadd[e].at = "acquired"
           /\ Remade(e) \/ Retried(e) \/ Updated(e)
           /\ UNCHANGED <<kind, rule, crule, radd, faults>>
           /\ ceip' = ceip /\ lease' = lease /\ eupd' = eupd /\ makes' = makes
<1>1. /\ UNCHANGED <<kind, rule, crule, radd, faults>>
      /\ ceip' = ceip /\ lease' = lease /\ eupd' = eupd /\ makes' = makes
  BY DEF createOrUpdateOvnEipCR, caches, env
<1>2. eadd[e].at = "acquired"
  BY Zenon DEF createOrUpdateOvnEipCR
<1>3. Remade(e) \/ Retried(e) \/ Updated(e)
  <2>1. \/ Remade(e)
        \/ RetryAddEip(e) /\ UNCHANGED <<eip, uids>>
        \/ /\ Exists(ceip[e])
           /\ ceip[e].spec # eadd[e].ip => ceip[e] = eip[e]
           /\ eip' = IF ceip[e].spec # eadd[e].ip
                     THEN [eip EXCEPT ![e].spec = eadd[e].ip] ELSE eip
           /\ eadd' = [eadd EXCEPT ![e] = At("updated", eadd[e].ip, ceip[e])]
           /\ UNCHANGED <<uids, q>>
    BY Zenon DEF createOrUpdateOvnEipCR, Remade
  <2>2. RetryAddEip(e) /\ UNCHANGED <<eip, uids>> => Retried(e)
    BY Zenon DEF Retried
  <2>3. ASSUME Exists(ceip[e]),
               ceip[e].spec # eadd[e].ip => ceip[e] = eip[e],
               eip' = IF ceip[e].spec # eadd[e].ip
                      THEN [eip EXCEPT ![e].spec = eadd[e].ip] ELSE eip,
               eadd' = [eadd EXCEPT ![e] = At("updated", eadd[e].ip, ceip[e])],
               UNCHANGED <<uids, q>>
        PROVE  Updated(e)
    BY <2>3, Zenon DEF Updated
  <2> QED  BY <2>1, <2>2, <2>3, Zenon
<1> QED  BY <1>1, <1>2, <1>3, Zenon

LEMMA CRTyped ==
    ASSUME TypeInv, NEW e \in Eips, createOrUpdateOvnEipCR(e)
    PROVE  TypeInv'
<1>1. /\ Remade(e) \/ Retried(e) \/ Updated(e)
      /\ UNCHANGED <<kind, rule, crule, radd, faults>>
      /\ ceip' = ceip /\ lease' = lease /\ eupd' = eupd /\ makes' = makes
  BY CROutcomes, Zenon
<1>2. /\ EipsOk(eip) /\ EipsOk(ceip) /\ uids \in [Eips \cup Rules -> Nat]
      /\ q \in [Queues -> SUBSET (Eips \cup Rules)] /\ eadd \in [Eips -> EipWork]
  BY Zenon DEF TypeInv
<1>3. eadd[e].ip \in IPs
  <2>1. eadd[e] \in EipWork
    BY <1>2, Zenon
  <2> QED  BY <2>1 DEF EipWork
<1>4. EipOk(eip[e]) /\ EipOk(ceip[e])
  BY <1>2, Zenon DEF EipsOk, EipOk
<1>5. /\ EipsOk(eip') /\ uids' \in [Eips \cup Rules -> Nat]
      /\ q' \in [Queues -> SUBSET (Eips \cup Rules)] /\ eadd' \in [Eips -> EipWork]
  <2>1. CASE Remade(e)
    <3>1. uids[e] + 1 \in Nat /\ uids[e] + 1 # 0
      <4>1. uids[e] \in Nat
        BY <1>2, Zenon
      <4> QED  BY <4>1
    <3>2. EipOk(NewEip(uids[e] + 1, TRUE, eadd[e].ip))
      BY <1>3, <3>1, NewEipOk, Zenon
    <3>3. EipsOk(eip')
      BY <1>2, <2>1, <3>2, EipWritten, Zenon DEF Remade
    <3>4. At("patched", eadd[e].ip, NoEip) \in EipWork
      BY <1>3, NoEipOk, Zenon DEF At, EipWork, EipOk
    <3>5. eadd' \in [Eips -> EipWork] /\ uids' \in [Eips \cup Rules -> Nat]
      BY <1>2, <2>1, <3>1, <3>4, Zenon DEF Remade
    <3> QED  BY <1>2, <2>1, <3>3, <3>5, Zenon DEF Remade
  <2>2. CASE Retried(e)
    BY <1>2, <2>2, RetryAddEipTyped, Zenon DEF Retried
  <2>3. CASE Updated(e)
    <3>1. At("updated", eadd[e].ip, ceip[e]) \in EipWork
      BY <1>3, <1>4, Zenon DEF At, EipWork, EipOk
    <3>2. eadd' \in [Eips -> EipWork]
      BY <1>2, <2>3, <3>1, Zenon DEF Updated
    <3>3. EipsOk(eip')
      <4>1. CASE eip' = eip
        BY <1>2, <4>1, Zenon
      <4>2. CASE ceip[e] = eip[e]
                 /\ eip' = [eip EXCEPT ![e] = [eip[e] EXCEPT !.spec = eadd[e].ip]]
        <5>1. EipOk([eip[e] EXCEPT !.spec = eadd[e].ip])
          BY <1>3, <1>4, <2>3, <4>2, SpecWritten, Zenon DEF Updated, WithSpec
        <5> QED  BY <1>2, <4>2, <5>1, EipWritten, Zenon
      <4> QED  BY <2>3, <4>1, <4>2, Zenon DEF Updated
    <3> QED  BY <1>2, <2>3, <3>2, <3>3, Zenon DEF Updated
  <2> QED  BY <1>1, <2>1, <2>2, <2>3, Zenon
<1>6. EipTypes'
  BY <1>1, <1>5, Zenon DEF TypeInv, EipTypes
<1> QED  BY <1>1, <1>6, EipTypesKept, Zenon

\* Its second half writes the leased address, or nothing.
StatusSet(e) ==
    /\ eip[e] # NoEip
    /\ EipsOk(eip')
    /\ \A g \in Eips \ {e} : eip'[g] = eip[g]
    /\ eip'[e].uid = eip[e].uid /\ eip'[e].term = eip[e].term
    /\ eip'[e].spec = eip[e].spec /\ eip'[e].ip = eadd[e].ip

LEMMA CRStatusOutcomes ==
    ASSUME TypeInv, NEW e \in Eips, createOrUpdateOvnEipCRStatus(e)
    PROVE  /\ eadd[e].at = "updated"
           /\ eip' = eip \/ StatusSet(e)
           /\ eadd' = [eadd EXCEPT ![e] = At("patched", eadd[e].ip, NoEip)]
           /\ UNCHANGED <<kind, rule, crule, radd, faults>>
           /\ ceip' = ceip /\ uids' = uids /\ lease' = lease /\ q' = q
           /\ eupd' = eupd /\ makes' = makes
<1>1. /\ UNCHANGED <<kind, rule, crule, radd, faults>>
      /\ ceip' = ceip /\ uids' = uids /\ lease' = lease /\ q' = q
      /\ eupd' = eupd /\ makes' = makes
  BY DEF createOrUpdateOvnEipCRStatus, caches, env
<1>2. /\ eadd[e].at = "updated"
      /\ eadd' = [eadd EXCEPT ![e] = At("patched", eadd[e].ip, NoEip)]
  BY Zenon DEF createOrUpdateOvnEipCRStatus
<1>3. eip' = eip \/ StatusSet(e)
  <2> DEFINE o == eadd[e].obj
             p == [eip[e] EXCEPT !.ip = eadd[e].ip, !.ready = o.ready, !.nat = o.nat]
  <2>1. \/ eip' = eip
        \/ /\ Exists(eip[e])
           /\ eip' = [eip EXCEPT ![e] = p]
    BY Zenon DEF createOrUpdateOvnEipCRStatus
  <2>2. EipsOk(eip) /\ eadd[e] \in EipWork
    BY Zenon DEF TypeInv
  <2>3. eadd[e].ip \in IPs /\ o \in Eip
    BY <2>2 DEF EipWork
  <2>4. o.ready \in BOOLEAN /\ o.nat \in SUBSET Kinds
    BY <2>3 DEF Eip
  <2>5. ASSUME Exists(eip[e]),
               eip' = [eip EXCEPT ![e] = p]
        PROVE  StatusSet(e)
    <3>1. EipOk(eip[e])
      BY <2>2, Zenon DEF EipsOk, EipOk
    <3>2. WithStatus(p, eip[e], eadd[e].ip)
      BY <2>3, <2>4, <2>5, <3>1, StatusWritten, Zenon
    <3> HIDE DEF p
    <3>3. /\ EipOk(p) /\ p.uid = eip[e].uid /\ p.term = eip[e].term
          /\ p.ip = eadd[e].ip /\ p.spec = eip[e].spec
      BY <3>2, Zenon DEF WithStatus
    <3>4. EipsOk(eip')
      BY <2>2, <2>5, <3>3, EipWritten, Zenon
    <3>5. eip'[e] = p /\ \A g \in Eips \ {e} : eip'[g] = eip[g]
      BY <2>2, <2>5, Zenon DEF EipsOk
    <3>6. eip[e] # NoEip
      BY <2>5, NoFields, Zenon DEF Exists
    <3> QED  BY <3>3, <3>4, <3>5, <3>6, Zenon DEF StatusSet
  <2> QED  BY <2>1, <2>5, Zenon
<1> QED  BY <1>1, <1>2, <1>3, Zenon

LEMMA CRStatusTyped ==
    ASSUME TypeInv, NEW e \in Eips, createOrUpdateOvnEipCRStatus(e)
    PROVE  TypeInv'
<1>1. /\ eip' = eip \/ StatusSet(e)
      /\ eadd' = [eadd EXCEPT ![e] = At("patched", eadd[e].ip, NoEip)]
      /\ UNCHANGED <<kind, rule, crule, radd, faults>>
      /\ ceip' = ceip /\ uids' = uids /\ lease' = lease /\ q' = q
      /\ eupd' = eupd /\ makes' = makes
  BY CRStatusOutcomes, Zenon
<1>2. EipsOk(eip) /\ eadd \in [Eips -> EipWork] /\ eadd[e] \in EipWork
  BY Zenon DEF TypeInv
<1>3. eadd[e].ip \in IPs
  BY <1>2 DEF EipWork
<1>4. At("patched", eadd[e].ip, NoEip) \in EipWork
  BY <1>3, NoEipOk, Zenon DEF At, EipWork, EipOk
<1>5. EipsOk(eip') /\ eadd' \in [Eips -> EipWork]
  BY <1>1, <1>2, <1>4, Zenon DEF StatusSet
<1>6. EipTypes'
  BY <1>1, <1>5, Zenon DEF TypeInv, EipTypes
<1> QED  BY <1>1, <1>6, EipTypesKept, Zenon

LEMMA ReadyOutcomes ==
    ASSUME TypeInv, NEW e \in Eips, handleAddOvnEipReady(e)
    PROVE  /\ eadd[e].at = "patched"
           /\ \/ RetryAddEip(e) /\ eip' = eip
              \/ /\ Patched(eip', e)
                 /\ eadd' = [eadd EXCEPT ![e] = IdleEip]
                 /\ q' = q
           /\ UNCHANGED <<kind, rule, crule, radd, faults>>
           /\ ceip' = ceip /\ uids' = uids /\ lease' = lease
           /\ eupd' = eupd /\ makes' = makes
<1>1. /\ UNCHANGED <<kind, rule, crule, radd, faults>>
      /\ ceip' = ceip /\ uids' = uids /\ lease' = lease
      /\ eupd' = eupd /\ makes' = makes
  BY DEF handleAddOvnEipReady, caches, env
<1>2. eadd[e].at = "patched"
  BY Zenon DEF handleAddOvnEipReady
<1>3. \/ RetryAddEip(e) /\ eip' = eip
      \/ /\ Patched(eip', e)
         /\ eadd' = [eadd EXCEPT ![e] = IdleEip]
         /\ q' = q
  <2>1. CASE patchOvnEipStatusFails(e, TRUE)
    BY <2>1, Zenon DEF handleAddOvnEipReady
  <2>2. CASE ~patchOvnEipStatusFails(e, TRUE)
    <3>1. Patched(patchOvnEipStatus(e, TRUE), e)
      BY <2>2, PatchedStatus, Zenon
    <3> QED  BY <2>2, <3>1, Zenon DEF handleAddOvnEipReady
  <2> QED  BY <2>1, <2>2
<1> QED  BY <1>1, <1>2, <1>3, Zenon

LEMMA ReadyTyped ==
    ASSUME TypeInv, NEW e \in Eips, handleAddOvnEipReady(e)
    PROVE  TypeInv'
<1>1. /\ \/ RetryAddEip(e) /\ eip' = eip
         \/ /\ Patched(eip', e)
            /\ eadd' = [eadd EXCEPT ![e] = IdleEip]
            /\ q' = q
      /\ UNCHANGED <<kind, rule, crule, radd, faults>>
      /\ ceip' = ceip /\ uids' = uids /\ lease' = lease
      /\ eupd' = eupd /\ makes' = makes
  BY ReadyOutcomes, Zenon
<1>2. /\ EipsOk(eip) /\ eadd \in [Eips -> EipWork]
      /\ q \in [Queues -> SUBSET (Eips \cup Rules)]
  BY Zenon DEF TypeInv
<1>3. /\ EipsOk(eip') /\ eadd' \in [Eips -> EipWork]
      /\ q' \in [Queues -> SUBSET (Eips \cup Rules)]
  <2>1. CASE RetryAddEip(e) /\ eip' = eip
    BY <1>2, <2>1, RetryAddEipTyped, Zenon
  <2>2. CASE Patched(eip', e) /\ eadd' = [eadd EXCEPT ![e] = IdleEip] /\ q' = q
    BY <1>2, <2>2, IdleTyped, Zenon DEF Patched
  <2> QED  BY <1>1, <2>1, <2>2, Zenon
<1>4. EipTypes'
  BY <1>1, <1>3, Zenon DEF TypeInv, EipTypes
<1> QED  BY <1>1, <1>4, EipTypesKept, Zenon

\* The ways handleUpdateOvnEip goes: only an EIP in deletion gives back its
\* lease.
EipKeptBy(f, e) ==
    /\ EipsOk(f)
    /\ \A g \in Eips \ {e} : f[g] = eip[g]
    /\ f[e] = eip[e] \/ SameEip(f[e], eip[e])

LEMMA UpdateEipOutcomes ==
    ASSUME TypeInv, NEW e \in Eips, handleUpdateOvnEip(e)
    PROVE  /\ \/ /\ Exists(ceip[e]) /\ ceip[e].term
                 /\ lease' = [lease EXCEPT ![e] = NoIP]
                 /\ eupd' = {e} /\ eip' = eip
              \/ /\ lease' = lease /\ eupd' = eupd
                 /\ EipKeptBy(eip', e)
           /\ q' = q \/ q' = Pop("updEip", e)
           /\ UNCHANGED <<kind, rule, crule, radd, faults>>
           /\ ceip' = ceip /\ uids' = uids /\ eadd' = eadd /\ makes' = makes
<1>1. /\ UNCHANGED <<kind, rule, crule, radd, faults>>
      /\ ceip' = ceip /\ uids' = uids /\ eadd' = eadd /\ makes' = makes
  BY DEF handleUpdateOvnEip, caches, env
<1>2. EipsOk(eip)
  BY Zenon DEF TypeInv
<1>3. EipKeptBy(eip, e)
  BY <1>2, Zenon DEF EipKeptBy
<1>4. EipKeptBy([eip EXCEPT ![e] = Finalized(eip[e])], e)
  <2>1. EipOk(eip[e])
    BY <1>2, Zenon DEF EipsOk, EipOk
  <2>2. EipOk(Finalized(eip[e])) /\ SameEip(Finalized(eip[e]), eip[e])
    BY <2>1, FinalizedEip, Zenon
  <2>3. EipsOk([eip EXCEPT ![e] = Finalized(eip[e])])
    BY <1>2, <2>2, EipWritten, Zenon
  <2>4. /\ [eip EXCEPT ![e] = Finalized(eip[e])][e] = Finalized(eip[e])
        /\ \A g \in Eips \ {e} :
              [eip EXCEPT ![e] = Finalized(eip[e])][g] = eip[g]
    BY <1>2, Zenon DEF EipsOk
  <2> QED  BY <2>2, <2>3, <2>4, Zenon DEF EipKeptBy
<1>5. q' = q \/ q' = Pop("updEip", e)
  BY Zenon DEF handleUpdateOvnEip
<1>6. \/ /\ Exists(ceip[e]) /\ ceip[e].term
         /\ lease' = [lease EXCEPT ![e] = NoIP]
         /\ eupd' = {e} /\ eip' = eip
      \/ /\ lease' = lease /\ eupd' = eupd
         /\ \/ eip' = eip
            \/ eip' = [eip EXCEPT ![e] = Finalized(eip[e])]
  BY Zenon DEF handleUpdateOvnEip
<1> QED  BY <1>1, <1>3, <1>4, <1>5, <1>6, Zenon

LEMMA UpdateEipTyped ==
    ASSUME TypeInv, NEW e \in Eips, handleUpdateOvnEip(e)
    PROVE  TypeInv'
<1>1. /\ \/ /\ lease' = [lease EXCEPT ![e] = NoIP]
            /\ eupd' = {e} /\ eip' = eip
         \/ /\ lease' = lease /\ eupd' = eupd
            /\ EipKeptBy(eip', e)
      /\ q' = q \/ q' = Pop("updEip", e)
      /\ UNCHANGED <<kind, rule, crule, radd, faults>>
      /\ ceip' = ceip /\ uids' = uids /\ eadd' = eadd /\ makes' = makes
  BY UpdateEipOutcomes, Zenon
<1>2. /\ EipsOk(eip) /\ lease \in [Eips -> IPs] /\ eupd \subseteq Eips
      /\ q \in [Queues -> SUBSET (Eips \cup Rules)]
  BY Zenon DEF TypeInv
<1>3. q' \in [Queues -> SUBSET (Eips \cup Rules)]
  <2>1. q' = q \/ \E queue \in Queues : q' = Push(queue, e) \/ q' = Pop(queue, e)
    BY <1>1, QueueNames, Zenon
  <2> QED  BY <1>2, <2>1, QueuesTyped, e \in Eips \cup Rules, Zenon
<1>4. EipsOk(eip') /\ lease' \in [Eips -> IPs] /\ eupd' \subseteq Eips
  BY <1>1, <1>2, NoIPTyped, Zenon DEF EipKeptBy
<1>5. EipTypes'
  BY <1>1, <1>3, <1>4, Zenon DEF TypeInv, EipTypes
<1> QED  BY <1>1, <1>5, EipTypesKept, Zenon

\* Taking the finalizer ends an EIP in deletion.
LEMMA DelFinalizerOutcomes ==
    ASSUME TypeInv, NEW e \in Eips, handleDelOvnEipFinalizer(e)
    PROVE  /\ \/ EipKeptBy(eip', e)
              \/ /\ eip[e].term
                 /\ EipsOk(eip') /\ eip'[e] = NoEip
                 /\ \A g \in Eips \ {e} : eip'[g] = eip[g]
           /\ q' = q \/ q' = Push("updEip", e)
           /\ eupd' = {}
           /\ UNCHANGED <<kind, rule, crule, radd, faults>>
           /\ ceip' = ceip /\ uids' = uids /\ lease' = lease /\ eadd' = eadd
           /\ makes' = makes
<1>1. /\ UNCHANGED <<kind, rule, crule, radd, faults>>
      /\ ceip' = ceip /\ uids' = uids /\ lease' = lease /\ eadd' = eadd
      /\ makes' = makes
  BY DEF handleDelOvnEipFinalizer, caches, env
<1>2. eupd' = {} /\ (q' = q \/ q' = Push("updEip", e))
  BY Zenon DEF handleDelOvnEipFinalizer
<1>3. EipsOk(eip)
  BY Zenon DEF TypeInv
<1> DEFINE x == Unfinalized(eip[e], NoEip)
<1>4. \/ eip' = eip
      \/ Exists(eip[e]) /\ eip' = [eip EXCEPT ![e] = x]
  BY Zenon DEF handleDelOvnEipFinalizer
<1>5. CASE eip' = eip
  BY <1>1, <1>2, <1>3, <1>5, Zenon DEF EipKeptBy
<1>6. CASE Exists(eip[e]) /\ eip' = [eip EXCEPT ![e] = x]
  <2>1. EipOk(eip[e])
    BY <1>3, Zenon DEF EipsOk, EipOk
  <2>2. /\ EipOk(x) /\ (eip[e].term => x = NoEip)
        /\ (~eip[e].term => SameEip(x, eip[e]))
    BY <1>6, <2>1, UnfinalizedEip, Zenon
  <2> HIDE DEF x
  <2>3. EipsOk(eip')
    BY <1>3, <1>6, <2>2, EipWritten, Zenon
  <2>4. eip'[e] = x /\ \A g \in Eips \ {e} : eip'[g] = eip[g]
    BY <1>3, <1>6, Zenon DEF EipsOk
  <2> QED  BY <1>1, <1>2, <2>2, <2>3, <2>4, Zenon DEF EipKeptBy
<1> QED  BY <1>4, <1>5, <1>6, Zenon

LEMMA DelFinalizerTyped ==
    ASSUME TypeInv, NEW e \in Eips, handleDelOvnEipFinalizer(e)
    PROVE  TypeInv'
<1>1. /\ EipsOk(eip')
      /\ q' = q \/ q' = Push("updEip", e)
      /\ eupd' = {}
      /\ UNCHANGED <<kind, rule, crule, radd, faults>>
      /\ ceip' = ceip /\ uids' = uids /\ lease' = lease /\ eadd' = eadd
      /\ makes' = makes
  BY DelFinalizerOutcomes, Zenon DEF EipKeptBy
<1>2. q \in [Queues -> SUBSET (Eips \cup Rules)]
  BY Zenon DEF TypeInv
<1>3. q' \in [Queues -> SUBSET (Eips \cup Rules)]
  <2>1. q' = q \/ \E queue \in Queues : q' = Push(queue, e) \/ q' = Pop(queue, e)
    BY <1>1, QueueNames, Zenon
  <2> QED  BY <1>2, <2>1, QueuesTyped, e \in Eips \cup Rules, Zenon
<1>4. EipTypes'
  BY <1>1, <1>3, Zenon DEF TypeInv, EipTypes
<1> QED  BY <1>1, <1>4, EipTypesKept, Zenon

LEMMA ResetOutcomes ==
    ASSUME TypeInv, NEW e \in Eips, handleResetOvnEip(e)
    PROVE  /\ e \in q["resetEip"]
           /\ eip' = eip \/ Patched(eip', e)
           /\ q' = Pop("resetEip", e)
           /\ UNCHANGED <<kind, rule, crule, radd, faults>>
           /\ ceip' = ceip /\ uids' = uids /\ lease' = lease /\ eadd' = eadd
           /\ eupd' = eupd /\ makes' = makes
<1>1. /\ UNCHANGED <<kind, rule, crule, radd, faults>>
      /\ ceip' = ceip /\ uids' = uids /\ lease' = lease /\ eadd' = eadd
      /\ eupd' = eupd /\ makes' = makes
  BY DEF handleResetOvnEip, caches, workers, env
<1>2. e \in q["resetEip"] /\ q' = Pop("resetEip", e)
  BY Zenon DEF handleResetOvnEip
<1>3. eip' = eip \/ Patched(eip', e)
  BY PatchedStatus, Zenon DEF handleResetOvnEip
<1> QED  BY <1>1, <1>2, <1>3, Zenon

LEMMA ResetTyped ==
    ASSUME TypeInv, NEW e \in Eips, handleResetOvnEip(e)
    PROVE  TypeInv'
<1>1. /\ eip' = eip \/ Patched(eip', e)
      /\ q' = Pop("resetEip", e)
      /\ UNCHANGED <<kind, rule, crule, radd, faults>>
      /\ ceip' = ceip /\ uids' = uids /\ lease' = lease /\ eadd' = eadd
      /\ eupd' = eupd /\ makes' = makes
  BY ResetOutcomes, Zenon
<1>2. EipsOk(eip) /\ q \in [Queues -> SUBSET (Eips \cup Rules)]
  BY Zenon DEF TypeInv
<1>3. EipsOk(eip')
  BY <1>1, <1>2, Zenon DEF Patched
<1>4. q' \in [Queues -> SUBSET (Eips \cup Rules)]
  BY <1>1, <1>2, PopTyped, QueueNames, Zenon
<1>5. EipTypes'
  BY <1>1, <1>3, <1>4, Zenon DEF TypeInv, EipTypes
<1> QED  BY <1>1, <1>5, EipTypesKept, Zenon

LEMMA HandleDelOvnEipTyped ==
    ASSUME TypeInv, NEW e \in Eips, handleDelOvnEip(e)
    PROVE  TypeInv'
<1>1. /\ UNCHANGED <<kind, rule, crule, radd, faults>>
      /\ eip' = eip /\ ceip' = ceip /\ uids' = uids /\ eadd' = eadd /\ eupd' = eupd
      /\ makes' = makes
  BY DEF handleDelOvnEip, api, caches, workers, env
<1>2. lease' = [lease EXCEPT ![e] = NoIP] /\ q' = Pop("delEip", e)
  BY Zenon DEF handleDelOvnEip
<1>3. lease \in [Eips -> IPs] /\ q \in [Queues -> SUBSET (Eips \cup Rules)]
  BY Zenon DEF TypeInv
<1>4. lease' \in [Eips -> IPs]
  BY <1>2, <1>3, NoIPTyped, Zenon
<1>5. q' \in [Queues -> SUBSET (Eips \cup Rules)]
  BY <1>2, <1>3, PopTyped, QueueNames, Zenon
<1>6. EipTypes'
  BY <1>1, <1>4, <1>5, Zenon DEF TypeInv, EipTypes
<1> QED  BY <1>1, <1>6, EipTypesKept, Zenon

LEMMA EipStepTyped ==
    ASSUME TypeInv, NEW e \in Eips, EipStep(e)
    PROVE  TypeInv'
BY CreateEipTyped, DeleteEipTyped, EipEventTyped, HandleAddOvnEipTyped, CRTyped,
   CRStatusTyped, ReadyTyped, UpdateEipTyped, DelFinalizerTyped, ResetTyped,
   HandleDelOvnEipTyped, Zenon DEF EipStep

\* The parts of TypeInv that steps of rules change.
RuleTypes ==
    /\ EipsOk(eip)
    /\ RulesOk(rule) /\ RulesOk(crule)
    /\ uids \in [Eips \cup Rules -> Nat]
    /\ q \in [Queues -> SUBSET (Eips \cup Rules)]
    /\ radd \in [Rules -> RuleWork]
    /\ makes \in [Eips \cup Rules -> 0 .. MaxMakes]

LEMMA RuleTypesKept ==
    ASSUME TypeInv, RuleTypes', UNCHANGED <<kind, ceip, lease, eadd, eupd, faults>>
    PROVE  TypeInv'
<1>1. /\ kind' = kind /\ ceip' = ceip /\ lease' = lease /\ eadd' = eadd
      /\ eupd' = eupd /\ faults' = faults
  OBVIOUS
<1> QED  BY <1>1, Zenon DEF TypeInv, RuleTypes

LEMMA CreateRuleTyped ==
    ASSUME TypeInv, NEW r \in Rules, CreateRule(r)
    PROVE  TypeInv'
<1>1. /\ UNCHANGED <<kind, ceip, lease, eadd, eupd, faults>>
      /\ eip' = eip /\ crule' = crule /\ q' = q /\ radd' = radd
  BY DEF CreateRule, caches, workers
<1>2. /\ makes[r] > 0
      /\ makes' = [makes EXCEPT ![r] = @ - 1]
      /\ uids' = [uids EXCEPT ![r] = @ + 1]
      /\ rule' = [rule EXCEPT ![r] = NewRule(uids[r] + 1)]
  BY Zenon DEF CreateRule
<1>3. /\ uids \in [Eips \cup Rules -> Nat]
      /\ makes \in [Eips \cup Rules -> 0 .. MaxMakes]
      /\ RulesOk(rule)
  BY Zenon DEF TypeInv
<1>4. MaxMakes \in Nat
  BY ConstantsAssumption, Zenon
<1>5. uids[r] \in Nat /\ makes[r] \in 0 .. MaxMakes
  BY <1>3, Zenon
<1>6. uids[r] + 1 \in Nat /\ uids[r] + 1 # 0 /\ makes[r] - 1 \in 0 .. MaxMakes
  BY <1>2, <1>4, <1>5
<1>7. RuleOk(NewRule(uids[r] + 1))
  BY <1>6, NewRuleOk, Zenon
<1>8. RulesOk(rule')
  BY <1>2, <1>3, <1>7, RuleWritten, Zenon
<1>9. uids' \in [Eips \cup Rules -> Nat] /\ makes' \in [Eips \cup Rules -> 0 .. MaxMakes]
  BY <1>2, <1>3, <1>6, Zenon
<1>10. RuleTypes'
  BY <1>1, <1>8, <1>9, Zenon DEF TypeInv, RuleTypes
<1> QED  BY <1>1, <1>10, RuleTypesKept, Zenon

LEMMA DeleteRuleTyped ==
    ASSUME TypeInv, NEW r \in Rules, DeleteRule(r)
    PROVE  TypeInv'
<1>1. /\ UNCHANGED <<kind, ceip, lease, eadd, eupd, faults>>
      /\ eip' = eip /\ crule' = crule /\ uids' = uids /\ q' = q /\ radd' = radd
      /\ makes' = makes
  BY DEF DeleteRule, caches, workers, env
<1>2. rule' = [rule EXCEPT ![r] = Deleted(rule[r], NoRule)]
  BY Zenon DEF DeleteRule
<1>3. RulesOk(rule)
  BY Zenon DEF TypeInv
<1>4. RuleOk(rule[r])
  BY <1>3, Zenon DEF RulesOk, RuleOk
<1>5. RulesOk(rule')
  BY <1>2, <1>3, <1>4, DeletedRule, RuleWritten, Zenon
<1>6. RuleTypes'
  BY <1>1, <1>5, Zenon DEF TypeInv, RuleTypes
<1> QED  BY <1>1, <1>6, RuleTypesKept, Zenon

LEMMA RuleEventTyped ==
    ASSUME TypeInv, NEW r \in Rules, RuleAdded(r) \/ RuleUpdated(r) \/ RuleDeleted(r)
    PROVE  TypeInv'
<1>1. /\ UNCHANGED <<kind, ceip, lease, eadd, eupd, faults>>
      /\ eip' = eip /\ rule' = rule /\ uids' = uids /\ radd' = radd /\ makes' = makes
  BY DEF RuleAdded, RuleUpdated, RuleDeleted, api, workers, env
<1>2. RulesOk(rule) /\ RulesOk(crule) /\ q \in [Queues -> SUBSET (Eips \cup Rules)]
  BY Zenon DEF TypeInv
<1>3. RuleOk(rule[r])
  BY <1>2, Zenon DEF RulesOk, RuleOk
<1>4. crule' = [crule EXCEPT ![r] = rule[r]] \/ crule' = [crule EXCEPT ![r] = NoRule]
  BY Zenon DEF RuleAdded, RuleUpdated, RuleDeleted
<1>5. RulesOk(crule')
  <2>1. CASE crule' = [crule EXCEPT ![r] = rule[r]]
    BY <1>2, <1>3, <2>1, RuleWritten, Zenon
  <2>2. CASE crule' = [crule EXCEPT ![r] = NoRule]
    BY <1>2, <2>2, NoRuleOk, RuleWritten, Zenon
  <2> QED  BY <1>4, <2>1, <2>2, Zenon
<1>6. \/ q' = q \/ q' = Push("updRule", r) \/ q' = Push("addRule", r)
      \/ q' = Push("delRule", r)
  BY Zenon DEF RuleAdded, RuleUpdated, RuleDeleted,
               enqueueUpdateIfTerminatingWithFinalizer
<1>7. q' \in [Queues -> SUBSET (Eips \cup Rules)]
  <2>1. q' = q \/ \E queue \in Queues : q' = Push(queue, r) \/ q' = Pop(queue, r)
    BY <1>6, QueueNames, Zenon
  <2> QED  BY <1>2, <2>1, QueuesTyped, r \in Eips \cup Rules, Zenon
<1>8. RuleTypes'
  BY <1>1, <1>2, <1>5, <1>7, Zenon DEF TypeInv, RuleTypes
<1> QED  BY <1>1, <1>8, RuleTypesKept, Zenon

LEMMA AddsTyped ==
    ASSUME TypeInv, NEW r \in Rules, Adds(r)
    PROVE  TypeInv'
<1>1. /\ UNCHANGED <<kind, ceip, lease, eadd, eupd, faults>>
      /\ eip' = eip /\ rule' = rule /\ crule' = crule /\ uids' = uids
      /\ makes' = makes
  BY DEF Adds, api, caches, env
<1>2. /\ EipsOk(ceip) /\ RulesOk(crule) /\ radd \in [Rules -> RuleWork]
      /\ q \in [Queues -> SUBSET (Eips \cup Rules)]
  BY Zenon DEF TypeInv
<1>3. q' \in [Queues -> SUBSET (Eips \cup Rules)]
  BY <1>2, PopTyped, QueueNames, Zenon DEF Adds
<1>4. radd' \in [Rules -> RuleWork]
  <2>1. EipOf[r] \in Eips
    BY ConstantsAssumption, Zenon
  <2>2. ceip[EipOf[r]] \in Eip /\ crule[r] \in Rule
    BY <1>2, <2>1, Zenon DEF EipsOk, RulesOk
  <2>3. ceip[EipOf[r]].ip \in IPs
    BY <2>2 DEF Eip
  <2>4. At("rows", ceip[EipOf[r]].ip, crule[r]) \in RuleWork
    BY <2>2, <2>3, Zenon DEF At, RuleWork
  <2>5. \/ radd' = radd
        \/ radd' = [radd EXCEPT ![r] = At("rows", ceip[EipOf[r]].ip, crule[r])]
    BY DEF Adds, Started
  <2> QED  BY <1>2, <2>4, <2>5, Zenon
<1>5. RuleTypes'
  BY <1>1, <1>3, <1>4, Zenon DEF TypeInv, RuleTypes
<1> QED  BY <1>1, <1>5, RuleTypesKept, Zenon

LEMMA RetryAddRuleTyped ==
    ASSUME TypeInv, NEW r \in Rules, RetryAddRule(r)
    PROVE  /\ radd' \in [Rules -> RuleWork]
           /\ q' \in [Queues -> SUBSET (Eips \cup Rules)]
<1>1. /\ radd \in [Rules -> RuleWork]
      /\ q \in [Queues -> SUBSET (Eips \cup Rules)]
  BY Zenon DEF TypeInv
<1> QED  BY <1>1, IdleTyped, PushTyped, QueueNames, r \in Eips \cup Rules,
            Zenon DEF RetryAddRule

\* What a patch of another field leaves of the rules.
RuleKeptBy(f, r) ==
    /\ RulesOk(f)
    /\ \A s \in Rules \ {r} : f[s] = rule[s]
    /\ f[r] = rule[r] \/ SameRule(f[r], rule[r])

LEMMA RuleKept ==
    ASSUME TypeInv, NEW r \in Rules, NEW x, RuleOk(x), SameRule(x, rule[r])
    PROVE  RuleKeptBy([rule EXCEPT ![r] = x], r)
<1>1. RulesOk(rule)
  BY Zenon DEF TypeInv
<1>2. RulesOk([rule EXCEPT ![r] = x])
  BY <1>1, RuleWritten, Zenon
<1>3. /\ [rule EXCEPT ![r] = x][r] = x
      /\ \A s \in Rules \ {r} : [rule EXCEPT ![r] = x][s] = rule[s]
  BY <1>1, Zenon DEF RulesOk
<1> QED  BY <1>2, <1>3, Zenon DEF RuleKeptBy

LEMMA RuleNotChanged ==
    ASSUME TypeInv, NEW r \in Rules
    PROVE  RuleKeptBy(rule, r)
BY Zenon DEF TypeInv, RuleKeptBy

\* The add handler of a rule goes on to p.
Moved(r, p) ==
    /\ radd'[r].at = p /\ radd'[r].ip = radd[r].ip
    /\ \A s \in Rules \ {r} : radd'[s] = radd[s]
    /\ radd' \in [Rules -> RuleWork]

LEMMA MovedOn ==
    ASSUME TypeInv, NEW r \in Rules,
           NEW p \in {"finalizer", "label", "status"},
           radd' = [radd EXCEPT ![r].at = p]
    PROVE  Moved(r, p)
<1> DEFINE x == [radd[r] EXCEPT !.at = p]
<1>1. radd \in [Rules -> RuleWork]
  BY Zenon DEF TypeInv
<1>2. radd[r] \in RuleWork
  BY <1>1, Zenon
<1>3. p \in {"idle", "rows", "finalizer", "label", "status"}
  BY Zenon
<1>4. x \in RuleWork
  BY <1>2, <1>3, Zenon DEF RuleWork
<1>5. x.at = p /\ x.ip = radd[r].ip
  BY <1>2 DEF RuleWork
<1>6. radd' = [radd EXCEPT ![r] = x]
  BY <1>1, SMT
<1> HIDE DEF x
<1>7. radd'[r] = x /\ \A s \in Rules \ {r} : radd'[s] = radd[s]
  BY <1>1, <1>6, Zenon
<1>8. radd' \in [Rules -> RuleWork]
  BY <1>1, <1>4, <1>6, Zenon
<1> QED  BY <1>5, <1>7, <1>8, Zenon DEF Moved

\* What the steps of the add handler leave alone.
WorkerFrame ==
    /\ UNCHANGED <<kind, ceip, lease, eadd, eupd, faults>>
    /\ crule' = crule /\ uids' = uids /\ rows' = rows /\ makes' = makes

LEMMA AddFinalizerOutcomes ==
    ASSUME TypeInv, NEW r \in Rules, AddFinalizer(r)
    PROVE  /\ radd[r].at = "rows"
           /\ RuleKeptBy(rule', r)
           /\ RetryAddRule(r) \/ (Moved(r, "finalizer") /\ q' = q)
           /\ eip' = eip /\ WorkerFrame
<1>1. eip' = eip /\ WorkerFrame
  BY DEF AddFinalizer, caches, env, WorkerFrame
<1>2. radd[r].at = "rows"
  BY Zenon DEF AddFinalizer
<1>3. RuleKeptBy(rule', r)
  <2>1. RulesOk(rule)
    BY Zenon DEF TypeInv
  <2>2. RuleOk(rule[r])
    BY <2>1, Zenon DEF RulesOk, RuleOk
  <2>3. RuleOk(Finalized(rule[r])) /\ SameRule(Finalized(rule[r]), rule[r])
    BY <2>2, FinalizedRule, Zenon
  <2>4. rule' = rule \/ rule' = [rule EXCEPT ![r] = Finalized(rule[r])]
    BY Zenon DEF AddFinalizer
  <2> QED  BY <2>3, <2>4, RuleKept, RuleNotChanged, Zenon
<1>4. RetryAddRule(r) \/ (radd' = [radd EXCEPT ![r].at = "finalizer"] /\ q' = q)
  BY Zenon DEF AddFinalizer
<1>5. RetryAddRule(r) \/ (Moved(r, "finalizer") /\ q' = q)
  BY <1>4, MovedOn, Zenon
<1> QED  BY <1>1, <1>2, <1>3, <1>5, Zenon

LEMMA LabelRuleOutcomes ==
    ASSUME TypeInv, NEW r \in Rules, LabelRule(r)
    PROVE  /\ radd[r].at = "finalizer"
           /\ RuleKeptBy(rule', r)
           /\ RetryAddRule(r) \/ ((Moved(r, "label") \/ Moved(r, "status")) /\ q' = q)
           /\ eip' = eip /\ WorkerFrame
<1>1. eip' = eip /\ WorkerFrame
  BY DEF LabelRule, caches, env, WorkerFrame
<1>2. radd[r].at = "finalizer"
  BY Zenon DEF LabelRule
<1>3. RulesOk(rule) /\ radd[r] \in RuleWork
  BY Zenon DEF TypeInv
<1>4. rule[r] \in Rule /\ radd[r].ip \in IPs
  BY <1>3 DEF RulesOk, RuleWork
<1>5. RuleKeptBy(rule', r)
  <2> DEFINE x == [rule[r] EXCEPT !.label = radd[r].ip]
  <2>1. \/ rule' = rule
        \/ /\ Exists(crule[r]) /\ ~GoneUnseen(crule[r], rule[r])
           /\ rule' = [rule EXCEPT ![r].label = radd[r].ip]
    BY Zenon DEF LabelRule
  <2>2. CASE rule' = rule
    BY <2>2, RuleNotChanged, Zenon
  <2>3. CASE /\ Exists(crule[r]) /\ ~GoneUnseen(crule[r], rule[r])
             /\ rule' = [rule EXCEPT ![r].label = radd[r].ip]
    <3>1. Exists(rule[r])
      BY <2>3, Zenon DEF GoneUnseen
    <3>2. x \in Rule
      BY <1>4, Zenon DEF Rule
    <3>3. SameRule(x, rule[r])
      BY <1>4 DEF Rule, SameRule
    <3>4. rule' = [rule EXCEPT ![r] = x]
      BY <1>3, <2>3, SMT DEF RulesOk
    <3> HIDE DEF x
    <3>5. RuleOk(x)
      BY <3>1, <3>2, <3>3, Zenon DEF RuleOk, Exists, SameRule
    <3> QED  BY <3>3, <3>4, <3>5, RuleKept, Zenon
  <2> QED  BY <2>1, <2>2, <2>3, Zenon
<1>6. \/ RetryAddRule(r)
      \/ /\ radd' = [radd EXCEPT ![r].at = IF Exists(crule[r]) THEN "label" ELSE "status"]
         /\ q' = q
  BY Zenon DEF LabelRule
<1>7. \/ RetryAddRule(r)
      \/ /\ \/ radd' = [radd EXCEPT ![r].at = "label"]
            \/ radd' = [radd EXCEPT ![r].at = "status"]
         /\ q' = q
  BY <1>6, Zenon
<1>8. RetryAddRule(r) \/ ((Moved(r, "label") \/ Moved(r, "status")) /\ q' = q)
  BY <1>7, MovedOn, Zenon
<1> QED  BY <1>1, <1>2, <1>5, <1>8, Zenon

\* The status of a rule is written with the address its handler works with.
Recorded(r) ==
    /\ RulesOk(rule')
    /\ \A s \in Rules \ {r} : rule'[s] = rule[s]
    /\ rule'[r].uid = rule[r].uid /\ rule'[r].term = rule[r].term
    /\ rule'[r].status = radd[r].ip

LEMMA RecordRuleOutcomes ==
    ASSUME TypeInv, NEW r \in Rules, RecordRule(r)
    PROVE  /\ radd[r].at = "label"
           /\ \/ RetryAddRule(r) /\ rule' = rule
              \/ Recorded(r) /\ Moved(r, "status") /\ q' = q
           /\ eip' = eip /\ WorkerFrame
<1>1. eip' = eip /\ WorkerFrame
  BY DEF RecordRule, caches, env, WorkerFrame
<1>2. radd[r].at = "label"
  BY Zenon DEF RecordRule
<1>3. CASE ~Exists(rule[r])
  BY <1>1, <1>2, <1>3, Zenon DEF RecordRule
<1>4. CASE Exists(rule[r])
  <2> DEFINE x == [rule[r] EXCEPT !.status = radd[r].ip]
  <2>1. /\ rule' = [rule EXCEPT ![r].status = radd[r].ip]
        /\ radd' = [radd EXCEPT ![r].at = "status"]
        /\ q' = q
    BY <1>4, Zenon DEF RecordRule
  <2>2. RulesOk(rule) /\ radd[r] \in RuleWork
    BY Zenon DEF TypeInv
  <2>3. rule[r] \in Rule /\ radd[r].ip \in IPs
    BY <2>2 DEF RulesOk, RuleWork
  <2>4. x \in Rule
    BY <2>3, Zenon DEF Rule
  <2>5. x.uid = rule[r].uid /\ x.term = rule[r].term /\ x.status = radd[r].ip
    BY <2>3 DEF Rule
  <2>6. rule' = [rule EXCEPT ![r] = x]
    BY <2>1, <2>2, SMT DEF RulesOk
  <2> HIDE DEF x
  <2>7. RuleOk(x)
    BY <1>4, <2>4, <2>5, Zenon DEF RuleOk, Exists
  <2>8. RulesOk(rule')
    BY <2>2, <2>6, <2>7, RuleWritten, Zenon
  <2>9. rule'[r] = x /\ \A s \in Rules \ {r} : rule'[s] = rule[s]
    BY <2>2, <2>6, Zenon DEF RulesOk
  <2>10. Recorded(r)
    BY <2>5, <2>8, <2>9, Zenon DEF Recorded
  <2>11. Moved(r, "status")
    BY <2>1, MovedOn, Zenon
  <2> QED  BY <1>1, <1>2, <2>1, <2>10, <2>11, Zenon
<1> QED  BY <1>3, <1>4

LEMMA RefreshOutcomes ==
    ASSUME TypeInv, NEW r \in Rules, RefreshEip(r)
    PROVE  /\ radd[r].at = "status"
           /\ \/ RetryAddRule(r) /\ eip' = eip
              \/ /\ Patched(eip', EipOf[r])
                 /\ radd' = [radd EXCEPT ![r] = IdleRule]
                 /\ q' = q
           /\ rule' = rule /\ WorkerFrame
<1>1. rule' = rule /\ WorkerFrame
  BY DEF RefreshEip, caches, env, WorkerFrame
<1>2. radd[r].at = "status"
  BY Zenon DEF RefreshEip
<1>3. EipOf[r] \in Eips
  BY ConstantsAssumption, Zenon
<1>4. CASE patchOvnEipStatusFails(EipOf[r], TRUE)
  BY <1>1, <1>2, <1>4, Zenon DEF RefreshEip
<1>5. CASE ~patchOvnEipStatusFails(EipOf[r], TRUE)
  <2>1. Patched(patchOvnEipStatus(EipOf[r], TRUE), EipOf[r])
    BY <1>3, <1>5, PatchedStatus, Zenon
  <2> QED  BY <1>1, <1>2, <1>5, <2>1, Zenon DEF RefreshEip
<1> QED  BY <1>4, <1>5

LEMMA WorkerTyped ==
    ASSUME TypeInv, NEW r \in Rules,
           AddFinalizer(r) \/ LabelRule(r) \/ RecordRule(r) \/ RefreshEip(r)
    PROVE  TypeInv'
<1>1. WorkerFrame
  BY AddFinalizerOutcomes, LabelRuleOutcomes, RecordRuleOutcomes, RefreshOutcomes, Zenon
<1>2. /\ UNCHANGED <<kind, ceip, lease, eadd, eupd, faults>>
      /\ crule' = crule /\ uids' = uids /\ makes' = makes
  BY <1>1, Zenon DEF WorkerFrame
<1>3. /\ EipsOk(eip) /\ RulesOk(rule) /\ radd \in [Rules -> RuleWork]
      /\ q \in [Queues -> SUBSET (Eips \cup Rules)]
  BY Zenon DEF TypeInv
<1>4. EipsOk(eip')
  BY <1>3, AddFinalizerOutcomes, LabelRuleOutcomes, RecordRuleOutcomes,
     RefreshOutcomes, Zenon DEF Patched
<1>5. RulesOk(rule')
  BY <1>3, AddFinalizerOutcomes, LabelRuleOutcomes, RecordRuleOutcomes,
     RefreshOutcomes, Zenon DEF RuleKeptBy, Recorded
<1>6. \/ RetryAddRule(r)
      \/ radd' \in [Rules -> RuleWork] /\ q' = q
      \/ radd' = [radd EXCEPT ![r] = IdleRule] /\ q' = q
  BY AddFinalizerOutcomes, LabelRuleOutcomes, RecordRuleOutcomes,
     RefreshOutcomes, Zenon DEF Moved
<1>7. radd' \in [Rules -> RuleWork] /\ q' \in [Queues -> SUBSET (Eips \cup Rules)]
  <2>1. CASE RetryAddRule(r)
    BY <2>1, RetryAddRuleTyped, Zenon
  <2>2. CASE radd' \in [Rules -> RuleWork] /\ q' = q
    BY <1>3, <2>2, Zenon
  <2>3. CASE radd' = [radd EXCEPT ![r] = IdleRule] /\ q' = q
    BY <1>3, <2>3, IdleTyped, Zenon
  <2> QED  BY <1>6, <2>1, <2>2, <2>3, Zenon
<1>8. RuleTypes'
  BY <1>2, <1>4, <1>5, <1>7, Zenon DEF TypeInv, RuleTypes
<1> QED  BY <1>2, <1>8, RuleTypesKept, Zenon

\* A handler that cleans a rule takes its finalizer, which ends a rule in
\* deletion, and has the EIP looked at again.
RuleEnded(r) ==
    /\ rule[r].term
    /\ RulesOk(rule') /\ rule'[r] = NoRule
    /\ \A s \in Rules \ {r} : rule'[s] = rule[s]

ResetAsked(queue, r) ==
    /\ q'["delRule"] \subseteq q["delRule"]
    /\ q'["delEip"] = q["delEip"]
    /\ \A e \in q'["resetEip"] \ q["resetEip"] :
          e = EipOf[r] /\ (queue = "updRule" => crule[r].status # NoIP)

LEMMA CleansOutcomes ==
    ASSUME TypeInv, NEW r \in Rules, NEW queue \in {"updRule", "delRule"},
           Cleans(queue, r)
    PROVE  /\ RuleKeptBy(rule', r) \/ RuleEnded(r)
           /\ q' \in [Queues -> SUBSET (Eips \cup Rules)]
           /\ ResetAsked(queue, r)
           /\ UNCHANGED <<kind, ceip, lease, eadd, eupd, faults>>
           /\ eip' = eip /\ crule' = crule /\ uids' = uids /\ radd' = radd
           /\ makes' = makes
<1>1. /\ UNCHANGED <<kind, ceip, lease, eadd, eupd, faults>>
      /\ eip' = eip /\ crule' = crule /\ uids' = uids /\ radd' = radd
      /\ makes' = makes
  BY DEF Cleans, caches, workers, env
<1>2. RulesOk(rule) /\ q \in [Queues -> SUBSET (Eips \cup Rules)]
  BY Zenon DEF TypeInv
<1>3. RuleKeptBy(rule', r) \/ RuleEnded(r)
  <2> DEFINE x == Unfinalized(rule[r], NoRule)
  <2>1. rule' = rule \/ (Exists(rule[r]) /\ rule' = [rule EXCEPT ![r] = x])
    BY Zenon DEF Cleans, TakeFinalizer
  <2>2. CASE rule' = rule
    BY <2>2, RuleNotChanged, Zenon
  <2>3. CASE Exists(rule[r]) /\ rule' = [rule EXCEPT ![r] = x]
    <3>1. RuleOk(rule[r])
      BY <1>2, Zenon DEF RulesOk, RuleOk
    <3>2. /\ RuleOk(x) /\ (rule[r].term => x = NoRule)
          /\ (~rule[r].term => SameRule(x, rule[r]))
      BY <2>3, <3>1, UnfinalizedRule, Zenon
    <3> HIDE DEF x
    <3>3. RulesOk(rule')
      BY <1>2, <2>3, <3>2, RuleWritten, Zenon
    <3>4. rule'[r] = x /\ \A s \in Rules \ {r} : rule'[s] = rule[s]
      BY <1>2, <2>3, Zenon DEF RulesOk
    <3> QED  BY <3>2, <3>3, <3>4, Zenon DEF RuleKeptBy, RuleEnded
  <2> QED  BY <2>1, <2>2, <2>3, Zenon
<1>4. PICK reset \in BOOLEAN :
          /\ q' = Cleaned(queue, r, crule[r], reset)
          /\ queue = "updRule" /\ reset => crule[r].status # NoIP
  BY Zenon DEF Cleans
<1>5. /\ q' \in [Queues -> SUBSET (Eips \cup Rules)]
      /\ q'["delRule"] \subseteq q["delRule"]
      /\ q'["delEip"] = q["delEip"]
      /\ reset = FALSE => q'["resetEip"] = q["resetEip"]
      /\ q'["resetEip"] \subseteq q["resetEip"] \cup {EipOf[r]}
  <2>1. QueuesCleaned(Cleaned(queue, r, crule[r], reset), EipOf[r], reset)
    BY <1>2, CleanedTyped, Zenon
  <2>2. QueuesCleaned(q', EipOf[r], reset)
    BY <1>4, <2>1, Zenon
  <2> QED  BY <2>2, Zenon DEF QueuesCleaned
<1>6. ResetAsked(queue, r)
  BY <1>4, <1>5, Zenon DEF ResetAsked
<1> QED  BY <1>1, <1>3, <1>5, <1>6, Zenon

LEMMA CleansTyped ==
    ASSUME TypeInv, NEW r \in Rules, NEW queue \in {"updRule", "delRule"},
           Cleans(queue, r)
    PROVE  TypeInv'
<1>1. /\ RulesOk(rule')
      /\ q' \in [Queues -> SUBSET (Eips \cup Rules)]
      /\ UNCHANGED <<kind, ceip, lease, eadd, eupd, faults>>
      /\ eip' = eip /\ crule' = crule /\ uids' = uids /\ radd' = radd
      /\ makes' = makes
  BY CleansOutcomes, Zenon DEF RuleKeptBy, RuleEnded
<1>2. RuleTypes'
  BY <1>1, Zenon DEF TypeInv, RuleTypes
<1> QED  BY <1>1, <1>2, RuleTypesKept, Zenon

LEMMA SkipsTyped ==
    ASSUME TypeInv, NEW r \in Rules, NEW queue \in {"updRule", "delRule"},
           Skips(queue, r)
    PROVE  TypeInv'
<1>1. /\ UNCHANGED <<kind, ceip, lease, eadd, eupd, faults>>
      /\ eip' = eip /\ rule' = rule /\ crule' = crule /\ uids' = uids
      /\ radd' = radd /\ makes' = makes
  BY DEF Skips, api, caches, workers, env
<1>2. q \in [Queues -> SUBSET (Eips \cup Rules)] /\ queue \in Queues
  BY QueueNames, Zenon DEF TypeInv
<1>3. q' \in [Queues -> SUBSET (Eips \cup Rules)]
  BY <1>2, PopTyped, Zenon DEF Skips
<1>4. RuleTypes'
  BY <1>1, <1>3, Zenon DEF TypeInv, RuleTypes
<1> QED  BY <1>1, <1>4, RuleTypesKept, Zenon

LEMMA RuleStepTyped ==
    ASSUME TypeInv, NEW r \in Rules, RuleStep(r)
    PROVE  TypeInv'
BY CreateRuleTyped, DeleteRuleTyped, RuleEventTyped, AddsTyped, WorkerTyped,
   CleansTyped, SkipsTyped, Zenon DEF RuleStep

\* The queues a controller starts with.
LEMMA CrashQueues ==
    ASSUME Crash
    PROVE  /\ q' \in [Queues -> SUBSET (Eips \cup Rules)]
           /\ q'["delEip"] = {} /\ q'["resetEip"] = {} /\ q'["delRule"] = {}
<1> DEFINE C(queue) ==
             CASE queue = "addEip" -> {e \in Eips : Exists(eip[e]) /\ ~eip[e].term}
               [] queue = "updEip" -> {e \in Eips : eip[e].term /\ eip[e].fin}
               [] queue = "addRule" -> {r \in Rules : Exists(rule[r]) /\ ~rule[r].term}
               [] queue = "updRule" -> {r \in Rules : rule[r].term /\ rule[r].fin}
               [] OTHER -> {}
<1>1. q' = [queue \in Queues |-> C(queue)]
  BY Zenon DEF Crash
<1>2. \A queue \in Queues : C(queue) \in SUBSET (Eips \cup Rules)
  BY SMT DEF Queues
<1>3. C("delEip") = {} /\ C("resetEip") = {} /\ C("delRule") = {}
  BY SMT
<1> HIDE DEF C
<1> QED  BY <1>1, <1>2, <1>3, QueueNames, Zenon

LEMMA CrashTyped ==
    ASSUME TypeInv, Crash
    PROVE  TypeInv'
<1>1. /\ kind' = kind /\ eip' = eip /\ rule' = rule /\ uids' = uids /\ makes' = makes
  BY DEF Crash, api
<1>2. /\ ceip' = eip /\ crule' = rule /\ lease' \in [Eips -> IPs] /\ eupd' = {}
      /\ eadd' = [e \in Eips |-> IdleEip] /\ radd' = [r \in Rules |-> IdleRule]
      /\ faults < MaxFaults /\ faults' = faults + 1
  BY Zenon DEF Crash
<1>3. q' \in [Queues -> SUBSET (Eips \cup Rules)]
  BY CrashQueues, Zenon
<1>4. faults \in 0 .. MaxFaults /\ MaxFaults \in Nat
  BY ConstantsAssumption, Zenon DEF TypeInv
<1>5. faults' \in 0 .. MaxFaults
  BY <1>2, <1>4
<1>6. eadd' \in [Eips -> EipWork] /\ radd' \in [Rules -> RuleWork] /\ eupd' \subseteq Eips
  BY <1>2, IdleTyped, Zenon
<1> QED  BY <1>1, <1>2, <1>3, <1>5, <1>6, Zenon DEF TypeInv

\* A call that fails ends a handler, which is tried again.
LEMMA FailOutcomes ==
    ASSUME TypeInv, Fail
    PROVE  /\ \/ eadd' = eadd
              \/ \E e \in Eips : eadd' = [eadd EXCEPT ![e] = IdleEip]
           /\ \/ radd' = radd
              \/ \E r \in Rules : radd' = [radd EXCEPT ![r] = IdleRule]
           /\ \E queue \in {"addEip", "updEip", "addRule"}, k \in Eips \cup Rules :
                 q' = Push(queue, k)
           /\ eupd' \subseteq eupd
           /\ kind' = kind /\ eip' = eip /\ ceip' = ceip /\ rule' = rule
           /\ crule' = crule /\ uids' = uids /\ lease' = lease /\ rows' = rows
           /\ makes' = makes
<1>1. /\ kind' = kind /\ eip' = eip /\ ceip' = ceip /\ rule' = rule
      /\ crule' = crule /\ uids' = uids /\ lease' = lease /\ rows' = rows
      /\ makes' = makes
  BY DEF Fail, api, caches
<1>2. eupd \subseteq Eips
  BY Zenon DEF TypeInv
<1>3. CASE /\ \E e \in Eips : RetryAddEip(e)
           /\ eupd' = eupd /\ radd' = radd
  BY <1>1, <1>3, Zenon DEF RetryAddEip
<1>4. CASE /\ \E e \in eupd : q' = Push("updEip", e)
           /\ eupd' = {} /\ eadd' = eadd /\ radd' = radd
  BY <1>1, <1>2, <1>4, Zenon
<1>5. CASE /\ \E r \in Rules : RetryAddRule(r)
           /\ eupd' = eupd /\ eadd' = eadd
  BY <1>1, <1>5, Zenon DEF RetryAddRule
<1> QED  BY <1>3, <1>4, <1>5, Zenon DEF Fail

LEMMA FailTyped ==
    ASSUME TypeInv, Fail
    PROVE  TypeInv'
<1>1. /\ eadd \in [Eips -> EipWork] /\ radd \in [Rules -> RuleWork] /\ eupd \subseteq Eips
      /\ q \in [Queues -> SUBSET (Eips \cup Rules)]
      /\ faults \in 0 .. MaxFaults /\ MaxFaults \in Nat
  BY ConstantsAssumption, Zenon DEF TypeInv
<1>2. eadd' \in [Eips -> EipWork] /\ radd' \in [Rules -> RuleWork] /\ eupd' \subseteq Eips
  BY <1>1, FailOutcomes, IdleTyped, Zenon
<1>3. q' \in [Queues -> SUBSET (Eips \cup Rules)]
  <2>1. PICK queue \in {"addEip", "updEip", "addRule"}, k \in Eips \cup Rules :
          q' = Push(queue, k)
    BY FailOutcomes, Zenon
  <2>2. queue \in Queues
    BY QueueNames, Zenon
  <2> QED  BY <1>1, <2>1, <2>2, PushTyped, Zenon
<1>4. faults < MaxFaults /\ faults' = faults + 1
  BY Zenon DEF Fail
<1>5. faults' \in 0 .. MaxFaults
  BY <1>1, <1>4
<1> QED  BY <1>2, <1>3, <1>5, FailOutcomes, Zenon DEF TypeInv

LEMMA TypeStep ==
    ASSUME TypeInv, [Next]_vars
    PROVE  TypeInv'
<1>1. CASE Next
  BY <1>1, StepCases, EipStepTyped, RuleStepTyped, CrashTyped, FailTyped, Zenon
<1>2. CASE vars' = vars
  <2>1. /\ kind' = kind /\ eip' = eip /\ ceip' = ceip /\ rule' = rule
        /\ crule' = crule /\ uids' = uids /\ lease' = lease /\ q' = q
        /\ eadd' = eadd /\ eupd' = eupd /\ radd' = radd /\ faults' = faults
        /\ makes' = makes
    BY <1>2 DEF vars, api, caches, workers, env
  <2> QED  BY <2>1, Zenon DEF TypeInv
<1> QED  BY <1>1, <1>2, Zenon

\* The EIPs a behaviour starts with.
LEMMA InitialEips ==
    ASSUME Init
    PROVE  /\ EipsOk(eip)
           /\ \A e \in Eips : /\ eip[e].uid = uids[e] \/ eip[e].uid = 0
                              /\ eip[e].term = FALSE
                              /\ eip[e].uid # 0 => eip[e].uid = 1
                              /\ eip[e].uid # 0 => uids[e] = 1
                              /\ eip[e].ip = lease[e] /\ eip[e].spec = lease[e]
           /\ lease \in [Eips -> IPs]
           /\ uids \in [Eips \cup Rules -> Nat]
<1>1. PICK s \in Scenarios, l \in [Eips -> IPs] :
        /\ \A e \in Eips : l[e] # NoIP <=> e \in s.ready
        /\ eip = [e \in Eips |->
                    IF e \in s.ready
                    THEN [NewEip(1, TRUE, l[e]) EXCEPT !.ip = l[e], !.ready = TRUE]
                    ELSE NoEip]
        /\ uids = [k \in Eips \cup Rules |-> IF k \in s.ready THEN 1 ELSE 0]
        /\ lease = l
  BY Zenon DEF Init
<1>2. uids \in [Eips \cup Rules -> Nat]
  BY <1>1, 0 \in Nat, 1 \in Nat, Zenon
<1>3. ASSUME NEW e \in Eips
      PROVE  /\ EipOk(eip[e])
             /\ eip[e].uid = uids[e] \/ eip[e].uid = 0
             /\ eip[e].term = FALSE
             /\ eip[e].uid # 0 => eip[e].uid = 1 /\ uids[e] = 1
             /\ eip[e].ip = lease[e] /\ eip[e].spec = lease[e]
  <2>1. CASE e \in s.ready
    <3> DEFINE o == NewEip(1, TRUE, l[e])
               p == [o EXCEPT !.ip = l[e], !.ready = TRUE]
    <3>1. eip[e] = p /\ uids[e] = 1 /\ lease[e] = l[e] /\ l[e] \in IPs
      BY <1>1, <2>1, Zenon
    <3>2. EipOk(o)
      BY <3>1, 1 \in Nat, 1 # 0, NewEipOk, Zenon
    <3>3. o \in Eip
      BY <3>2, Zenon DEF EipOk
    <3>4. o.uid = 1 /\ o.term = FALSE /\ o.spec = l[e]
      BY DEF NewEip
    <3> HIDE DEF o
    <3>5. p \in Eip
      BY <3>1, <3>3, Zenon DEF Eip
    <3>6. p.uid = 1 /\ p.term = FALSE /\ p.spec = l[e] /\ p.ip = l[e]
      BY <3>3, <3>4 DEF Eip
    <3>7. EipOk(p)
      BY <3>5, <3>6, 1 # 0, Zenon DEF EipOk, Exists
    <3> HIDE DEF p
    <3> QED  BY <3>1, <3>6, <3>7, Zenon
  <2>2. CASE e \notin s.ready
    <3>1. eip[e] = NoEip /\ lease[e] = NoIP
      BY <1>1, <2>2, Zenon
    <3> QED  BY <3>1, NoEipOk, NoFields, Zenon
  <2> QED  BY <2>1, <2>2
<1>4. EipsOk(eip)
  <2>1. eip = [e \in Eips |-> eip[e]]
    BY <1>1, Zenon
  <2> QED  BY <1>3, <2>1, Zenon DEF EipsOk, EipOk
<1> QED  BY <1>1, <1>2, <1>3, <1>4, Zenon

LEMMA TypeInit ==
    ASSUME Init
    PROVE  TypeInv
<1>1. EipsOk(eip) /\ lease \in [Eips -> IPs] /\ uids \in [Eips \cup Rules -> Nat]
  BY InitialEips, Zenon
<1>2. PICK s \in Scenarios :
        /\ kind \in [Rules -> Kinds]
        /\ rule = [r \in Rules |-> NoRule]
        /\ ceip = eip /\ crule = rule
        /\ q = [queue \in Queues |-> {}]
        /\ eadd = [e \in Eips |-> IdleEip]
        /\ eupd = {}
        /\ radd = [r \in Rules |-> IdleRule]
        /\ faults = s.faults
        /\ makes = s.makes
  BY Zenon DEF Init
<1>3. s \in [ready : SUBSET Eips, faults : 0 .. MaxFaults,
             makes : [Eips \cup Rules -> 0 .. MaxMakes],
             kinds : [Rules -> SUBSET {"fip", "snat", "dnat"}]]
  BY ConstantsAssumption, Zenon
<1>4. s.faults \in 0 .. MaxFaults /\ s.makes \in [Eips \cup Rules -> 0 .. MaxMakes]
  BY <1>3
<1>5. RulesOk(rule)
  BY <1>2, NoRuleOk, Zenon DEF RulesOk, RuleOk
<1>6. q \in [Queues -> SUBSET (Eips \cup Rules)]
  BY <1>2, Zenon
<1>7. eadd \in [Eips -> EipWork] /\ radd \in [Rules -> RuleWork] /\ eupd \subseteq Eips
  BY <1>2, IdleTyped, Zenon
<1> QED  BY <1>1, <1>2, <1>4, <1>5, <1>6, <1>7, Zenon DEF TypeInv

LEMMA TypeInvariance == Spec => []TypeInv
BY TypeInit, TypeStep, PTL DEF Spec

\* Every variable keeps its type, and no patch of a late handler brings back
\* part of an object that is gone.
THEOREM TypeCorrect == Spec => []TypeOK
<1>1. TypeInv => TypeOK
  <2> SUFFICES ASSUME TypeInv PROVE TypeOK
    OBVIOUS
  <2>1. \A queue \in Queues : q[queue] \subseteq Eips \cup Rules
    BY Zenon DEF TypeInv
  <2> QED  BY <2>1, Zenon DEF TypeInv, TypeOK, EipsOk, RulesOk
<1> QED  BY <1>1, TypeInvariance, PTL

-----------------------------------------------------------------------------
(* What a step leaves alone *)

\* A step of EIP e, seen by the rules and the other EIPs.
EipFrame(e) ==
    /\ kind' = kind /\ rule' = rule /\ crule' = crule /\ radd' = radd
    /\ rows' = rows
    /\ \A f \in Eips \ {e} : /\ eip'[f] = eip[f] /\ ceip'[f] = ceip[f]
                             /\ lease'[f] = lease[f] /\ eadd'[f] = eadd[f]
    /\ uids' = uids \/ uids' = [uids EXCEPT ![e] = @ + 1]
    /\ \/ q' = q
       \/ \E queue \in {"addEip", "updEip", "delEip"} : q' = Push(queue, e)
       \/ \E queue \in {"addEip", "updEip", "resetEip", "delEip"} : q' = Pop(queue, e)

LEMMA EipStepFrame ==
    ASSUME TypeInv, NEW e \in Eips, EipStep(e)
    PROVE  EipFrame(e)
<1>1. /\ eip = [f \in Eips |-> eip[f]] /\ ceip = [f \in Eips |-> ceip[f]]
      /\ lease = [f \in Eips |-> lease[f]] /\ eadd = [f \in Eips |-> eadd[f]]
  BY Zenon DEF TypeInv, EipsOk
<1>2. CASE CreateEip(e)
  <2>1. /\ kind' = kind /\ rule' = rule /\ crule' = crule /\ radd' = radd
        /\ rows' = rows /\ ceip' = ceip /\ lease' = lease /\ eadd' = eadd /\ q' = q
    BY <1>2 DEF CreateEip, caches, workers
  <2>2. /\ eip' = [eip EXCEPT ![e] = NewEip(uids[e] + 1, FALSE, Static[e])]
        /\ uids' = [uids EXCEPT ![e] = @ + 1]
    BY <1>2, Zenon DEF CreateEip
  <2> QED  BY <1>1, <2>1, <2>2, Zenon DEF EipFrame
<1>3. CASE DeleteEip(e)
  <2>1. /\ kind' = kind /\ rule' = rule /\ crule' = crule /\ radd' = radd
        /\ rows' = rows /\ ceip' = ceip /\ lease' = lease /\ eadd' = eadd /\ q' = q
        /\ uids' = uids
    BY <1>3 DEF DeleteEip, caches, workers, env
  <2>2. eip' = [eip EXCEPT ![e] = Deleted(eip[e], NoEip)]
    BY <1>3, Zenon DEF DeleteEip
  <2> QED  BY <1>1, <2>1, <2>2, Zenon DEF EipFrame
<1>4. CASE enqueueAddOvnEip(e) \/ enqueueUpdateOvnEip(e) \/ enqueueDelOvnEip(e)
  <2>1. /\ kind' = kind /\ rule' = rule /\ crule' = crule /\ radd' = radd
        /\ rows' = rows /\ eip' = eip /\ lease' = lease /\ eadd' = eadd
        /\ uids' = uids
    BY <1>4 DEF enqueueAddOvnEip, enqueueUpdateOvnEip, enqueueDelOvnEip, api,
                workers, env
  <2>2. ceip' = [ceip EXCEPT ![e] = eip[e]] \/ ceip' = [ceip EXCEPT ![e] = NoEip]
    BY <1>4, Zenon DEF enqueueAddOvnEip, enqueueUpdateOvnEip, enqueueDelOvnEip
  <2>3. q' = q \/ \E queue \in {"addEip", "updEip", "delEip"} : q' = Push(queue, e)
    BY <1>4, Zenon DEF enqueueAddOvnEip, enqueueUpdateOvnEip, enqueueDelOvnEip,
                       enqueueUpdateIfTerminatingWithFinalizer
  <2>4. \A f \in Eips \ {e} : ceip'[f] = ceip[f]
    BY <1>1, <2>2, Zenon
  <2> QED  BY <2>1, <2>3, <2>4, Zenon DEF EipFrame
<1>5. CASE handleAddOvnEip(e)
  <2>1. /\ kind' = kind /\ rule' = rule /\ crule' = crule /\ radd' = radd
        /\ rows' = rows /\ eip' = eip /\ ceip' = ceip /\ uids' = uids
    BY <1>5 DEF handleAddOvnEip, api, caches, env
  <2>2. \/ lease' = lease /\ eadd' = eadd
        \/ \E a \in Acquirable(e) :
              /\ lease' = [lease EXCEPT ![e] = a]
              /\ eadd' = [eadd EXCEPT ![e] = At("acquired", a, NoEip)]
    BY <1>5 DEF handleAddOvnEip
  <2>3. q' = Pop("addEip", e)
    BY <1>5, Zenon DEF handleAddOvnEip
  <2>4. \A f \in Eips \ {e} : lease'[f] = lease[f] /\ eadd'[f] = eadd[f]
    BY <1>1, <2>2, Zenon
  <2> QED  BY <2>1, <2>3, <2>4, Zenon DEF EipFrame
<1>6. CASE createOrUpdateOvnEipCR(e)
  <2>1. /\ kind' = kind /\ rule' = rule /\ crule' = crule /\ radd' = radd
        /\ rows' = rows /\ ceip' = ceip /\ lease' = lease
    BY <1>6 DEF createOrUpdateOvnEipCR, caches, env
  <2>2. Remade(e) \/ Retried(e) \/ Updated(e)
    BY <1>6, CROutcomes, Zenon
  <2>3. \A f \in Eips \ {e} : eip'[f] = eip[f] /\ eadd'[f] = eadd[f]
    BY <1>1, <2>2, Zenon DEF Remade, Retried, Updated, RetryAddEip
  <2>4. uids' = uids \/ uids' = [uids EXCEPT ![e] = @ + 1]
    BY <2>2, Zenon DEF Remade, Retried, Updated
  <2>5. q' = q \/ q' = Push("addEip", e)
    BY <2>2, Zenon DEF Remade, Retried, Updated, RetryAddEip
  <2> QED  BY <2>1, <2>3, <2>4, <2>5, Zenon DEF EipFrame
<1>7. CASE createOrUpdateOvnEipCRStatus(e)
  <2>1. rows' = rows /\ kind' = kind /\ rule' = rule /\ crule' = crule /\ radd' = radd
    BY <1>7 DEF createOrUpdateOvnEipCRStatus, caches, env
  <2>2. /\ eip' = eip \/ StatusSet(e)
        /\ eadd' = [eadd EXCEPT ![e] = At("patched", eadd[e].ip, NoEip)]
        /\ ceip' = ceip /\ uids' = uids /\ lease' = lease /\ q' = q
    BY <1>7, CRStatusOutcomes, Zenon
  <2>3. \A f \in Eips \ {e} : eip'[f] = eip[f] /\ eadd'[f] = eadd[f]
    BY <1>1, <2>2, Zenon DEF StatusSet
  <2> QED  BY <2>1, <2>2, <2>3, Zenon DEF EipFrame
<1>8. CASE handleAddOvnEipReady(e)
  <2>1. rows' = rows /\ kind' = kind /\ rule' = rule /\ crule' = crule /\ radd' = radd
    BY <1>8 DEF handleAddOvnEipReady, caches, env
  <2>2. /\ \/ RetryAddEip(e) /\ eip' = eip
           \/ /\ Patched(eip', e)
              /\ eadd' = [eadd EXCEPT ![e] = IdleEip]
              /\ q' = q
        /\ ceip' = ceip /\ uids' = uids /\ lease' = lease
    BY <1>8, ReadyOutcomes, Zenon
  <2>3. \A f \in Eips \ {e} : eip'[f] = eip[f] /\ eadd'[f] = eadd[f]
    BY <1>1, <2>2, Zenon DEF Patched, RetryAddEip
  <2>4. q' = q \/ q' = Push("addEip", e)
    BY <2>2, Zenon DEF RetryAddEip
  <2> QED  BY <2>1, <2>2, <2>3, <2>4, Zenon DEF EipFrame
<1>9. CASE handleUpdateOvnEip(e)
  <2>1. rows' = rows /\ kind' = kind /\ rule' = rule /\ crule' = crule /\ radd' = radd
    BY <1>9 DEF handleUpdateOvnEip, caches, env
  <2>2. /\ \/ lease' = [lease EXCEPT ![e] = NoIP] /\ eip' = eip
           \/ lease' = lease /\ EipKeptBy(eip', e)
        /\ q' = q \/ q' = Pop("updEip", e)
        /\ ceip' = ceip /\ uids' = uids /\ eadd' = eadd
    BY <1>9, UpdateEipOutcomes, Zenon
  <2>3. \A f \in Eips \ {e} : eip'[f] = eip[f] /\ lease'[f] = lease[f]
    BY <1>1, <2>2, Zenon DEF EipKeptBy
  <2> QED  BY <2>1, <2>2, <2>3, Zenon DEF EipFrame
<1>10. CASE handleDelOvnEipFinalizer(e)
  <2>1. rows' = rows /\ kind' = kind /\ rule' = rule /\ crule' = crule /\ radd' = radd
    BY <1>10 DEF handleDelOvnEipFinalizer, caches, env
  <2>2. /\ \A g \in Eips \ {e} : eip'[g] = eip[g]
        /\ q' = q \/ q' = Push("updEip", e)
        /\ ceip' = ceip /\ uids' = uids /\ lease' = lease /\ eadd' = eadd
    BY <1>10, DelFinalizerOutcomes, Zenon DEF EipKeptBy
  <2> QED  BY <2>1, <2>2, Zenon DEF EipFrame
<1>11. CASE handleResetOvnEip(e)
  <2>1. rows' = rows /\ kind' = kind /\ rule' = rule /\ crule' = crule /\ radd' = radd
    BY <1>11 DEF handleResetOvnEip, caches, workers, env
  <2>2. /\ \A g \in Eips \ {e} : eip'[g] = eip[g]
        /\ q' = Pop("resetEip", e)
        /\ ceip' = ceip /\ uids' = uids /\ lease' = lease /\ eadd' = eadd
    BY <1>11, ResetOutcomes, Zenon DEF Patched
  <2> QED  BY <2>1, <2>2, Zenon DEF EipFrame
<1>12. CASE handleDelOvnEip(e)
  <2>1. /\ rows' = rows /\ kind' = kind /\ rule' = rule /\ crule' = crule
        /\ radd' = radd /\ eip' = eip /\ ceip' = ceip /\ uids' = uids /\ eadd' = eadd
    BY <1>12 DEF handleDelOvnEip, api, caches, workers, env
  <2>2. lease' = [lease EXCEPT ![e] = NoIP] /\ q' = Pop("delEip", e)
    BY <1>12, Zenon DEF handleDelOvnEip
  <2>3. \A f \in Eips \ {e} : lease'[f] = lease[f]
    BY <1>1, <2>2, Zenon
  <2> QED  BY <2>1, <2>2, <2>3, Zenon DEF EipFrame
<1> QED  BY <1>2, <1>3, <1>4, <1>5, <1>6, <1>7, <1>8, <1>9, <1>10, <1>11, <1>12,
            Zenon DEF EipStep

LEMMA UidsGrow ==
    ASSUME TypeInv, NEW k \in Eips \cup Rules,
           uids' = uids \/ uids' = [uids EXCEPT ![k] = @ + 1]
    PROVE  \A j \in Eips \cup Rules : uids[j] <= uids'[j]
<1>1. uids \in [Eips \cup Rules -> Nat]
  BY Zenon DEF TypeInv
<1> QED  BY <1>1, SMT

LEMMA EipFrameQueues ==
    ASSUME TypeInv, NEW e \in Eips, EipFrame(e)
    PROVE  /\ q'["delRule"] = q["delRule"]
           /\ q'["resetEip"] \subseteq q["resetEip"]
           /\ \A f \in Eips \ {e} : f \in q'["delEip"] => f \in q["delEip"]
           /\ \A j \in Eips \cup Rules : uids[j] <= uids'[j]
<1>1. q \in [Queues -> SUBSET (Eips \cup Rules)] /\ e \in Eips \cup Rules
  BY Zenon DEF TypeInv
<1>2. ASSUME q' = q
      PROVE  /\ q'["delRule"] = q["delRule"]
             /\ q'["resetEip"] \subseteq q["resetEip"]
             /\ \A f \in Eips \ {e} : f \in q'["delEip"] => f \in q["delEip"]
  BY <1>2, Zenon
<1>3. ASSUME NEW queue \in {"addEip", "updEip", "delEip"}, q' = Push(queue, e)
      PROVE  /\ q'["delRule"] = q["delRule"]
             /\ q'["resetEip"] \subseteq q["resetEip"]
             /\ \A f \in Eips \ {e} : f \in q'["delEip"] => f \in q["delEip"]
  <2>1. queue \in Queues /\ queue # "delRule" /\ queue # "resetEip"
    BY DEF Queues
  <2>2. /\ q'[queue] = q[queue] \cup {e}
        /\ \A p \in Queues : p # queue => q'[p] = q[p]
    BY <1>1, <1>3, <2>1, Zenon DEF Push
  <2> QED  BY <2>1, <2>2, QueueNames, Zenon
<1>4. ASSUME NEW queue \in {"addEip", "updEip", "resetEip", "delEip"},
             q' = Pop(queue, e)
      PROVE  /\ q'["delRule"] = q["delRule"]
             /\ q'["resetEip"] \subseteq q["resetEip"]
             /\ \A f \in Eips \ {e} : f \in q'["delEip"] => f \in q["delEip"]
  <2>1. queue \in Queues /\ queue # "delRule"
    BY DEF Queues
  <2>2. /\ q'[queue] = q[queue] \ {e}
        /\ \A p \in Queues : p # queue => q'[p] = q[p]
    BY <1>1, <1>4, <2>1, Zenon DEF Pop
  <2> QED  BY <2>1, <2>2, QueueNames, Zenon
<1>5. \A j \in Eips \cup Rules : uids[j] <= uids'[j]
  BY <1>1, UidsGrow, Zenon DEF EipFrame
<1> QED  BY <1>2, <1>3, <1>4, <1>5, Zenon DEF EipFrame

\* A step of rule r, seen by the other rules.
RuleFrame(r) ==
    /\ kind' = kind /\ ceip' = ceip /\ lease' = lease /\ eadd' = eadd
    /\ \A s \in Rules \ {r} : /\ rule'[s] = rule[s] /\ crule'[s] = crule[s]
                              /\ radd'[s] = radd[s]
    /\ uids' = uids \/ uids' = [uids EXCEPT ![r] = @ + 1]
    /\ q'["delEip"] = q["delEip"]
    /\ q'["delRule"] \subseteq q["delRule"] \cup {r}

\* What a step does to the queues of deletions and of resets.
LEMMA OtherQueues ==
    ASSUME TypeInv, NEW queue \in {"addEip", "updEip", "addRule", "updRule"},
           NEW k \in Eips \cup Rules, q' = Push(queue, k) \/ q' = Pop(queue, k)
    PROVE  /\ q'["delEip"] = q["delEip"] /\ q'["delRule"] = q["delRule"]
           /\ q'["resetEip"] = q["resetEip"]
<1>1. q \in [Queues -> SUBSET (Eips \cup Rules)]
  BY Zenon DEF TypeInv
<1>2. queue \in Queues /\ queue # "delRule" /\ queue # "resetEip" /\ queue # "delEip"
  BY DEF Queues
<1>3. \A p \in Queues : p # queue => q'[p] = q[p]
  BY <1>1, <1>2, Zenon DEF Push, Pop
<1> QED  BY <1>2, <1>3, QueueNames, Zenon

LEMMA DelRuleQueue ==
    ASSUME TypeInv, NEW r \in Rules, q' = Push("delRule", r) \/ q' = Pop("delRule", r)
    PROVE  /\ q'["delEip"] = q["delEip"] /\ q'["resetEip"] = q["resetEip"]
           /\ q'["delRule"] \subseteq q["delRule"] \cup {r}
           /\ q' = Pop("delRule", r) => q'["delRule"] \subseteq q["delRule"]
<1>1. q \in [Queues -> SUBSET (Eips \cup Rules)] /\ r \in Eips \cup Rules
  BY Zenon DEF TypeInv
<1>2. "delEip" # "delRule" /\ "resetEip" # "delRule"
  OBVIOUS
<1>3. CASE q' = Push("delRule", r)
  <2>1. q'["delRule"] = q["delRule"] \cup {r}
    BY <1>1, <1>3, QueueNames, Zenon DEF Push
  <2>2. q'["delEip"] = q["delEip"] /\ q'["resetEip"] = q["resetEip"]
    BY <1>1, <1>2, <1>3, QueueNames, Zenon DEF Push
  <2>3. q' = Pop("delRule", r) => q'["delRule"] \subseteq q["delRule"]
    BY <1>1, QueueNames, Zenon DEF Pop
  <2> QED  BY <2>1, <2>2, <2>3, Zenon
<1>4. CASE q' = Pop("delRule", r)
  <2>1. q'["delRule"] \subseteq q["delRule"]
    BY <1>1, <1>4, QueueNames, Zenon DEF Pop
  <2>2. q'["delEip"] = q["delEip"] /\ q'["resetEip"] = q["resetEip"]
    BY <1>1, <1>2, <1>4, QueueNames, Zenon DEF Pop
  <2> QED  BY <2>1, <2>2, Zenon
<1> QED  BY <1>3, <1>4, Zenon

LEMMA RetryQueues ==
    ASSUME TypeInv, NEW r \in Rules, RetryAddRule(r)
    PROVE  /\ q'["delEip"] = q["delEip"] /\ q'["delRule"] = q["delRule"]
           /\ q'["resetEip"] = q["resetEip"]
           /\ radd'[r] = IdleRule
           /\ \A s \in Rules \ {r} : radd'[s] = radd[s]
<1>1. q' = Push("addRule", r) /\ radd' = [radd EXCEPT ![r] = IdleRule]
  BY Zenon DEF RetryAddRule
<1>2. radd \in [Rules -> RuleWork]
  BY Zenon DEF TypeInv
<1> QED  BY <1>1, <1>2, OtherQueues, r \in Eips \cup Rules, Zenon

LEMMA RuleStepFrame ==
    ASSUME TypeInv, NEW r \in Rules, RuleStep(r)
    PROVE  RuleFrame(r)
<1>1. /\ rule = [s \in Rules |-> rule[s]] /\ crule = [s \in Rules |-> crule[s]]
      /\ radd = [s \in Rules |-> radd[s]] /\ r \in Eips \cup Rules
  BY Zenon DEF TypeInv, RulesOk
<1>2. CASE CreateRule(r)
  <2>1. /\ kind' = kind /\ ceip' = ceip /\ lease' = lease /\ eadd' = eadd
        /\ crule' = crule /\ radd' = radd /\ q' = q
    BY <1>2 DEF CreateRule, caches, workers
  <2>2. /\ rule' = [rule EXCEPT ![r] = NewRule(uids[r] + 1)]
        /\ uids' = [uids EXCEPT ![r] = @ + 1]
    BY <1>2, Zenon DEF CreateRule
  <2> QED  BY <1>1, <2>1, <2>2, Zenon DEF RuleFrame
<1>3. CASE DeleteRule(r)
  <2>1. /\ kind' = kind /\ ceip' = ceip /\ lease' = lease /\ eadd' = eadd
        /\ crule' = crule /\ radd' = radd /\ q' = q /\ uids' = uids
    BY <1>3 DEF DeleteRule, caches, workers, env
  <2>2. rule' = [rule EXCEPT ![r] = Deleted(rule[r], NoRule)]
    BY <1>3, Zenon DEF DeleteRule
  <2> QED  BY <1>1, <2>1, <2>2, Zenon DEF RuleFrame
<1>4. CASE RuleAdded(r) \/ RuleUpdated(r) \/ RuleDeleted(r)
  <2>1. /\ kind' = kind /\ ceip' = ceip /\ lease' = lease /\ eadd' = eadd
        /\ rule' = rule /\ radd' = radd /\ uids' = uids
    BY <1>4 DEF RuleAdded, RuleUpdated, RuleDeleted, api, workers, env
  <2>2. crule' = [crule EXCEPT ![r] = rule[r]] \/ crule' = [crule EXCEPT ![r] = NoRule]
    BY <1>4, Zenon DEF RuleAdded, RuleUpdated, RuleDeleted
  <2>3. \/ q' = q \/ q' = Push("updRule", r) \/ q' = Push("addRule", r)
        \/ q' = Push("delRule", r)
    BY <1>4, Zenon DEF RuleAdded, RuleUpdated, RuleDeleted,
                       enqueueUpdateIfTerminatingWithFinalizer
  <2>4. q'["delEip"] = q["delEip"] /\ q'["delRule"] \subseteq q["delRule"] \cup {r}
    BY <1>1, <2>3, OtherQueues, DelRuleQueue, Zenon
  <2>5. \A s \in Rules \ {r} : crule'[s] = crule[s]
    BY <1>1, <2>2, Zenon
  <2> QED  BY <2>1, <2>4, <2>5, Zenon DEF RuleFrame
<1>5. CASE Adds(r)
  <2>1. /\ kind' = kind /\ ceip' = ceip /\ lease' = lease /\ eadd' = eadd
        /\ rule' = rule /\ crule' = crule /\ uids' = uids
    BY <1>5 DEF Adds, api, caches, env
  <2>2. \/ radd' = radd
        \/ radd' = [radd EXCEPT ![r] = At("rows", ceip[EipOf[r]].ip, crule[r])]
    BY <1>5 DEF Adds, Started
  <2>3. \A s \in Rules \ {r} : radd'[s] = radd[s]
    BY <1>1, <2>2, Zenon
  <2>4. q' = Pop("addRule", r)
    BY <1>5, Zenon DEF Adds
  <2>5. q'["delEip"] = q["delEip"] /\ q'["delRule"] = q["delRule"]
    BY <1>1, <2>4, OtherQueues, Zenon
  <2> QED  BY <2>1, <2>3, <2>5, Zenon DEF RuleFrame
<1>6. CASE AddFinalizer(r) \/ LabelRule(r) \/ RecordRule(r) \/ RefreshEip(r)
  <2>1. WorkerFrame
    BY <1>6, AddFinalizerOutcomes, LabelRuleOutcomes, RecordRuleOutcomes,
       RefreshOutcomes, Zenon
  <2>2. /\ kind' = kind /\ ceip' = ceip /\ lease' = lease /\ eadd' = eadd
        /\ crule' = crule /\ uids' = uids
    BY <2>1 DEF WorkerFrame
  <2>3. \A s \in Rules \ {r} : rule'[s] = rule[s]
    BY <1>6, AddFinalizerOutcomes, LabelRuleOutcomes, RecordRuleOutcomes,
       RefreshOutcomes, Zenon DEF RuleKeptBy, Recorded
  <2>4. \/ RetryAddRule(r)
        \/ (\A s \in Rules \ {r} : radd'[s] = radd[s]) /\ q' = q
        \/ radd' = [radd EXCEPT ![r] = IdleRule] /\ q' = q
    BY <1>6, AddFinalizerOutcomes, LabelRuleOutcomes, RecordRuleOutcomes,
       RefreshOutcomes, Zenon DEF Moved
  <2>5. /\ \A s \in Rules \ {r} : radd'[s] = radd[s]
        /\ q'["delEip"] = q["delEip"] /\ q'["delRule"] = q["delRule"]
    BY <1>1, <2>4, RetryQueues, Zenon
  <2> QED  BY <2>2, <2>3, <2>5, Zenon DEF RuleFrame
<1>7. ASSUME NEW queue \in {"updRule", "delRule"}, Cleans(queue, r)
      PROVE  RuleFrame(r)
  <2>1. /\ RuleKeptBy(rule', r) \/ RuleEnded(r)
        /\ ResetAsked(queue, r)
        /\ UNCHANGED <<kind, ceip, lease, eadd, eupd, faults>>
        /\ crule' = crule /\ uids' = uids /\ radd' = radd
    BY <1>7, CleansOutcomes, Zenon
  <2>2. kind' = kind /\ ceip' = ceip /\ lease' = lease /\ eadd' = eadd
    BY <2>1
  <2>3. \A s \in Rules \ {r} : rule'[s] = rule[s]
    BY <2>1, Zenon DEF RuleKeptBy, RuleEnded
  <2> QED  BY <2>1, <2>2, <2>3, Zenon DEF RuleFrame, ResetAsked
<1>8. ASSUME NEW queue \in {"updRule", "delRule"}, Skips(queue, r)
      PROVE  RuleFrame(r)
  <2>1. /\ kind' = kind /\ ceip' = ceip /\ lease' = lease /\ eadd' = eadd
        /\ rule' = rule /\ crule' = crule /\ radd' = radd /\ uids' = uids
    BY <1>8 DEF Skips, api, caches, workers, env
  <2>2. q'["delEip"] = q["delEip"] /\ q'["delRule"] \subseteq q["delRule"] \cup {r}
    BY <1>1, <1>8, OtherQueues, DelRuleQueue, Zenon DEF Skips
  <2> QED  BY <2>1, <2>2, Zenon DEF RuleFrame
<1> QED  BY <1>2, <1>3, <1>4, <1>5, <1>6, <1>7, <1>8, Zenon DEF RuleStep

-----------------------------------------------------------------------------
(* A rule that is ready has its row *)

\* Rule r has been given address a: its status says so, or its add handler has
\* made the row.
Uses(r, a) ==
    rule[r].status = a \/ (radd[r].at # "idle" /\ radd[r].ip = a)

\* Rules do not stand in each other's way.  A FIP that waits for an address
\* another FIP uses finds the label of that one in the cache (its row would
\* replace the other row), and two rules of a kind with an address in common
\* are for different internal addresses (they would have one row together).
RulesApart ==
    \A r, s \in Rules :
        r # s /\ kind[r] = kind[s] /\ FirstKept(rule[r]) /\ Exists(crule[s]) =>
            /\ kind[s] = "fip" /\ GetOvnEip(EipOf[s]) /\ crule[s].status = NoIP
                  /\ Uses(r, ceip[EipOf[s]].ip) => isOvnFipDuplicated(s)
            /\ crule[s].status # NoIP /\ Uses(r, crule[s].status) =>
                  kind[s] = "dnat" \/ Inner[s] # Inner[r]

\* While the first rule of a name is kept, the cache knows no older one and
\* none in deletion, no delete handler is due, and the row is there from the
\* moment the add handler has made it.
Wired(r) ==
    /\ Exists(crule[r]) => crule[r].uid = 1 /\ ~crule[r].term
    /\ r \notin q["delRule"]
    /\ rule[r].status # NoIP => RowFor(kind[r], r, rule[r].status) \in rows
    /\ radd[r].at # "idle" => RowFor(kind[r], r, radd[r].ip) \in rows

RuleInv(r) ==
    /\ rule[r].uid <= uids[r] /\ crule[r].uid <= uids[r]
    /\ uids[r] = 0 => radd[r].at = "idle" /\ r \notin q["delRule"]
    /\ FirstKept(rule[r]) => Wired(r)

RulesInv == \A r \in Rules : RuleInv(r)

\* Row w has external address a, and only a FIP has a dnat_and_snat row.
RowIs(w, k, a) == w.ext = a /\ (w.type = "dnat_and_snat" => k = "fip")

LEMMA RowFields ==
    ASSUME NEW k \in Kinds, NEW r, NEW a
    PROVE  RowIs(RowFor(k, r, a), k, a)
<1>1. NatRow("dnat_and_snat", a, Inner[r]).ext = a
  BY DEF NatRow
<1>2. NatRow("snat", a, Inner[r]).ext = a /\ NatRow("snat", a, Inner[r]).type = "snat"
  BY DEF NatRow
<1>3. VipRow(r, a).ext = a /\ VipRow(r, a).type = "lb"
  BY DEF VipRow
<1>4. CASE k = "fip"
  BY <1>1, <1>4, Zenon DEF RowFor, RowIs
<1>5. CASE k = "snat"
  BY <1>2, <1>5, KindsDiffer, Zenon DEF RowFor, RowIs
<1>6. CASE k = "dnat"
  BY <1>3, <1>6, KindsDiffer, Zenon DEF RowFor, RowIs
<1> QED  BY <1>4, <1>5, <1>6, Zenon DEF Kinds

\* Two rules have a row in common only when they are of one kind, with the same
\* addresses.
RowShared(k, r, a, j, s, b) ==
    k = j /\ k # "dnat" /\ a = b /\ Inner[r] = Inner[s]

LEMMA RowsDiffer ==
    ASSUME NEW k \in Kinds, NEW j \in Kinds, NEW r, NEW s, r # s, NEW a, NEW b,
           RowFor(k, r, a) = RowFor(j, s, b)
    PROVE  RowShared(k, r, a, j, s, b)
<1>1. /\ NatRow("dnat_and_snat", a, Inner[r]).type = "dnat_and_snat"
      /\ NatRow("dnat_and_snat", b, Inner[s]).type = "dnat_and_snat"
      /\ NatRow("dnat_and_snat", a, Inner[r]).of = Inner[r]
      /\ NatRow("dnat_and_snat", b, Inner[s]).of = Inner[s]
      /\ NatRow("snat", a, Inner[r]).type = "snat"
      /\ NatRow("snat", b, Inner[s]).type = "snat"
      /\ NatRow("snat", a, Inner[r]).of = Inner[r]
      /\ NatRow("snat", b, Inner[s]).of = Inner[s]
  BY DEF NatRow
<1>2. /\ VipRow(r, a).type = "lb" /\ VipRow(s, b).type = "lb"
      /\ VipRow(r, a).of = <<r, Port[r]>> /\ VipRow(s, b).of = <<s, Port[s]>>
  BY DEF VipRow
<1>3. <<r, Port[r]>> # <<s, Port[s]>>
  OBVIOUS
<1>4. a = b
  <2>1. RowIs(RowFor(k, r, a), k, a) /\ RowIs(RowFor(j, s, b), j, b)
    BY RowFields, Zenon
  <2> QED  BY <2>1, Zenon DEF RowIs
<1>5. /\ k = "fip" => RowFor(k, r, a) = NatRow("dnat_and_snat", a, Inner[r])
      /\ k = "snat" => RowFor(k, r, a) = NatRow("snat", a, Inner[r])
      /\ k = "dnat" => RowFor(k, r, a) = VipRow(r, a)
  BY KindsDiffer, Zenon DEF RowFor
<1>6. /\ j = "fip" => RowFor(j, s, b) = NatRow("dnat_and_snat", b, Inner[s])
      /\ j = "snat" => RowFor(j, s, b) = NatRow("snat", b, Inner[s])
      /\ j = "dnat" => RowFor(j, s, b) = VipRow(s, b)
  BY KindsDiffer, Zenon DEF RowFor
<1>7. CASE k = "fip"
  BY <1>1, <1>2, <1>4, <1>5, <1>6, <1>7, KindsDiffer, Zenon DEF Kinds, RowShared
<1>8. CASE k = "snat"
  BY <1>1, <1>2, <1>4, <1>5, <1>6, <1>8, KindsDiffer, Zenon DEF Kinds, RowShared
<1>9. CASE k = "dnat"
  BY <1>1, <1>2, <1>3, <1>5, <1>6, <1>9, KindsDiffer, Zenon DEF Kinds, RowShared
<1> QED  BY <1>7, <1>8, <1>9, Zenon DEF Kinds

\* A step that leaves rule r alone and keeps the rows it uses.
RuleQuiet(r) ==
    /\ kind' = kind /\ rule'[r] = rule[r] /\ crule'[r] = crule[r]
    /\ radd'[r] = radd[r]
    /\ uids[r] <= uids'[r]
    /\ r \in q'["delRule"] => r \in q["delRule"]

RowsKept(r) ==
    FirstKept(rule[r]) =>
        \A a \in IPs : Uses(r, a) /\ RowFor(kind[r], r, a) \in rows
                           => RowFor(kind[r], r, a) \in rows'

LEMMA RuleNumbers ==
    ASSUME TypeInv, NEW r \in Rules
    PROVE  /\ rule[r].uid \in Nat /\ crule[r].uid \in Nat /\ uids[r] \in Nat
           /\ rule[r].status \in IPs /\ radd[r].ip \in IPs /\ crule[r].status \in IPs
<1>1. /\ rule[r] \in Rule /\ crule[r] \in Rule /\ radd[r] \in RuleWork
      /\ uids[r] \in Nat
  BY Zenon DEF TypeInv, RulesOk
<1> QED  BY <1>1 DEF Rule, RuleWork

LEMMA QuietRuleKept ==
    ASSUME TypeInv, TypeInv', NEW r \in Rules, RuleInv(r), RuleQuiet(r), RowsKept(r)
    PROVE  RuleInv(r)'
<1>1. /\ rule[r].uid \in Nat /\ crule[r].uid \in Nat /\ uids[r] \in Nat
      /\ rule[r].status \in IPs /\ radd[r].ip \in IPs
  BY RuleNumbers, Zenon
<1>2. uids'[r] \in Nat /\ uids[r] <= uids'[r]
  BY Zenon DEF TypeInv, RuleQuiet
<1>3. rule[r].uid <= uids[r] /\ crule[r].uid <= uids[r]
  BY Zenon DEF RuleInv
<1>4. rule[r].uid <= uids'[r] /\ crule[r].uid <= uids'[r] /\ (uids'[r] = 0 => uids[r] = 0)
  BY <1>1, <1>2, <1>3
<1>5. /\ rule'[r] = rule[r] /\ crule'[r] = crule[r] /\ radd'[r] = radd[r]
      /\ kind' = kind /\ (r \in q'["delRule"] => r \in q["delRule"])
  BY Zenon DEF RuleQuiet
<1>6. uids'[r] = 0 => radd'[r].at = "idle" /\ r \notin q'["delRule"]
  BY <1>4, <1>5, Zenon DEF RuleInv
<1>7. FirstKept(rule'[r]) => Wired(r)'
  <2> SUFFICES ASSUME FirstKept(rule[r]) PROVE Wired(r)'
    BY <1>5, Zenon
  <2>1. Wired(r)
    BY Zenon DEF RuleInv
  <2>2. rule[r].status # NoIP => RowFor(kind[r], r, rule[r].status) \in rows'
    BY <1>1, <2>1, Zenon DEF Wired, RowsKept, Uses
  <2>3. radd[r].at # "idle" => RowFor(kind[r], r, radd[r].ip) \in rows'
    BY <1>1, <2>1, Zenon DEF Wired, RowsKept, Uses
  <2> QED  BY <1>5, <2>1, <2>2, <2>3, Zenon DEF Wired
<1>8. rule'[r].uid <= uids'[r] /\ crule'[r].uid <= uids'[r]
  BY <1>4, <1>5, Zenon
<1> QED  BY <1>6, <1>7, <1>8, Zenon DEF RuleInv

LEMMA EipStepRules ==
    ASSUME TypeInv, TypeInv', RulesInv, NEW e \in Eips, EipStep(e)
    PROVE  RulesInv'
<1>1. EipFrame(e)
  BY EipStepFrame, Zenon
<1>2. ASSUME NEW r \in Rules
      PROVE  RuleInv(r)'
  <2>1. RuleInv(r)
    BY Zenon DEF RulesInv
  <2>2. q'["delRule"] = q["delRule"] /\ uids[r] <= uids'[r]
    BY <1>1, EipFrameQueues, r \in Eips \cup Rules, Zenon
  <2>3. RuleQuiet(r)
    BY <1>1, <2>2, Zenon DEF EipFrame, RuleQuiet
  <2>4. RowsKept(r)
    BY <1>1, Zenon DEF EipFrame, RowsKept
  <2> QED  BY <2>1, <2>3, <2>4, QuietRuleKept, Zenon
<1> QED  BY <1>2, Zenon DEF RulesInv

\* The rows that a step of another rule takes are not those of rule s.
LEMMA OtherRowsKept ==
    ASSUME TypeInv, RulesApart, NEW r \in Rules, NEW s \in Rules, r # s, RuleStep(r)
    PROVE  RowsKept(s)
<1> SUFFICES ASSUME FirstKept(rule[s]), NEW b \in IPs, Uses(s, b),
                    RowFor(kind[s], s, b) \in rows
             PROVE  RowFor(kind[s], s, b) \in rows'
  BY Zenon DEF RowsKept
<1>1. kind[r] \in Kinds /\ kind[s] \in Kinds
  BY Zenon DEF TypeInv
<1>2. CASE Adds(r) /\ Started(r)
  <2> DEFINE a == ceip[EipOf[r]].ip
             x == RowFor(kind[s], s, b)
  <2>1. rows' = RowsWith(r, a) /\ Exists(crule[r]) /\ crule[r].status = NoIP
        /\ GetOvnEip(EipOf[r]) /\ (kind[r] = "fip" => ~isOvnFipDuplicated(r))
    BY <1>2, Zenon DEF Started
  <2>2. SUFFICES ASSUME kind[r] = "fip", x.type = "dnat_and_snat", x.ext = a
                 PROVE  FALSE
    BY <2>1, Zenon DEF RowsWith
  <2>3. kind[s] = "fip" /\ b = a
    <3>1. RowIs(RowFor(kind[s], s, b), kind[s], b)
      BY <1>1, RowFields, Zenon
    <3> QED  BY <2>2, <3>1, Zenon DEF RowIs
  <2> HIDE DEF x
  <2>4. Uses(s, a)
    BY <2>3, Zenon
  <2>5. isOvnFipDuplicated(r)
    BY <2>1, <2>2, <2>3, <2>4, Zenon DEF RulesApart
  <2> QED  BY <2>1, <2>2, <2>5, Zenon
<1>3. ASSUME NEW queue \in {"updRule", "delRule"}, Cleans(queue, r)
      PROVE  RowFor(kind[s], s, b) \in rows'
  <2>1. /\ Exists(crule[r])
        /\ rows' = IF crule[r].status = NoIP THEN rows
                   ELSE rows \ {RowFor(kind[r], r, crule[r].status)}
    BY <1>3, Zenon DEF Cleans
  <2>2. SUFFICES ASSUME crule[r].status # NoIP,
                        RowFor(kind[s], s, b) = RowFor(kind[r], r, crule[r].status)
                 PROVE  FALSE
    BY <2>1, Zenon
  <2>3. /\ kind[s] = kind[r] /\ kind[s] # "dnat" /\ b = crule[r].status
        /\ Inner[s] = Inner[r]
    <3>1. RowShared(kind[s], s, b, kind[r], r, crule[r].status)
      BY <1>1, <2>2, RowsDiffer, Zenon
    <3> QED  BY <3>1, Zenon DEF RowShared
  <2>4. Uses(s, crule[r].status)
    BY <2>3, Zenon
  <2> QED  BY <2>1, <2>2, <2>3, <2>4, Zenon DEF RulesApart
<1>4. CASE Adds(r) /\ ~Started(r)
  <2>1. rows' = rows
    BY <1>4 DEF Adds
  <2> QED  BY <2>1, Zenon
<1>5. CASE \/ CreateRule(r) \/ DeleteRule(r) \/ RuleAdded(r) \/ RuleUpdated(r)
           \/ RuleDeleted(r)
  <2>1. rows' = rows
    BY <1>5 DEF CreateRule, DeleteRule, RuleAdded, RuleUpdated, RuleDeleted
  <2> QED  BY <2>1, Zenon
<1>6. CASE AddFinalizer(r) \/ LabelRule(r) \/ RecordRule(r) \/ RefreshEip(r)
  <2>1. rows' = rows
    BY <1>6 DEF AddFinalizer, LabelRule, RecordRule, RefreshEip
  <2> QED  BY <2>1, Zenon
<1>7. ASSUME NEW queue \in {"updRule", "delRule"}, Skips(queue, r)
      PROVE  RowFor(kind[s], s, b) \in rows'
  <2>1. rows' = rows
    BY <1>7 DEF Skips
  <2> QED  BY <2>1, Zenon
<1> QED  BY <1>2, <1>3, <1>4, <1>5, <1>6, <1>7, Zenon DEF RuleStep

\* A step that keeps uid and deletion mark of the rule, or ends it.
LEMMA OwnStepKept ==
    ASSUME TypeInv, TypeInv', NEW r \in Rules, RuleInv(r),
           kind' = kind, uids' = uids, crule' = crule,
           q'["delRule"] \subseteq q["delRule"],
           \/ rule'[r].uid = rule[r].uid /\ rule'[r].term = rule[r].term
           \/ rule'[r] = NoRule,
           radd'[r].at # "idle" => radd[r].at # "idle" /\ radd'[r].ip = radd[r].ip,
           FirstKept(rule[r]) /\ FirstKept(rule'[r]) =>
               /\ rows' = rows
               /\ rule'[r].status = rule[r].status
                     \/ (rule'[r].status = radd[r].ip /\ radd[r].at # "idle")
    PROVE  RuleInv(r)'
<1>1. rule[r].uid <= uids[r] /\ crule[r].uid <= uids[r] /\ uids[r] \in Nat
  BY RuleNumbers, Zenon DEF RuleInv
<1>2. rule'[r].uid <= uids'[r] /\ crule'[r].uid <= uids'[r]
  BY <1>1, NoFields, ZeroLeast, Zenon
<1>3. uids'[r] = 0 => radd'[r].at = "idle" /\ r \notin q'["delRule"]
  BY Zenon DEF RuleInv
<1>4. FirstKept(rule'[r]) => Wired(r)'
  <2> SUFFICES ASSUME FirstKept(rule'[r]) PROVE Wired(r)'
    BY Zenon
  <2>1. FirstKept(rule[r])
    BY NoFields, ZeroNotOne, Zenon DEF FirstKept
  <2>2. Wired(r)
    BY <2>1, Zenon DEF RuleInv
  <2>3. /\ rows' = rows
        /\ rule'[r].status = rule[r].status
              \/ (rule'[r].status = radd[r].ip /\ radd[r].at # "idle")
    BY <2>1, Zenon
  <2>4. rule'[r].status # NoIP => RowFor(kind[r], r, rule'[r].status) \in rows
    BY <2>2, <2>3, Zenon DEF Wired
  <2>5. radd'[r].at # "idle" => RowFor(kind[r], r, radd'[r].ip) \in rows
    BY <2>2, Zenon DEF Wired
  <2>6. (Exists(crule[r]) => crule[r].uid = 1 /\ ~crule[r].term) /\ r \notin q["delRule"]
    BY <2>2, Zenon DEF Wired
  <2> QED  BY <2>3, <2>4, <2>5, <2>6, Zenon DEF Wired
<1> QED  BY <1>2, <1>3, <1>4, Zenon DEF RuleInv

LEMMA CreateRuleInv ==
    ASSUME TypeInv, TypeInv', NEW r \in Rules, RuleInv(r), CreateRule(r)
    PROVE  RuleInv(r)'
<1>1. /\ kind' = kind /\ crule' = crule /\ radd' = radd /\ q' = q
      /\ rows' = rows
  BY DEF CreateRule, caches, workers
<1>2. rule \in [Rules -> Rule] /\ uids \in [Eips \cup Rules -> Nat]
  BY Zenon DEF TypeInv, RulesOk
<1>3. rule'[r] = NewRule(uids[r] + 1) /\ uids'[r] = uids[r] + 1
  BY <1>2, Zenon DEF CreateRule
<1>4. rule'[r].uid = uids[r] + 1 /\ rule'[r].status = NoIP
  BY <1>3, NewRuleFields, Zenon
<1>5. crule[r].uid <= uids[r] /\ crule[r].uid \in Nat /\ uids[r] \in Nat
  BY RuleNumbers, Zenon DEF RuleInv
<1>6. /\ rule'[r].uid <= uids'[r] /\ crule'[r].uid <= uids'[r] /\ uids'[r] # 0
      /\ rule'[r].uid = 1 => uids[r] = 0 /\ crule[r].uid = 0
  <2>1. Above(uids[r], crule[r].uid)
    BY <1>5, NextAbove, Zenon
  <2> QED  BY <1>1, <1>3, <1>4, <2>1, Zenon DEF Above
<1>7. FirstKept(rule'[r]) => Wired(r)'
  BY <1>1, <1>4, <1>6, Zenon DEF RuleInv, FirstKept, Wired, Exists
<1> QED  BY <1>6, <1>7, Zenon DEF RuleInv

LEMMA DeleteRuleInv ==
    ASSUME TypeInv, TypeInv', NEW r \in Rules, RuleInv(r), DeleteRule(r)
    PROVE  RuleInv(r)'
<1>1. /\ kind' = kind /\ uids' = uids /\ crule' = crule /\ radd' = radd /\ q' = q
  BY DEF DeleteRule, caches, workers, env
<1>2. RulesOk(rule)
  BY Zenon DEF TypeInv
<1>3. rule'[r] = Deleted(rule[r], NoRule) /\ RuleOk(rule[r])
  BY <1>2, Zenon DEF DeleteRule, RulesOk, RuleOk
<1>4. rule'[r] = NoRule \/ rule'[r].term
  BY <1>3, DeletedRule, Zenon
<1>5. rule'[r] = NoRule \/ rule'[r].uid = rule[r].uid
  <2>1. rule[r] \in Rule
    BY <1>2, Zenon DEF RulesOk
  <2>2. [rule[r] EXCEPT !.term = TRUE].uid = rule[r].uid
    BY <2>1 DEF Rule
  <2> QED  BY <1>3, <2>2, Zenon DEF Deleted
<1>6. rule[r].uid <= uids[r] /\ crule[r].uid <= uids[r] /\ uids[r] \in Nat
  BY RuleNumbers, Zenon DEF RuleInv
<1>7. rule'[r].uid <= uids'[r] /\ crule'[r].uid <= uids'[r]
  BY <1>1, <1>5, <1>6, NoFields, ZeroLeast, Zenon
<1>8. ~FirstKept(rule'[r])
  BY <1>4, NoFields, ZeroNotOne, Zenon DEF FirstKept
<1> QED  BY <1>1, <1>7, <1>8, Zenon DEF RuleInv

LEMMA RuleEventInv ==
    ASSUME TypeInv, TypeInv', NEW r \in Rules, RuleInv(r),
           RuleAdded(r) \/ RuleUpdated(r) \/ RuleDeleted(r)
    PROVE  RuleInv(r)'
<1>1. /\ kind' = kind /\ rule' = rule /\ uids' = uids /\ radd' = radd /\ rows' = rows
  BY DEF RuleAdded, RuleUpdated, RuleDeleted, api, workers, env
<1>2. /\ rule[r].uid <= uids[r] /\ crule[r].uid <= uids[r] /\ uids[r] \in Nat
      /\ crule[r].uid \in Nat
  BY RuleNumbers, Zenon DEF RuleInv
<1>3. RulesOk(crule) /\ r \in Eips \cup Rules
  BY Zenon DEF TypeInv
<1>4. CASE RuleAdded(r) \/ RuleUpdated(r)
  <2>1. crule'[r] = rule[r]
    BY <1>3, <1>4, Zenon DEF RuleAdded, RuleUpdated, RulesOk
  <2>2. q' = q \/ q' = Push("updRule", r) \/ q' = Push("addRule", r)
    BY <1>4, Zenon DEF RuleAdded, RuleUpdated, enqueueUpdateIfTerminatingWithFinalizer
  <2>3. q'["delRule"] = q["delRule"]
    BY <1>3, <2>2, OtherQueues, Zenon
  <2>4. FirstKept(rule[r]) => Wired(r)
    BY Zenon DEF RuleInv
  <2>5. FirstKept(rule'[r]) => Wired(r)'
    BY <1>1, <2>1, <2>3, <2>4, Zenon DEF Wired, FirstKept
  <2> QED  BY <1>1, <1>2, <2>1, <2>3, <2>5, Zenon DEF RuleInv
<1>5. CASE RuleDeleted(r)
  <2>1. crule'[r] = NoRule /\ Exists(crule[r]) /\ crule[r].uid # rule[r].uid
    BY <1>3, <1>5, Zenon DEF RuleDeleted, RulesOk
  <2>2. uids[r] # 0
    BY <1>2, <2>1, SMT DEF Exists
  <2>3. ~FirstKept(rule[r])
    BY <2>1, Zenon DEF RuleInv, Wired, FirstKept
  <2>4. crule'[r].uid <= uids'[r]
    BY <1>1, <1>2, <2>1, NoFields, ZeroLeast, Zenon
  <2> QED  BY <1>1, <1>2, <2>2, <2>3, <2>4, Zenon DEF RuleInv
<1> QED  BY <1>4, <1>5

LEMMA AddsInv ==
    ASSUME TypeInv, TypeInv', NEW r \in Rules, RuleInv(r), Adds(r)
    PROVE  RuleInv(r)'
<1>1. /\ kind' = kind /\ rule' = rule /\ crule' = crule /\ uids' = uids
  BY DEF Adds, api, caches, env
<1>2. q'["delRule"] = q["delRule"]
  <2>1. q' = Pop("addRule", r) /\ r \in Eips \cup Rules
    BY Zenon DEF Adds
  <2> QED  BY <2>1, OtherQueues, Zenon
<1>3. CASE rows' = rows /\ radd' = radd
  BY <1>1, <1>2, <1>3, Zenon DEF RuleInv, Wired
<1>4. CASE Started(r)
  <2> DEFINE a == ceip[EipOf[r]].ip
  <2>1. radd \in [Rules -> RuleWork] /\ kind[r] \in Kinds
    BY Zenon DEF TypeInv
  <2>2. radd'[r] = At("rows", a, crule[r]) /\ rows' = RowsWith(r, a) /\ Exists(crule[r])
    BY <1>4, <2>1, Zenon DEF Started
  <2> HIDE DEF a
  <2>3. radd'[r].at = "rows" /\ radd'[r].ip = a
    BY ONLY <2>2 DEF At
  <2>4. /\ rule[r].uid <= uids[r] /\ crule[r].uid <= uids[r] /\ uids[r] \in Nat
        /\ crule[r].uid \in Nat
    BY RuleNumbers, Zenon DEF RuleInv
  <2>5. uids[r] # 0
    BY <2>2, <2>4, SMT DEF Exists
  <2>6. FirstKept(rule[r]) => Wired(r)'
    <3> SUFFICES ASSUME FirstKept(rule[r]) PROVE Wired(r)'
      BY Zenon
    <3>1. Wired(r)
      BY Zenon DEF RuleInv
    <3>2. RowFor(kind[r], r, a) \in rows'
      BY <2>2, Zenon DEF RowsWith
    <3>3. rule[r].status # NoIP => RowFor(kind[r], r, rule[r].status) \in rows'
      <4>1. CASE rule[r].status = a
        BY <3>2, <4>1, Zenon
      <4>2. CASE rule[r].status # a
        <5>1. RowFor(kind[r], r, rule[r].status).ext # a
          <6>1. RowIs(RowFor(kind[r], r, rule[r].status), kind[r], rule[r].status)
            BY <2>1, RowFields, Zenon
          <6> QED  BY <4>2, <6>1, Zenon DEF RowIs
        <5> QED  BY <2>2, <3>1, <5>1, Zenon DEF RowsWith, Wired
      <4> QED  BY <4>1, <4>2
    <3>4. (Exists(crule[r]) => crule[r].uid = 1 /\ ~crule[r].term) /\ r \notin q["delRule"]
      BY <3>1, Zenon DEF Wired
    <3> QED  BY <1>1, <1>2, <2>3, <3>2, <3>3, <3>4, Zenon DEF Wired
  <2> QED  BY <1>1, <2>4, <2>5, <2>6, Zenon DEF RuleInv
<1> QED  BY <1>3, <1>4 DEF Adds

LEMMA WorkerInv ==
    ASSUME TypeInv, TypeInv', NEW r \in Rules, RuleInv(r),
           AddFinalizer(r) \/ LabelRule(r) \/ RecordRule(r) \/ RefreshEip(r)
    PROVE  RuleInv(r)'
<1>1. WorkerFrame /\ radd[r].at # "idle"
  <2>1. "rows" # "idle" /\ "finalizer" # "idle" /\ "label" # "idle" /\ "status" # "idle"
    OBVIOUS
  <2> QED  BY <2>1, AddFinalizerOutcomes, LabelRuleOutcomes, RecordRuleOutcomes,
              RefreshOutcomes, Zenon
<1>2. kind' = kind /\ uids' = uids /\ crule' = crule /\ rows' = rows
  BY <1>1 DEF WorkerFrame
<1>3. \/ RetryAddRule(r)
      \/ radd'[r].ip = radd[r].ip /\ q' = q
      \/ radd' = [radd EXCEPT ![r] = IdleRule] /\ q' = q
  BY AddFinalizerOutcomes, LabelRuleOutcomes, RecordRuleOutcomes,
     RefreshOutcomes, Zenon DEF Moved
<1>4. radd \in [Rules -> RuleWork]
  BY Zenon DEF TypeInv
<1>5. /\ q'["delRule"] \subseteq q["delRule"]
      /\ radd'[r].at # "idle" => radd'[r].ip = radd[r].ip
  BY <1>3, <1>4, RetryQueues, IdleAt, Zenon
<1>6. \/ rule'[r] = rule[r] \/ SameRule(rule'[r], rule[r])
      \/ Recorded(r)
  BY AddFinalizerOutcomes, LabelRuleOutcomes, RecordRuleOutcomes,
     RefreshOutcomes, Zenon DEF RuleKeptBy
<1>7. /\ rule'[r].uid = rule[r].uid /\ rule'[r].term = rule[r].term
      /\ rule'[r].status = rule[r].status \/ rule'[r].status = radd[r].ip
  BY <1>6, Zenon DEF SameRule, Recorded
<1> QED  BY <1>1, <1>2, <1>5, <1>7, OwnStepKept, Zenon

LEMMA CleansInv ==
    ASSUME TypeInv, TypeInv', NEW r \in Rules, RuleInv(r),
           NEW queue \in {"updRule", "delRule"}, Cleans(queue, r)
    PROVE  RuleInv(r)'
<1>1. /\ RuleKeptBy(rule', r) \/ RuleEnded(r)
      /\ ResetAsked(queue, r)
      /\ UNCHANGED <<kind, ceip, lease, eadd, eupd, faults>>
      /\ crule' = crule /\ uids' = uids /\ radd' = radd
  BY CleansOutcomes, Zenon
<1>2. kind' = kind
  BY <1>1
<1>3. ~FirstKept(rule[r])
  BY Zenon DEF Cleans, RuleInv, Wired
<1>4. \/ rule'[r].uid = rule[r].uid /\ rule'[r].term = rule[r].term
      \/ rule'[r] = NoRule
  BY <1>1, Zenon DEF RuleKeptBy, RuleEnded, SameRule
<1>5. q'["delRule"] \subseteq q["delRule"]
  BY <1>1, Zenon DEF ResetAsked
<1> QED  BY <1>1, <1>2, <1>3, <1>4, <1>5, OwnStepKept, Zenon

LEMMA SkipsInv ==
    ASSUME TypeInv, TypeInv', NEW r \in Rules, RuleInv(r),
           NEW queue \in {"updRule", "delRule"}, Skips(queue, r)
    PROVE  RuleInv(r)'
<1>1. /\ kind' = kind /\ rule' = rule /\ crule' = crule /\ radd' = radd
      /\ uids' = uids /\ rows' = rows
  BY DEF Skips, api, caches, workers, env
<1>2. q' = Pop(queue, r) /\ r \in Eips \cup Rules
  BY Zenon DEF Skips
<1>3. q'["delRule"] \subseteq q["delRule"]
  BY <1>2, OtherQueues, DelRuleQueue, Zenon
<1> QED  BY <1>1, <1>3, OwnStepKept, Zenon

LEMMA RuleStepRules ==
    ASSUME TypeInv, TypeInv', RulesInv, RulesApart, NEW r \in Rules, RuleStep(r)
    PROVE  RulesInv'
<1>1. RuleInv(r)'
  <2>1. RuleInv(r)
    BY Zenon DEF RulesInv
  <2> QED  BY <2>1, CreateRuleInv, DeleteRuleInv, RuleEventInv, AddsInv, WorkerInv,
              CleansInv, SkipsInv, Zenon DEF RuleStep
<1>2. ASSUME NEW s \in Rules \ {r}
      PROVE  RuleInv(s)'
  <2>1. RuleInv(s) /\ s \in Rules /\ s \in Eips \cup Rules /\ r \in Eips \cup Rules
    BY Zenon DEF RulesInv
  <2>2. RuleFrame(r)
    BY RuleStepFrame, Zenon
  <2>3. uids[s] <= uids'[s]
    BY <2>1, <2>2, UidsGrow, Zenon DEF RuleFrame
  <2>4. RuleQuiet(s)
    BY <2>2, <2>3, Zenon DEF RuleFrame, RuleQuiet
  <2>5. RowsKept(s)
    BY OtherRowsKept, Zenon
  <2> QED  BY <2>1, <2>4, <2>5, QuietRuleKept, Zenon
<1> QED  BY <1>1, <1>2, Zenon DEF RulesInv

LEMMA CrashRules ==
    ASSUME TypeInv, TypeInv', RulesInv, Crash
    PROVE  RulesInv'
<1>1. kind' = kind /\ rule' = rule /\ uids' = uids /\ rows' = rows
  BY DEF Crash, api
<1>2. crule' = rule /\ radd' = [r \in Rules |-> IdleRule] /\ q'["delRule"] = {}
  BY CrashQueues, Zenon DEF Crash
<1>3. ASSUME NEW r \in Rules
      PROVE  RuleInv(r)'
  <2>1. RuleInv(r) /\ radd'[r].at = "idle"
    BY <1>2, IdleAt, Zenon DEF RulesInv
  <2>2. FirstKept(rule'[r]) => Wired(r)'
    BY <1>1, <1>2, <2>1, Zenon DEF RuleInv, Wired, FirstKept
  <2> QED  BY <1>1, <1>2, <2>1, <2>2, Zenon DEF RuleInv
<1> QED  BY <1>3, Zenon DEF RulesInv

\* What a failed call leaves of the progress of the handlers and the queues.
LEMMA FailWork ==
    ASSUME TypeInv, Fail
    PROVE  /\ \A e \in Eips : eadd'[e] = eadd[e] \/ eadd'[e].at = "idle"
           /\ \A r \in Rules : radd'[r] = radd[r] \/ radd'[r].at = "idle"
           /\ q'["delEip"] = q["delEip"] /\ q'["delRule"] = q["delRule"]
           /\ q'["resetEip"] = q["resetEip"]
<1>1. eadd \in [Eips -> EipWork] /\ radd \in [Rules -> RuleWork]
  BY Zenon DEF TypeInv
<1>2. \A e \in Eips : eadd'[e] = eadd[e] \/ eadd'[e].at = "idle"
  BY <1>1, FailOutcomes, IdleAt, Zenon
<1>3. \A r \in Rules : radd'[r] = radd[r] \/ radd'[r].at = "idle"
  BY <1>1, FailOutcomes, IdleAt, Zenon
<1>4. PICK queue \in {"addEip", "updEip", "addRule"}, k \in Eips \cup Rules :
        q' = Push(queue, k)
  BY FailOutcomes, Zenon
<1>5. queue \in {"addEip", "updEip", "addRule", "updRule"}
  BY Zenon
<1>6. /\ q'["delEip"] = q["delEip"] /\ q'["delRule"] = q["delRule"]
      /\ q'["resetEip"] = q["resetEip"]
  BY <1>4, <1>5, OtherQueues, Zenon
<1> QED  BY <1>2, <1>3, <1>6, Zenon

LEMMA FailRules ==
    ASSUME TypeInv, TypeInv', RulesInv, Fail
    PROVE  RulesInv'
<1>1. /\ kind' = kind /\ rule' = rule /\ crule' = crule /\ uids' = uids /\ rows' = rows
  BY FailOutcomes, Zenon
<1>2. ASSUME NEW r \in Rules
      PROVE  RuleInv(r)'
  <2>1. RuleInv(r)
    BY Zenon DEF RulesInv
  <2>2. radd'[r] = radd[r] \/ radd'[r].at = "idle"
    BY FailWork, Zenon
  <2>3. q'["delRule"] = q["delRule"]
    BY FailWork, Zenon
  <2> QED  BY <1>1, <2>1, <2>2, <2>3, OwnStepKept, Zenon
<1> QED  BY <1>2, Zenon DEF RulesInv

LEMMA RulesStep ==
    ASSUME TypeInv, RulesInv, RulesApart, [Next]_vars
    PROVE  RulesInv'
<1>1. TypeInv'
  BY TypeStep, Zenon
<1>2. CASE Next
  BY <1>1, <1>2, StepCases, EipStepRules, RuleStepRules, CrashRules, FailRules, Zenon
<1>3. CASE vars' = vars
  <2>1. /\ kind' = kind /\ rule' = rule /\ crule' = crule /\ uids' = uids
        /\ q' = q /\ radd' = radd /\ rows' = rows
    BY <1>3 DEF vars, api, caches, workers, env
  <2> QED  BY <2>1, Zenon DEF RulesInv, RuleInv, Wired
<1> QED  BY <1>2, <1>3, Zenon

LEMMA RulesInit ==
    ASSUME Init
    PROVE  RulesInv
<1>1. TypeInv
  BY TypeInit, Zenon
<1>2. /\ rule = [r \in Rules |-> NoRule] /\ crule = rule
      /\ q = [queue \in Queues |-> {}]
      /\ radd = [r \in Rules |-> IdleRule]
  BY Zenon DEF Init
<1>3. ASSUME NEW r \in Rules
      PROVE  RuleInv(r)
  <2>1. rule[r] = NoRule /\ crule[r] = NoRule /\ radd[r] = IdleRule
    BY <1>2, Zenon
  <2>2. r \notin q["delRule"]
    BY <1>2, QueueNames, Zenon
  <2>3. uids[r] \in Nat
    BY <1>1, RuleNumbers, Zenon
  <2>4. rule[r].uid <= uids[r] /\ crule[r].uid <= uids[r]
    BY <2>1, <2>3, NoFields, ZeroLeast, Zenon
  <2>5. ~FirstKept(rule[r])
    BY <2>1, NoFields, ZeroNotOne, Zenon DEF FirstKept
  <2> QED  BY <2>1, <2>2, <2>4, <2>5, IdleAt, Zenon DEF RuleInv
<1> QED  BY <1>3, Zenon DEF RulesInv

\* A rule whose status says it is ready has its row, whatever handlers, crashes
\* and failed calls come between, as long as rules do not stand in each other's
\* way.
THEOREM ReadyAlwaysWired == Spec /\ []RulesApart => []ReadyRuleWired
<1>1. TypeInv /\ RulesInv => ReadyRuleWired
  <2> SUFFICES ASSUME TypeInv, RulesInv, NEW r \in Rules, FirstKept(rule[r]),
                      rule[r].status # NoIP
               PROVE  Served(r)
    BY Zenon DEF ReadyRuleWired
  <2>1. RowFor(kind[r], r, rule[r].status) \in rows
    BY Zenon DEF RulesInv, RuleInv, Wired
  <2>2. RowOf(r, rule[r].status) = RowFor(kind[r], r, rule[r].status)
    BY Zenon DEF RowOf, RowFor
  <2> QED  BY <2>1, <2>2, Zenon DEF Served
<1> QED  BY <1>1, TypeInvariance, RulesInit, RulesStep, PTL DEF Spec

\* At most one rule is a FIP, and SNAT rules are for different internal
\* addresses; DNAT rules, of which every one has a row of its own, may be any.
RowsOwn ==
    \A r, s \in Rules :
        r # s /\ kind[r] = kind[s] =>
            kind[s] # "fip" /\ (kind[s] = "dnat" \/ Inner[s] # Inner[r])

LEMMA RowsOwnStep ==
    ASSUME TypeInv, RowsOwn, [Next]_vars
    PROVE  RowsOwn'
<1>1. ASSUME NEW e \in Eips, EipStep(e)
      PROVE  kind' = kind
  BY <1>1, EipStepFrame, Zenon DEF EipFrame
<1>2. ASSUME NEW r \in Rules, RuleStep(r)
      PROVE  kind' = kind
  BY <1>2, RuleStepFrame, Zenon DEF RuleFrame
<1>3. CASE Crash \/ Fail \/ vars' = vars
  <2>1. kind' = kind
    BY <1>3 DEF Crash, Fail, vars, env
  <2> QED  BY <2>1, Zenon DEF RowsOwn
<1>4. CASE Next
  <2>1. kind' = kind \/ Crash \/ Fail
    BY <1>1, <1>2, <1>4, StepCases, Zenon
  <2> QED  BY <1>3, <2>1, Zenon DEF RowsOwn
<1> QED  BY <1>3, <1>4, Zenon

\* When no two rules can ask for one row, a rule whose status says it is ready
\* has its row, with nothing assumed of what the cache shows a handler.
THEOREM OwnRowsStay == Spec /\ RowsOwn => []ReadyRuleWired
<1>1. RowsOwn => RulesApart
  BY Zenon DEF RowsOwn, RulesApart
<1>2. Spec /\ RowsOwn => []RowsOwn
  BY TypeInvariance, RowsOwnStep, PTL DEF Spec
<1> QED  BY <1>1, <1>2, ReadyAlwaysWired, PTL

-----------------------------------------------------------------------------
(* The EIPs rules have used *)

\* Rule r has got somewhere: a handler works on it, it has a status, or it is
\* on its way out.  All of this takes an EIP that shows an address.
Touched(r) ==
    \/ rule[r].status # NoIP \/ crule[r].status # NoIP \/ rule[r].term
    \/ Exists(crule[r]) /\ crule[r].uid # rule[r].uid
    \/ r \in q["delRule"]
    \/ radd[r].at # "idle"

\* The status of EIP e is, or will be, refreshed on behalf of a rule.
InUse(e) ==
    e \in q["resetEip"] \/ \E r \in Rules : EipOf[r] = e /\ Touched(r)

\* An EIP comes into use only while the cache shows its address.
UseGrows(e) == InUse(e)' => InUse(e) \/ ceip[e].ip # NoIP

LEMMA SameTouched ==
    ASSUME NEW r \in Rules, rule'[r].status = rule[r].status,
           rule'[r].term = rule[r].term, rule'[r].uid = rule[r].uid,
           crule'[r] = crule[r], r \in q'["delRule"] => r \in q["delRule"],
           radd'[r].at # "idle" => radd[r].at # "idle", Touched(r)'
    PROVE  Touched(r)
BY Zenon DEF Touched

LEMMA OwnTouched ==
    ASSUME TypeInv, NEW r \in Rules, RuleStep(r), Touched(r)'
    PROVE  Touched(r) \/ ceip[EipOf[r]].ip # NoIP
<1>1. /\ RulesOk(rule) /\ RulesOk(crule) /\ radd \in [Rules -> RuleWork]
      /\ r \in Eips \cup Rules
  BY Zenon DEF TypeInv
<1>2. CASE CreateRule(r)
  <2>1. crule' = crule /\ radd' = radd /\ q' = q
    BY <1>2 DEF CreateRule, caches, workers
  <2>2. rule'[r] = NewRule(uids[r] + 1) /\ rule[r].uid = 0
    BY <1>1, <1>2, Zenon DEF CreateRule, RulesOk, Exists
  <2>3. rule'[r].status = NoIP /\ rule'[r].term = FALSE
    BY <2>2 DEF NewRule
  <2> QED  BY <2>1, <2>2, <2>3, Zenon DEF Touched, Exists
<1>3. CASE DeleteRule(r)
  BY <1>3, Zenon DEF DeleteRule, Touched
<1>4. CASE RuleAdded(r) \/ RuleUpdated(r)
  <2>1. rule' = rule /\ radd' = radd
    BY <1>4 DEF RuleAdded, RuleUpdated, api, workers
  <2>2. crule'[r] = rule[r]
    BY <1>1, <1>4, Zenon DEF RuleAdded, RuleUpdated, RulesOk
  <2>3. q' = q \/ q' = Push("updRule", r) \/ q' = Push("addRule", r)
    BY <1>4, Zenon DEF RuleAdded, RuleUpdated, enqueueUpdateIfTerminatingWithFinalizer
  <2>4. q'["delRule"] = q["delRule"]
    BY <1>1, <2>3, OtherQueues, Zenon
  <2> QED  BY <2>1, <2>2, <2>4, Zenon DEF Touched
<1>5. CASE RuleDeleted(r)
  BY <1>5, Zenon DEF RuleDeleted, Touched
<1>6. CASE Adds(r)
  <2>1. rule' = rule /\ crule' = crule
    BY <1>6 DEF Adds, api, caches
  <2>2. q' = Pop("addRule", r)
    BY <1>6, Zenon DEF Adds
  <2>3. q'["delRule"] = q["delRule"]
    BY <1>1, <2>2, OtherQueues, Zenon
  <2>4. CASE Started(r)
    BY <2>4, Zenon DEF Started, GetOvnEip
  <2>5. CASE radd' = radd
    BY <2>1, <2>3, <2>5, Zenon DEF Touched
  <2> QED  BY <1>6, <2>4, <2>5 DEF Adds
<1>7. CASE AddFinalizer(r) \/ LabelRule(r) \/ RecordRule(r) \/ RefreshEip(r)
  <2>1. "rows" # "idle" /\ "finalizer" # "idle" /\ "label" # "idle" /\ "status" # "idle"
    OBVIOUS
  <2>2. radd[r].at # "idle"
    BY <1>7, <2>1, Zenon DEF AddFinalizer, LabelRule, RecordRule, RefreshEip
  <2> QED  BY <2>2, Zenon DEF Touched
<1>8. ASSUME NEW queue \in {"updRule", "delRule"}, Cleans(queue, r)
      PROVE  Touched(r)
  <2>1. /\ RuleKeptBy(rule', r) \/ RuleEnded(r)
        /\ ResetAsked(queue, r)
        /\ crule' = crule /\ radd' = radd
    BY <1>8, CleansOutcomes, Zenon
  <2>2. CASE RuleEnded(r)
    BY <2>2, Zenon DEF RuleEnded, Touched
  <2>3. CASE RuleKeptBy(rule', r)
    <3>1. /\ rule'[r].status = rule[r].status /\ rule'[r].term = rule[r].term
          /\ rule'[r].uid = rule[r].uid
      BY <2>3, Zenon DEF RuleKeptBy, SameRule
    <3> QED  BY <2>1, <3>1, SameTouched, Zenon DEF ResetAsked
  <2> QED  BY <2>1, <2>2, <2>3, Zenon
<1>9. ASSUME NEW queue \in {"updRule", "delRule"}, Skips(queue, r)
      PROVE  Touched(r)
  <2>1. rule' = rule /\ crule' = crule /\ radd' = radd
    BY <1>9 DEF Skips, api, caches, workers
  <2>2. q'["delRule"] \subseteq q["delRule"]
    BY <1>1, <1>9, OtherQueues, DelRuleQueue, Zenon DEF Skips
  <2> QED  BY <2>1, <2>2, Zenon DEF Touched
<1> QED  BY <1>2, <1>3, <1>4, <1>5, <1>6, <1>7, <1>8, <1>9, Zenon DEF RuleStep

\* Only a handler that cleans a rule has an EIP reset.
LEMMA ResetBy ==
    ASSUME TypeInv, NEW r \in Rules, RuleStep(r), NEW e \in q'["resetEip"] \ q["resetEip"]
    PROVE  EipOf[r] = e /\ Touched(r)
<1>1. r \in Eips \cup Rules
  OBVIOUS
<1>2. CASE CreateRule(r) \/ DeleteRule(r)
  <2>1. q' = q
    BY <1>2 DEF CreateRule, DeleteRule
  <2> QED  BY <2>1, Zenon
<1>3. CASE RuleAdded(r) \/ RuleUpdated(r) \/ RuleDeleted(r)
  <2>1. \/ q' = q \/ q' = Push("updRule", r) \/ q' = Push("addRule", r)
        \/ q' = Push("delRule", r)
    BY <1>3, Zenon DEF RuleAdded, RuleUpdated, RuleDeleted,
                       enqueueUpdateIfTerminatingWithFinalizer
  <2> QED  BY <1>1, <2>1, OtherQueues, DelRuleQueue, Zenon
<1>4. CASE Adds(r)
  BY <1>1, <1>4, OtherQueues, Zenon DEF Adds
<1>5. CASE AddFinalizer(r) \/ LabelRule(r) \/ RecordRule(r) \/ RefreshEip(r)
  <2>1. RetryAddRule(r) \/ q' = q
    BY <1>5, AddFinalizerOutcomes, LabelRuleOutcomes, RecordRuleOutcomes,
       RefreshOutcomes, Zenon
  <2> QED  BY <2>1, RetryQueues, Zenon
<1>6. ASSUME NEW queue \in {"updRule", "delRule"}, Cleans(queue, r)
      PROVE  EipOf[r] = e /\ Touched(r)
  <2>1. ResetAsked(queue, r) /\ r \in q[queue]
    BY <1>6, CleansOutcomes, Zenon DEF Cleans
  <2> QED  BY <2>1, Zenon DEF ResetAsked, Touched
<1>7. ASSUME NEW queue \in {"updRule", "delRule"}, Skips(queue, r)
      PROVE  FALSE
  BY <1>1, <1>7, OtherQueues, DelRuleQueue, Zenon DEF Skips
<1> QED  BY <1>2, <1>3, <1>4, <1>5, <1>6, <1>7, Zenon DEF RuleStep

LEMMA EipStepUse ==
    ASSUME TypeInv, NEW e \in Eips, EipStep(e), NEW f \in Eips
    PROVE  UseGrows(f)
<1>1. EipFrame(e)
  BY EipStepFrame, Zenon
<1>2. q'["delRule"] = q["delRule"] /\ q'["resetEip"] \subseteq q["resetEip"]
  BY <1>1, EipFrameQueues, Zenon
<1>3. rule' = rule /\ crule' = crule /\ radd' = radd
  BY <1>1, Zenon DEF EipFrame
<1>4. \A r \in Rules : Touched(r)' => Touched(r)
  BY <1>2, <1>3, SameTouched, Zenon
<1> QED  BY <1>2, <1>4, Zenon DEF UseGrows, InUse

LEMMA RuleStepUse ==
    ASSUME TypeInv, NEW r \in Rules, RuleStep(r), NEW f \in Eips
    PROVE  UseGrows(f)
<1>1. RuleFrame(r)
  BY RuleStepFrame, Zenon
<1>2. \A s \in Rules \ {r} : Touched(s)' => Touched(s)
  <2>1. \A s \in Rules \ {r} : s \in q'["delRule"] => s \in q["delRule"]
    BY <1>1, Zenon DEF RuleFrame
  <2> QED  BY <1>1, <2>1, SameTouched, Zenon DEF RuleFrame
<1>3. Touched(r)' => Touched(r) \/ ceip[EipOf[r]].ip # NoIP
  BY OwnTouched, Zenon
<1>4. f \in q'["resetEip"] => f \in q["resetEip"] \/ (EipOf[r] = f /\ Touched(r))
  BY ResetBy, Zenon
<1> QED  BY <1>2, <1>3, <1>4, Zenon DEF UseGrows, InUse

LEMMA CrashUse ==
    ASSUME TypeInv, Crash, NEW f \in Eips
    PROVE  UseGrows(f)
<1>1. rule' = rule
  BY DEF Crash, api
<1>2. /\ crule' = rule /\ radd' = [r \in Rules |-> IdleRule]
      /\ q'["delRule"] = {} /\ q'["resetEip"] = {}
  BY CrashQueues, Zenon DEF Crash
<1>3. \A r \in Rules : Touched(r)' => Touched(r)
  BY <1>1, <1>2, IdleAt, Zenon DEF Touched
<1> QED  BY <1>2, <1>3, Zenon DEF UseGrows, InUse

LEMMA FailUse ==
    ASSUME TypeInv, Fail, NEW f \in Eips
    PROVE  UseGrows(f)
<1>1. rule' = rule /\ crule' = crule
  BY FailOutcomes, Zenon
<1>2. /\ \A r \in Rules : radd'[r] = radd[r] \/ radd'[r].at = "idle"
      /\ q'["delRule"] = q["delRule"] /\ q'["resetEip"] = q["resetEip"]
  BY FailWork, Zenon
<1>3. \A r \in Rules : Touched(r)' => Touched(r)
  BY <1>1, <1>2, SameTouched, Zenon
<1> QED  BY <1>2, <1>3, Zenon DEF UseGrows, InUse

-----------------------------------------------------------------------------
(* No two EIPs lease one address *)

LeasesApart ==
    \A e, f \in Eips : lease[e] = lease[f] /\ lease[e] # NoIP => e = f

LEMMA LeaseOutcomes ==
    ASSUME TypeInv, NEW e \in Eips, EipStep(e)
    PROVE  \/ lease' = lease
           \/ lease' = [lease EXCEPT ![e] = NoIP]
           \/ \E a \in Acquirable(e) : lease' = [lease EXCEPT ![e] = a]
<1>1. CASE handleAddOvnEip(e)
  BY <1>1 DEF handleAddOvnEip
<1>2. CASE createOrUpdateOvnEipCR(e)
  BY <1>2, CROutcomes, Zenon
<1>3. CASE createOrUpdateOvnEipCRStatus(e)
  BY <1>3, CRStatusOutcomes, Zenon
<1>4. CASE handleAddOvnEipReady(e)
  BY <1>4, ReadyOutcomes, Zenon
<1>5. CASE handleUpdateOvnEip(e)
  BY <1>5, UpdateEipOutcomes, Zenon
<1>6. CASE handleDelOvnEipFinalizer(e)
  BY <1>6, DelFinalizerOutcomes, Zenon
<1>7. CASE handleResetOvnEip(e)
  BY <1>7, ResetOutcomes, Zenon
<1>8. CASE handleDelOvnEip(e)
  BY <1>8, Zenon DEF handleDelOvnEip
<1>9. CASE CreateEip(e) \/ DeleteEip(e)
  BY <1>9 DEF CreateEip, DeleteEip
<1>10. CASE enqueueAddOvnEip(e) \/ enqueueUpdateOvnEip(e) \/ enqueueDelOvnEip(e)
  BY <1>10 DEF enqueueAddOvnEip, enqueueUpdateOvnEip, enqueueDelOvnEip
<1> QED  BY <1>1, <1>2, <1>3, <1>4, <1>5, <1>6, <1>7, <1>8, <1>9, <1>10,
            Zenon DEF EipStep

LEMMA LeasesStep ==
    ASSUME TypeInv, LeasesApart, [Next]_vars
    PROVE  LeasesApart'
<1>1. ASSUME NEW e \in Eips, EipStep(e)
      PROVE  LeasesApart'
  <2>1. lease \in [Eips -> IPs]
    BY Zenon DEF TypeInv
  <2>2. CASE lease' = lease
    BY <2>2, Zenon DEF LeasesApart
  <2>3. CASE lease' = [lease EXCEPT ![e] = NoIP]
    BY <2>1, <2>3, Zenon DEF LeasesApart
  <2>4. ASSUME NEW a \in Acquirable(e), lease' = [lease EXCEPT ![e] = a]
        PROVE  LeasesApart'
    <3>1. \A f \in Eips \ {e} : lease[f] = a => lease[e] = a
      BY AcquirableTyped, Zenon
    <3>2. a # NoIP
      BY AcquirableTyped, Zenon
    <3>3. \A f \in Eips \ {e} : lease[f] # a
      BY <3>1, <3>2, Zenon DEF LeasesApart
    <3>4. lease'[e] = a /\ \A f \in Eips \ {e} : lease'[f] = lease[f]
      BY <2>1, <2>4, Zenon
    <3> QED  BY <3>3, <3>4, Zenon DEF LeasesApart
  <2> QED  BY <1>1, <2>2, <2>3, <2>4, LeaseOutcomes, Zenon
<1>2. ASSUME NEW r \in Rules, RuleStep(r)
      PROVE  LeasesApart'
  <2>1. lease' = lease
    BY <1>2, RuleStepFrame, Zenon DEF RuleFrame
  <2> QED  BY <2>1, Zenon DEF LeasesApart
<1>3. CASE Crash
  <2> SUFFICES ASSUME NEW e \in Eips, NEW f \in Eips, e # f,
                      lease'[e] = lease'[f], lease'[e] # NoIP
               PROVE  FALSE
    BY Zenon DEF LeasesApart
  <2>1. InitIPAM(lease')
    BY <1>3, Zenon DEF Crash
  <2>2. \A g \in Eips : lease'[g] # NoIP =>
          /\ lease'[g] = eip[g].ip
          /\ \A h \in Eips \ {g} : eip[h].ip = eip[g].ip => lease'[h] = NoIP
    BY <2>1, Zenon DEF InitIPAM
  <2> QED  BY <2>2, Zenon
<1>4. CASE Fail
  BY <1>4, FailOutcomes, Zenon DEF LeasesApart
<1>5. CASE vars' = vars
  BY <1>5 DEF vars, LeasesApart
<1> QED  BY <1>1, <1>2, <1>3, <1>4, <1>5, StepCases, Zenon

LEMMA LeasesInit ==
    ASSUME Init
    PROVE  LeasesApart
BY Zenon DEF Init, LeasesApart

\* No two EIPs ever lease one address, also when a restarted controller takes
\* the leases from what the EIPs show.
THEOREM LeasesExclusive == Spec => []LeasesApart
BY TypeInvariance, LeasesInit, LeasesStep, PTL DEF Spec

-----------------------------------------------------------------------------
(* The address an EIP shows *)

\* What the API server has of an EIP (o), what the cache has (c), the lease (l)
\* and the add handler (w) say of one address, as far as each knows it.
Agree(o, c, l, w) ==
    /\ Exists(c) => c.uid = 1 /\ ~c.term
    /\ o.ip # NoIP => l = o.ip /\ o.spec = o.ip
    /\ c.ip # NoIP => o.ip = c.ip
    /\ c.spec # NoIP => o.spec = c.spec
    /\ Exists(c) /\ c.spec = NoIP /\ o.spec # NoIP => l = o.spec
    /\ w.at # "idle" => w.ip # NoIP /\ l = w.ip /\ o.spec \in {NoIP, w.ip}
    /\ w.at \in {"updated", "patched"} => o.spec = w.ip

\* While the first EIP of a name is kept, no delete handler is due, and rules
\* use it only once the cache shows its address: then a refresh of the status
\* writes that address again.
Leased(e) ==
    /\ Agree(eip[e], ceip[e], lease[e], eadd[e])
    /\ e \notin q["delEip"]
    /\ InUse(e) => ceip[e].ip # NoIP

EipInv(e) ==
    /\ eip[e].uid <= uids[e] /\ ceip[e].uid <= uids[e]
    /\ uids[e] = 0 => eadd[e].at = "idle" /\ e \notin q["delEip"] /\ ~InUse(e)
    /\ FirstKept(eip[e]) => Leased(e)

EipsInv == LeasesApart /\ \A e \in Eips : EipInv(e)

LEMMA EipNumbers ==
    ASSUME TypeInv, NEW e \in Eips
    PROVE  eip[e].uid \in Nat /\ ceip[e].uid \in Nat /\ uids[e] \in Nat
<1>1. eip[e] \in Eip /\ ceip[e] \in Eip /\ uids[e] \in Nat
  BY Zenon DEF TypeInv, EipsOk
<1> QED  BY <1>1 DEF Eip

\* A name nobody has used.
LEMMA NeverMade ==
    ASSUME TypeInv, NEW e \in Eips, EipInv(e), uids[e] = 0
    PROVE  ~Exists(eip[e]) /\ ~Exists(ceip[e]) /\ ceip[e] = NoEip /\ ceip[e].ip = NoIP
<1>1. eip[e].uid <= uids[e] /\ ceip[e].uid <= uids[e]
  BY Zenon DEF EipInv
<1>2. eip[e].uid = 0 /\ ceip[e].uid = 0
  BY <1>1, EipNumbers
<1>3. EipsOk(ceip)
  BY Zenon DEF TypeInv
<1> QED  BY <1>2, <1>3, NoFields, Zenon DEF Exists, EipsOk

LEMMA EipInvKept ==
    ASSUME TypeInv, TypeInv', NEW e \in Eips, EipInv(e), UseGrows(e),
           uids[e] <= uids'[e],
           eip'[e].uid <= uids'[e], ceip'[e].uid <= uids'[e],
           uids[e] = 0 => eadd'[e].at = "idle" /\ e \notin q'["delEip"],
           FirstKept(eip'[e]) =>
               /\ FirstKept(eip[e]) /\ e \notin q'["delEip"]
               /\ Agree(eip'[e], ceip'[e], lease'[e], eadd'[e])
               /\ ceip[e].ip # NoIP => ceip'[e].ip # NoIP
    PROVE  EipInv(e)'
<1>1. uids[e] \in Nat /\ uids'[e] \in Nat
  BY Zenon DEF TypeInv
<1>2. uids'[e] = 0 => uids[e] = 0
  BY <1>1
<1>3. uids'[e] = 0 => eadd'[e].at = "idle" /\ e \notin q'["delEip"] /\ ~InUse(e)'
  BY <1>2, NeverMade, Zenon DEF EipInv, UseGrows
<1>4. FirstKept(eip'[e]) => Leased(e)'
  BY Zenon DEF EipInv, Leased, UseGrows
<1> QED  BY <1>3, <1>4, Zenon DEF EipInv

\* How the steps keep the agreement.
LEMMA AgreeCached ==
    ASSUME NEW o, NEW c, NEW l, NEW w, Agree(o, c, l, w), FirstKept(o)
    PROVE  Agree(o, o, l, w) /\ (c.ip # NoIP => o.ip # NoIP)
BY Zenon DEF Agree, FirstKept

LEMMA AgreeIdle ==
    ASSUME NEW o, NEW c, NEW l, NEW w, NEW v, Agree(o, c, l, w), v.at = "idle"
    PROVE  Agree(o, c, l, v)
<1>1. v.at \notin {"updated", "patched"}
  OBVIOUS
<1> QED  BY <1>1, Zenon DEF Agree

LEMMA AgreeSame ==
    ASSUME NEW o, NEW p, NEW c, NEW l, NEW w, Agree(o, c, l, w),
           p.spec = o.spec, p.ip = o.ip
    PROVE  Agree(p, c, l, w)
BY Zenon DEF Agree

LEMMA AgreePatched ==
    ASSUME NEW o, NEW p, NEW c, NEW l, NEW w, Agree(o, c, l, w),
           p.spec = o.spec, p.ip = Shown(c),
           c.ip # NoIP \/ w.at = "patched"
    PROVE  Agree(p, c, l, w)
<1>1. "patched" # "idle" /\ "patched" \in {"updated", "patched"}
  OBVIOUS
<1>2. CASE c.ip # NoIP
  <2>1. p.ip = o.ip
    BY <1>2, Zenon DEF Agree, Shown
  <2> QED  BY <2>1, AgreeSame, Zenon
<1>3. CASE c.ip = NoIP /\ w.at = "patched"
  <2>1. p.ip = c.spec /\ o.spec = w.ip /\ l = w.ip
    BY <1>1, <1>3, Zenon DEF Agree, Shown
  <2>2. p.ip # NoIP => l = p.ip /\ p.spec = p.ip
    BY <2>1, Zenon DEF Agree
  <2> QED  BY <1>3, <2>2, Zenon DEF Agree
<1> QED  BY <1>2, <1>3, Zenon

LEMMA AgreeAcquired ==
    ASSUME NEW o, NEW c, NEW l, NEW w, NEW v, NEW a, Agree(o, c, l, w),
           Exists(c), c.ip = NoIP, a # NoIP,
           c.spec # NoIP => a = c.spec,
           c.spec = NoIP /\ l # NoIP => a = l,
           v.at = "acquired", v.ip = a
    PROVE  Agree(o, c, a, v)
<1>1. v.at \notin {"updated", "patched"}
  OBVIOUS
<1>2. o.spec \in {NoIP, a}
  BY Zenon DEF Agree
<1>3. o.ip # NoIP => a = o.ip /\ o.spec = o.ip
  BY Zenon DEF Agree
<1> QED  BY <1>1, <1>2, <1>3, Zenon DEF Agree

LEMMA AgreeUpdated ==
    ASSUME NEW o, NEW p, NEW c, NEW l, NEW w, NEW v, Agree(o, c, l, w),
           w.at = "acquired", v.at = "updated", v.ip = w.ip,
           \/ c.spec = w.ip /\ p = o
           \/ c.spec # w.ip /\ c = o /\ p.ip = o.ip /\ p.spec = w.ip
    PROVE  Agree(p, c, l, v)
<1>1. "acquired" # "idle"
  OBVIOUS
<1>2. w.ip # NoIP /\ l = w.ip /\ o.spec \in {NoIP, w.ip}
  BY <1>1, Zenon DEF Agree
<1>3. CASE c.spec = w.ip /\ p = o
  BY <1>2, <1>3, Zenon DEF Agree
<1>4. CASE c.spec # w.ip /\ c = o /\ p.ip = o.ip /\ p.spec = w.ip
  <2>1. o.spec = NoIP /\ o.ip = NoIP
    BY <1>2, <1>4, Zenon DEF Agree
  <2> QED  BY <1>2, <1>4, <2>1, Zenon DEF Agree
<1> QED  BY <1>3, <1>4, Zenon

LEMMA AgreeRecorded ==
    ASSUME NEW o, NEW p, NEW c, NEW l, NEW w, NEW v, Agree(o, c, l, w),
           w.at = "updated", v.at = "patched", v.ip = w.ip,
           p.spec = o.spec, p.ip \in {o.ip, w.ip}
    PROVE  Agree(p, c, l, v)
<1>1. "updated" # "idle" /\ "updated" \in {"updated", "patched"}
  OBVIOUS
<1>2. w.ip # NoIP /\ l = w.ip /\ o.spec = w.ip
  BY <1>1, Zenon DEF Agree
<1>3. c.ip # NoIP => p.ip = c.ip
  BY <1>2, Zenon DEF Agree
<1> QED  BY <1>2, <1>3, Zenon DEF Agree

LEMMA CreateEipInv ==
    ASSUME TypeInv, TypeInv', NEW e \in Eips, EipInv(e), UseGrows(e), CreateEip(e)
    PROVE  EipInv(e)'
<1>1. ceip' = ceip /\ lease' = lease /\ q' = q /\ eadd' = eadd
  BY DEF CreateEip, caches, workers
<1>2. EipsOk(eip) /\ uids \in [Eips \cup Rules -> Nat]
  BY Zenon DEF TypeInv
<1>3. eip'[e] = NewEip(uids[e] + 1, FALSE, Static[e]) /\ uids'[e] = uids[e] + 1
  BY <1>2, Zenon DEF CreateEip, EipsOk
<1>4. eip'[e].uid = uids[e] + 1 /\ eip'[e].ip = NoIP
  BY <1>3 DEF NewEip
<1>5. ceip[e].uid <= uids[e] /\ ceip[e].uid \in Nat /\ uids[e] \in Nat
  BY EipNumbers, Zenon DEF EipInv
<1>6. eip'[e].uid <= uids'[e] /\ ceip'[e].uid <= uids'[e] /\ uids'[e] # 0
  <2>1. uids'[e] = uids[e] + 1 /\ ceip'[e].uid = ceip[e].uid
    BY <1>1, <1>3, Zenon
  <2> QED  BY <1>4, <1>5, <2>1
<1>7. ASSUME FirstKept(eip'[e])
      PROVE  Leased(e)'
  <2>1. eip'[e].uid = 1
    BY <1>7, Zenon DEF FirstKept
  <2>2. uids[e] = 0
    BY <1>4, <2>1, EipNumbers
  <2>3. /\ eadd[e].at = "idle" /\ e \notin q["delEip"] /\ ~InUse(e)
        /\ ceip[e] = NoEip /\ ceip[e].ip = NoIP /\ ~Exists(ceip[e])
    BY <2>2, NeverMade, Zenon DEF EipInv
  <2>4. eadd[e].at \notin {"updated", "patched"}
    BY <2>3
  <2>5. Agree(eip'[e], ceip[e], lease[e], eadd[e])
    BY <1>4, <2>3, <2>4, NoFields, Zenon DEF Agree
  <2> QED  BY <1>1, <2>3, <2>5, Zenon DEF Leased, UseGrows
<1> QED  BY <1>6, <1>7, Zenon DEF EipInv

LEMMA DeleteEipInv ==
    ASSUME TypeInv, TypeInv', NEW e \in Eips, EipInv(e), UseGrows(e), DeleteEip(e)
    PROVE  EipInv(e)'
<1>1. ceip' = ceip /\ uids' = uids /\ lease' = lease /\ q' = q /\ eadd' = eadd
  BY DEF DeleteEip, caches, workers, env
<1>2. EipsOk(eip)
  BY Zenon DEF TypeInv
<1>3. eip'[e] = [eip[e] EXCEPT !.term = TRUE]
  BY <1>2, Zenon DEF DeleteEip, Deleted, EipsOk
<1>4. eip[e] \in Eip
  BY <1>2, Zenon DEF EipsOk
<1>5. eip'[e].uid = eip[e].uid /\ eip'[e].term = TRUE
  BY <1>3, <1>4 DEF Eip
<1>6. ~FirstKept(eip'[e])
  BY <1>5, Zenon DEF FirstKept
<1>7. eip[e].uid <= uids[e] /\ ceip[e].uid <= uids[e]
  BY Zenon DEF EipInv
<1>8. /\ eip'[e].uid <= uids'[e] /\ ceip'[e].uid <= uids'[e] /\ uids[e] <= uids'[e]
  BY <1>1, <1>5, <1>7, EipNumbers
<1>9. uids[e] = 0 => eadd'[e].at = "idle" /\ e \notin q'["delEip"]
  BY <1>1, Zenon DEF EipInv
<1> QED  BY <1>6, <1>8, <1>9, EipInvKept, Zenon

LEMMA EipEventInv ==
    ASSUME TypeInv, TypeInv', NEW e \in Eips, EipInv(e), UseGrows(e),
           enqueueAddOvnEip(e) \/ enqueueUpdateOvnEip(e)
    PROVE  EipInv(e)'
<1>1. eip' = eip /\ uids' = uids /\ lease' = lease /\ eadd' = eadd
  BY DEF enqueueAddOvnEip, enqueueUpdateOvnEip, api, workers
<1>2. EipsOk(ceip) /\ e \in Eips \cup Rules
  BY Zenon DEF TypeInv
<1>3. ceip'[e] = eip[e]
  BY <1>2, Zenon DEF enqueueAddOvnEip, enqueueUpdateOvnEip, EipsOk
<1>4. q' = q \/ q' = Push("updEip", e) \/ q' = Push("addEip", e)
  BY Zenon DEF enqueueAddOvnEip, enqueueUpdateOvnEip,
               enqueueUpdateIfTerminatingWithFinalizer
<1>5. q'["delEip"] = q["delEip"]
  BY <1>2, <1>4, OtherQueues, Zenon
<1>6. eip[e].uid <= uids[e] /\ uids[e] \in Nat
  BY EipNumbers, Zenon DEF EipInv
<1>7. eip'[e].uid <= uids'[e] /\ ceip'[e].uid <= uids'[e] /\ uids[e] <= uids'[e]
  BY <1>1, <1>3, <1>6
<1>8. uids[e] = 0 => eadd'[e].at = "idle" /\ e \notin q'["delEip"]
  BY <1>1, <1>5, Zenon DEF EipInv
<1>9. ASSUME FirstKept(eip[e])
      PROVE  /\ e \notin q["delEip"]
             /\ Agree(eip[e], eip[e], lease[e], eadd[e])
             /\ ceip[e].ip # NoIP => eip[e].ip # NoIP
  BY <1>9, AgreeCached, Zenon DEF EipInv, Leased
<1> QED  BY <1>1, <1>3, <1>5, <1>7, <1>8, <1>9, EipInvKept, Zenon

LEMMA EipGoneInv ==
    ASSUME TypeInv, TypeInv', NEW e \in Eips, EipInv(e), UseGrows(e), enqueueDelOvnEip(e)
    PROVE  EipInv(e)'
<1>1. eip' = eip /\ uids' = uids /\ lease' = lease /\ eadd' = eadd
  BY DEF enqueueDelOvnEip, api, workers
<1>2. EipsOk(ceip)
  BY Zenon DEF TypeInv
<1>3. ceip'[e] = NoEip /\ Exists(ceip[e]) /\ ceip[e].uid # eip[e].uid
  BY <1>2, Zenon DEF enqueueDelOvnEip, EipsOk
<1>4. uids[e] # 0
  BY <1>3, NeverMade, Zenon
<1>5. eip[e].uid <= uids[e] /\ uids[e] \in Nat
  BY EipNumbers, Zenon DEF EipInv
<1>6. eip'[e].uid <= uids'[e] /\ ceip'[e].uid <= uids'[e] /\ uids[e] <= uids'[e]
  BY <1>1, <1>3, <1>5, NoFields
<1>7. ~FirstKept(eip'[e])
  BY <1>1, <1>3, Zenon DEF EipInv, Leased, Agree, FirstKept
<1> QED  BY <1>4, <1>6, <1>7, EipInvKept, Zenon

LEMMA HandleAddOvnEipInv ==
    ASSUME TypeInv, TypeInv', NEW e \in Eips, EipInv(e), UseGrows(e), handleAddOvnEip(e)
    PROVE  EipInv(e)'
<1>1. eip' = eip /\ ceip' = ceip /\ uids' = uids
  BY DEF handleAddOvnEip, api, caches
<1>2. q' = Pop("addEip", e) /\ e \in Eips \cup Rules
  BY Zenon DEF handleAddOvnEip
<1>3. q'["delEip"] = q["delEip"]
  BY <1>2, OtherQueues, Zenon
<1>4. lease \in [Eips -> IPs] /\ eadd \in [Eips -> EipWork]
  BY Zenon DEF TypeInv
<1>5. eip[e].uid <= uids[e] /\ ceip[e].uid <= uids[e] /\ uids[e] \in Nat
  BY EipNumbers, Zenon DEF EipInv
<1>6. eip'[e].uid <= uids'[e] /\ ceip'[e].uid <= uids'[e] /\ uids[e] <= uids'[e]
  BY <1>1, <1>5
<1>7. CASE lease' = lease /\ eadd' = eadd
  <2>1. uids[e] = 0 => eadd'[e].at = "idle" /\ e \notin q'["delEip"]
    BY <1>3, <1>7, Zenon DEF EipInv
  <2> QED  BY <1>1, <1>3, <1>6, <1>7, <2>1, EipInvKept, Zenon DEF EipInv, Leased
<1>8. ASSUME Exists(ceip[e]), ceip[e].ip = NoIP, NEW a \in Acquirable(e),
             lease' = [lease EXCEPT ![e] = a],
             eadd' = [eadd EXCEPT ![e] = At("acquired", a, NoEip)]
      PROVE  EipInv(e)'
  <2>1. lease'[e] = a /\ eadd'[e] = At("acquired", a, NoEip)
    BY <1>4, <1>8, Zenon
  <2>2. eadd'[e].at = "acquired" /\ eadd'[e].ip = a
    BY ONLY <2>1 DEF At
  <2>3. uids[e] # 0
    BY <1>8, NeverMade, Zenon
  <2>4. /\ a # NoIP
        /\ ceip[e].spec # NoIP => a = ceip[e].spec
        /\ ceip[e].spec = NoIP /\ lease[e] # NoIP => a = lease[e]
    BY <1>8, AcquirableTyped, Zenon
  <2>5. ASSUME FirstKept(eip[e])
        PROVE  Agree(eip[e], ceip[e], a, eadd'[e])
    BY <1>8, <2>2, <2>4, <2>5, AgreeAcquired, Zenon DEF EipInv, Leased
  <2> QED  BY <1>1, <1>3, <1>6, <2>1, <2>3, <2>5, EipInvKept, Zenon DEF EipInv, Leased
<1>9. \/ lease' = lease /\ eadd' = eadd
      \/ /\ Exists(ceip[e]) /\ ceip[e].ip = NoIP
         /\ \E a \in Acquirable(e) :
              /\ lease' = [lease EXCEPT ![e] = a]
              /\ eadd' = [eadd EXCEPT ![e] = At("acquired", a, NoEip)]
  BY DEF handleAddOvnEip
<1> QED  BY <1>7, <1>8, <1>9, Zenon

LEMMA CRInv ==
    ASSUME TypeInv, TypeInv', NEW e \in Eips, EipInv(e), UseGrows(e),
           createOrUpdateOvnEipCR(e)
    PROVE  EipInv(e)'
<1>1. /\ eadd[e].at = "acquired" /\ (Remade(e) \/ Retried(e) \/ Updated(e))
      /\ ceip' = ceip /\ lease' = lease
  BY CROutcomes, Zenon
<1>2. /\ EipsOk(eip) /\ uids \in [Eips \cup Rules -> Nat] /\ eadd \in [Eips -> EipWork]
      /\ e \in Eips \cup Rules
  BY Zenon DEF TypeInv
<1>3. "acquired" # "idle"
  OBVIOUS
<1>4. uids[e] # 0
  BY <1>1, <1>3, Zenon DEF EipInv
<1>5. eip[e].uid <= uids[e] /\ ceip[e].uid <= uids[e] /\ uids[e] \in Nat
      /\ ceip[e].uid \in Nat
  BY EipNumbers, Zenon DEF EipInv
<1>6. CASE Remade(e)
  <2>1. /\ eip'[e] = NewEip(uids[e] + 1, TRUE, eadd[e].ip)
        /\ uids'[e] = uids[e] + 1
    BY <1>2, <1>6, Zenon DEF Remade, EipsOk
  <2>2. eip'[e].uid = uids[e] + 1
    BY <2>1, SMTT(20) DEF NewEip
  <2>3. /\ eip'[e].uid <= uids'[e] /\ ceip'[e].uid <= uids'[e] /\ uids[e] <= uids'[e]
        /\ eip'[e].uid # 1
    <3>1. ceip'[e].uid = ceip[e].uid /\ uids'[e] = uids[e] + 1
      BY <1>1, <2>1, Zenon
    <3> QED  BY <1>4, <1>5, <2>2, <3>1, SMTT(20)
  <2>4. ~FirstKept(eip'[e])
    BY <2>3, Zenon DEF FirstKept
  <2> QED  BY <1>4, <2>3, <2>4, EipInvKept, Zenon
<1>7. CASE Retried(e)
  <2>1. eip' = eip /\ uids' = uids /\ q' = Push("addEip", e) /\ eadd'[e] = IdleEip
    BY <1>2, <1>7, Zenon DEF Retried, RetryAddEip
  <2>2. q'["delEip"] = q["delEip"]
    BY <1>2, <2>1, OtherQueues, Zenon
  <2>3. eip'[e].uid <= uids'[e] /\ ceip'[e].uid <= uids'[e] /\ uids[e] <= uids'[e]
    BY <1>1, <1>5, <2>1, SMTT(20)
  <2>4. FirstKept(eip[e]) => Agree(eip[e], ceip[e], lease[e], eadd'[e])
    BY <2>1, AgreeIdle, IdleAt, Zenon DEF EipInv, Leased
  <2> QED  BY <1>1, <1>4, <2>1, <2>2, <2>3, <2>4, EipInvKept, Zenon DEF EipInv, Leased
<1>8. CASE Updated(e)
  <2>1. /\ uids' = uids /\ q' = q /\ Exists(ceip[e])
        /\ eadd'[e] = At("updated", eadd[e].ip, ceip[e])
    BY <1>2, <1>8, Zenon DEF Updated
  <2>2. eadd'[e].at = "updated" /\ eadd'[e].ip = eadd[e].ip
    BY ONLY <2>1, SMTT(20) DEF At
  <2>3. \/ ceip[e].spec = eadd[e].ip /\ eip'[e] = eip[e]
        \/ /\ ceip[e].spec # eadd[e].ip /\ ceip[e] = eip[e]
           /\ eip'[e].uid = eip[e].uid /\ eip'[e].term = eip[e].term
           /\ eip'[e].ip = eip[e].ip /\ eip'[e].spec = eadd[e].ip
    <3>1. CASE ceip[e].spec = eadd[e].ip /\ eip' = eip
      BY <3>1, Zenon
    <3>2. CASE /\ ceip[e].spec # eadd[e].ip /\ ceip[e] = eip[e]
               /\ eip' = [eip EXCEPT ![e] = [eip[e] EXCEPT !.spec = eadd[e].ip]]
      <4>1. eip'[e] = [eip[e] EXCEPT !.spec = eadd[e].ip] /\ EipOk(eip[e])
        BY <1>2, <3>2, Zenon DEF EipsOk, EipOk
      <4>2. eadd[e] \in EipWork
        BY <1>2, Zenon
      <4>3. eadd[e].ip \in IPs
        BY <4>2 DEF EipWork
      <4>4. Exists(eip[e])
        BY <2>1, <3>2, Zenon
      <4>5. WithSpec([eip[e] EXCEPT !.spec = eadd[e].ip], eip[e], eadd[e].ip)
        BY <4>1, <4>3, <4>4, SpecWritten, Zenon
      <4>6. WithSpec(eip'[e], eip[e], eadd[e].ip)
        BY <4>1, <4>5, Zenon
      <4> QED  BY <3>2, <4>6, Zenon DEF WithSpec
    <3> QED  BY <1>8, <3>1, <3>2, Zenon DEF Updated
  <2>4. eip'[e].uid = eip[e].uid /\ eip'[e].term = eip[e].term
    BY <2>3, Zenon
  <2>5. eip'[e].uid <= uids'[e] /\ ceip'[e].uid <= uids'[e] /\ uids[e] <= uids'[e]
    BY <1>1, <1>5, <2>1, <2>4, SMTT(20)
  <2>6. FirstKept(eip'[e]) => FirstKept(eip[e])
    BY <2>4, Zenon DEF FirstKept
  <2>7. FirstKept(eip[e]) => Agree(eip'[e], ceip[e], lease[e], eadd'[e])
    BY <1>1, <2>2, <2>3, AgreeUpdated, Zenon DEF EipInv, Leased
  <2> QED  BY <1>1, <1>4, <2>1, <2>5, <2>6, <2>7, EipInvKept, Zenon DEF EipInv, Leased
<1> QED  BY <1>1, <1>6, <1>7, <1>8, Zenon

LEMMA CRStatusInv ==
    ASSUME TypeInv, TypeInv', NEW e \in Eips, EipInv(e), UseGrows(e),
           createOrUpdateOvnEipCRStatus(e)
    PROVE  EipInv(e)'
<1>1. /\ eadd[e].at = "updated"
      /\ eip' = eip \/ StatusSet(e)
      /\ eadd' = [eadd EXCEPT ![e] = At("patched", eadd[e].ip, NoEip)]
      /\ ceip' = ceip /\ uids' = uids /\ lease' = lease /\ q' = q
  BY CRStatusOutcomes, Zenon
<1>2. eadd \in [Eips -> EipWork] /\ "updated" # "idle"
  BY Zenon DEF TypeInv
<1>3. eadd'[e] = At("patched", eadd[e].ip, NoEip)
  BY <1>1, <1>2, Zenon
<1>4. eadd'[e].at = "patched" /\ eadd'[e].ip = eadd[e].ip
  BY ONLY <1>3 DEF At
<1>5. /\ eip'[e].uid = eip[e].uid /\ eip'[e].term = eip[e].term
      /\ eip'[e].spec = eip[e].spec /\ eip'[e].ip \in {eip[e].ip, eadd[e].ip}
  BY <1>1, Zenon DEF StatusSet
<1>6. uids[e] # 0
  BY <1>1, <1>2, Zenon DEF EipInv
<1>7. eip[e].uid <= uids[e] /\ ceip[e].uid <= uids[e] /\ uids[e] \in Nat
  BY EipNumbers, Zenon DEF EipInv
<1>8. eip'[e].uid <= uids'[e] /\ ceip'[e].uid <= uids'[e] /\ uids[e] <= uids'[e]
  BY <1>1, <1>5, <1>7
<1>9. FirstKept(eip'[e]) => FirstKept(eip[e])
  BY <1>5, Zenon DEF FirstKept
<1>10. FirstKept(eip[e]) => Agree(eip'[e], ceip[e], lease[e], eadd'[e])
  BY <1>1, <1>4, <1>5, AgreeRecorded, Zenon DEF EipInv, Leased
<1> QED  BY <1>1, <1>6, <1>8, <1>9, <1>10, EipInvKept, Zenon DEF EipInv, Leased

\* A refresh of the status, by the add handler or on behalf of a rule.
LEMMA RefreshedInv ==
    ASSUME TypeInv, TypeInv', NEW e \in Eips, EipInv(e), UseGrows(e),
           Patched(eip', e) \/ eip' = eip,
           ceip' = ceip, uids' = uids, lease' = lease, q'["delEip"] = q["delEip"],
           eadd'[e] = eadd[e] \/ eadd'[e].at = "idle",
           eadd[e].at = "patched" \/ InUse(e) \/ eip' = eip
    PROVE  EipInv(e)'
<1>1. /\ eip'[e].uid = eip[e].uid /\ eip'[e].term = eip[e].term
      /\ eip'[e].spec = eip[e].spec
      /\ \/ eip'[e] = eip[e]
         \/ /\ eadd[e].at = "patched" \/ InUse(e)
            /\ eip'[e].ip = Shown(ceip[e])
  BY Zenon DEF Patched
<1>2. eip[e].uid <= uids[e] /\ ceip[e].uid <= uids[e] /\ uids[e] \in Nat
  BY EipNumbers, Zenon DEF EipInv
<1>3. eip'[e].uid <= uids'[e] /\ ceip'[e].uid <= uids'[e] /\ uids[e] <= uids'[e]
  <2>1. /\ eip'[e].uid <= uids'[e] /\ ceip'[e].uid <= uids'[e]
        /\ uids'[e] = uids[e] /\ uids[e] \in Nat
    BY <1>1, <1>2, Zenon
  <2> QED  BY <2>1
<1>4. uids[e] = 0 => eadd'[e].at = "idle" /\ e \notin q'["delEip"]
  BY Zenon DEF EipInv
<1>5. FirstKept(eip'[e]) => FirstKept(eip[e])
  BY <1>1, Zenon DEF FirstKept
<1>6. ASSUME FirstKept(eip[e])
      PROVE  Agree(eip'[e], ceip[e], lease[e], eadd'[e])
  <2>1. /\ Agree(eip[e], ceip[e], lease[e], eadd[e])
        /\ InUse(e) => ceip[e].ip # NoIP
    BY <1>6, Zenon DEF EipInv, Leased
  <2>2. Agree(eip'[e], ceip[e], lease[e], eadd[e])
    BY <1>1, <2>1, AgreePatched, Zenon
  <2> QED  BY <2>2, AgreeIdle, Zenon
<1> QED  BY <1>3, <1>4, <1>5, <1>6, EipInvKept, Zenon DEF EipInv, Leased

LEMMA ReadyInv ==
    ASSUME TypeInv, TypeInv', NEW e \in Eips, EipInv(e), UseGrows(e),
           handleAddOvnEipReady(e)
    PROVE  EipInv(e)'
<1>1. /\ eadd[e].at = "patched"
      /\ Patched(eip', e) \/ eip' = eip
      /\ eadd' = [eadd EXCEPT ![e] = IdleEip]
      /\ q' = q \/ q' = Push("addEip", e)
      /\ ceip' = ceip /\ uids' = uids /\ lease' = lease
  BY ReadyOutcomes, Zenon DEF RetryAddEip
<1>2. eadd \in [Eips -> EipWork] /\ e \in Eips \cup Rules
  BY Zenon DEF TypeInv
<1>3. eadd'[e].at = "idle" /\ q'["delEip"] = q["delEip"]
  BY <1>1, <1>2, IdleAt, OtherQueues, Zenon
<1> QED  BY <1>1, <1>3, RefreshedInv, Zenon

LEMMA ResetInv ==
    ASSUME TypeInv, TypeInv', NEW e \in Eips, EipInv(e), UseGrows(e),
           handleResetOvnEip(e)
    PROVE  EipInv(e)'
<1>1. /\ e \in q["resetEip"]
      /\ Patched(eip', e) \/ eip' = eip
      /\ q' = Pop("resetEip", e)
      /\ ceip' = ceip /\ uids' = uids /\ lease' = lease /\ eadd' = eadd
  BY ResetOutcomes, Zenon
<1>2. q \in [Queues -> SUBSET (Eips \cup Rules)] /\ "delEip" # "resetEip"
  BY Zenon DEF TypeInv
<1>3. q'["delEip"] = q["delEip"]
  BY <1>1, <1>2, QueueNames, Zenon DEF Pop
<1>4. InUse(e)
  BY <1>1, Zenon DEF InUse
<1> QED  BY <1>1, <1>3, <1>4, RefreshedInv, Zenon

LEMMA UpdateEipInv ==
    ASSUME TypeInv, TypeInv', NEW e \in Eips, EipInv(e), UseGrows(e),
           handleUpdateOvnEip(e) \/ handleDelOvnEipFinalizer(e)
    PROVE  EipInv(e)'
<1>1. /\ \/ Exists(ceip[e]) /\ ceip[e].term /\ eip' = eip
         \/ EipKeptBy(eip', e) /\ lease' = lease
         \/ eip'[e] = NoEip
      /\ q' = q \/ q' = Pop("updEip", e) \/ q' = Push("updEip", e)
      /\ ceip' = ceip /\ uids' = uids /\ eadd' = eadd
  BY UpdateEipOutcomes, DelFinalizerOutcomes, Zenon
<1>2. q'["delEip"] = q["delEip"]
  BY <1>1, OtherQueues, e \in Eips \cup Rules, Zenon
<1>3. eip[e].uid <= uids[e] /\ ceip[e].uid <= uids[e] /\ uids[e] \in Nat
  BY EipNumbers, Zenon DEF EipInv
<1>4. eip'[e].uid = eip[e].uid \/ eip'[e].uid = 0
  BY <1>1, NoFields, Zenon DEF EipKeptBy, SameEip
<1>5. eip'[e].uid <= uids'[e] /\ ceip'[e].uid <= uids'[e] /\ uids[e] <= uids'[e]
  BY <1>1, <1>3, <1>4
<1>6. uids[e] = 0 => eadd'[e].at = "idle" /\ e \notin q'["delEip"]
  BY <1>1, <1>2, Zenon DEF EipInv
<1>7. ASSUME FirstKept(eip'[e])
      PROVE  /\ FirstKept(eip[e])
             /\ Agree(eip'[e], ceip[e], lease'[e], eadd[e])
  <2>1. eip'[e] # NoEip
    BY <1>7, NoFields, ZeroNotOne, Zenon DEF FirstKept
  <2>2. ~(Exists(ceip[e]) /\ ceip[e].term /\ eip' = eip)
    BY <1>7, Zenon DEF EipInv, Leased, Agree
  <2>3. EipKeptBy(eip', e) /\ lease' = lease
    BY <1>1, <2>1, <2>2, Zenon
  <2>4. /\ eip'[e].uid = eip[e].uid /\ eip'[e].term = eip[e].term
        /\ eip'[e].spec = eip[e].spec /\ eip'[e].ip = eip[e].ip
    BY <2>3, Zenon DEF EipKeptBy, SameEip
  <2>5. FirstKept(eip[e])
    BY <1>7, <2>4, Zenon DEF FirstKept
  <2> QED  BY <2>3, <2>4, <2>5, AgreeSame, Zenon DEF EipInv, Leased
<1> QED  BY <1>1, <1>2, <1>5, <1>6, <1>7, EipInvKept, Zenon DEF EipInv, Leased

LEMMA HandleDelOvnEipInv ==
    ASSUME TypeInv, TypeInv', NEW e \in Eips, EipInv(e), UseGrows(e), handleDelOvnEip(e)
    PROVE  EipInv(e)'
<1>1. eip' = eip /\ ceip' = ceip /\ uids' = uids /\ eadd' = eadd
  BY DEF handleDelOvnEip, api, caches, workers
<1>2. e \in q["delEip"]
  BY Zenon DEF handleDelOvnEip
<1>3. uids[e] # 0 /\ ~FirstKept(eip[e])
  BY <1>2, Zenon DEF EipInv, Leased
<1>4. eip[e].uid <= uids[e] /\ ceip[e].uid <= uids[e] /\ uids[e] \in Nat
  BY EipNumbers, Zenon DEF EipInv
<1>5. eip'[e].uid <= uids'[e] /\ ceip'[e].uid <= uids'[e] /\ uids[e] <= uids'[e]
  BY <1>1, <1>4
<1> QED  BY <1>1, <1>3, <1>5, EipInvKept, Zenon

\* A step that is not about EIP e.
LEMMA QuietEipKept ==
    ASSUME TypeInv, TypeInv', NEW e \in Eips, EipInv(e), UseGrows(e),
           eip'[e] = eip[e], ceip'[e] = ceip[e], lease'[e] = lease[e],
           eadd'[e] = eadd[e] \/ eadd'[e].at = "idle", uids[e] <= uids'[e],
           e \in q'["delEip"] => e \in q["delEip"]
    PROVE  EipInv(e)'
<1>1. /\ eip[e].uid <= uids[e] /\ ceip[e].uid <= uids[e] /\ uids[e] \in Nat
      /\ eip[e].uid \in Nat /\ ceip[e].uid \in Nat /\ uids'[e] \in Nat
  BY EipNumbers, Zenon DEF EipInv, TypeInv
<1>2. eip[e].uid <= uids'[e] /\ ceip[e].uid <= uids'[e]
  BY <1>1
<1>3. FirstKept(eip[e]) => Agree(eip[e], ceip[e], lease[e], eadd'[e])
  BY AgreeIdle, Zenon DEF EipInv, Leased
<1>4. uids[e] = 0 => eadd'[e].at = "idle" /\ e \notin q'["delEip"]
  BY Zenon DEF EipInv
<1> QED  BY <1>2, <1>3, <1>4, EipInvKept, Zenon DEF EipInv, Leased

LEMMA EipStepEips ==
    ASSUME TypeInv, TypeInv', \A f \in Eips : EipInv(f), NEW e \in Eips, EipStep(e)
    PROVE  \A f \in Eips : EipInv(f)'
<1>1. EipInv(e) /\ UseGrows(e)
  BY EipStepUse, Zenon
<1>2. EipInv(e)'
  BY <1>1, CreateEipInv, DeleteEipInv, EipEventInv, EipGoneInv, HandleAddOvnEipInv,
     CRInv, CRStatusInv, ReadyInv, ResetInv, UpdateEipInv, HandleDelOvnEipInv,
     Zenon DEF EipStep
<1>3. ASSUME NEW f \in Eips \ {e}
      PROVE  EipInv(f)'
  <2>1. EipFrame(e)
    BY EipStepFrame, Zenon
  <2>2. (f \in q'["delEip"] => f \in q["delEip"]) /\ uids[f] <= uids'[f]
    BY <2>1, EipFrameQueues, f \in Eips \cup Rules, Zenon
  <2>3. /\ eip'[f] = eip[f] /\ ceip'[f] = ceip[f] /\ lease'[f] = lease[f]
        /\ eadd'[f] = eadd[f]
    BY <2>1, Zenon DEF EipFrame
  <2>4. EipInv(f) /\ UseGrows(f)
    BY EipStepUse, Zenon
  <2> QED  BY <2>2, <2>3, <2>4, QuietEipKept, Zenon
<1> QED  BY <1>2, <1>3, Zenon

\* Steps of rules touch an EIP only to refresh its status.
LEMMA RuleStepRefresh ==
    ASSUME TypeInv, NEW r \in Rules, RuleStep(r)
    PROVE  \/ eip' = eip
           \/ /\ radd[r].at = "status" /\ Patched(eip', EipOf[r])
              /\ uids' = uids
<1>1. CASE CreateRule(r) \/ DeleteRule(r)
  BY <1>1 DEF CreateRule, DeleteRule
<1>2. CASE RuleAdded(r) \/ RuleUpdated(r) \/ RuleDeleted(r)
  BY <1>2 DEF RuleAdded, RuleUpdated, RuleDeleted, api
<1>3. CASE Adds(r)
  BY <1>3 DEF Adds, api
<1>4. CASE AddFinalizer(r) \/ LabelRule(r) \/ RecordRule(r)
  BY <1>4, AddFinalizerOutcomes, LabelRuleOutcomes, RecordRuleOutcomes, Zenon
<1>5. CASE RefreshEip(r)
  BY <1>5, RefreshOutcomes, Zenon DEF WorkerFrame
<1>6. ASSUME NEW queue \in {"updRule", "delRule"}, Cleans(queue, r)
      PROVE  eip' = eip
  BY <1>6, CleansOutcomes, Zenon
<1>7. ASSUME NEW queue \in {"updRule", "delRule"}, Skips(queue, r)
      PROVE  eip' = eip
  BY <1>7 DEF Skips, api
<1> QED  BY <1>1, <1>2, <1>3, <1>4, <1>5, <1>6, <1>7, Zenon DEF RuleStep

LEMMA RuleStepEips ==
    ASSUME TypeInv, TypeInv', \A f \in Eips : EipInv(f), NEW r \in Rules, RuleStep(r)
    PROVE  \A f \in Eips : EipInv(f)'
<1> SUFFICES ASSUME NEW f \in Eips PROVE EipInv(f)'
  BY Zenon
<1>1. EipInv(f) /\ UseGrows(f)
  BY RuleStepUse, Zenon
<1>2. RuleFrame(r)
  BY RuleStepFrame, Zenon
<1>3. ceip' = ceip /\ lease' = lease /\ eadd' = eadd /\ q'["delEip"] = q["delEip"]
  BY <1>2, Zenon DEF RuleFrame
<1>4. \A j \in Eips \cup Rules : uids[j] <= uids'[j]
  BY <1>2, UidsGrow, r \in Eips \cup Rules, Zenon DEF RuleFrame
<1>5. uids[f] <= uids'[f]
  BY <1>4, Zenon
<1>6. CASE eip'[f] = eip[f]
  BY <1>1, <1>3, <1>5, <1>6, QuietEipKept, Zenon
<1>7. CASE /\ f = EipOf[r]
           /\ radd[r].at = "status" /\ Patched(eip', EipOf[r])
           /\ uids' = uids
  <2>1. "status" # "idle"
    OBVIOUS
  <2>2. InUse(f)
    BY <1>7, <2>1, Zenon DEF InUse, Touched
  <2> QED  BY <1>1, <1>3, <1>7, <2>2, RefreshedInv, Zenon
<1> QED  BY <1>6, <1>7, RuleStepRefresh, Zenon DEF Patched

\* A restarted controller takes the leases from the statuses, in the order of
\* a list.  It gives an address to the wrong EIP when one in deletion, or one
\* made anew, still shows what another EIP has been given meanwhile.
NoLingeringAddress ==
    \A e, f \in Eips :
        FirstKept(eip[e]) /\ eip[e].ip # NoIP /\ eip[f].ip = eip[e].ip =>
            FirstKept(eip[f])

LEMMA ShownLeased ==
    ASSUME EipsInv, NEW e \in Eips, FirstKept(eip[e]), eip[e].ip # NoIP
    PROVE  lease[e] = eip[e].ip /\ eip[e].spec = eip[e].ip
<1>1. Agree(eip[e], ceip[e], lease[e], eadd[e])
  BY Zenon DEF EipsInv, EipInv, Leased
<1> QED  BY <1>1, Zenon DEF Agree

LEMMA CrashEips ==
    ASSUME TypeInv, TypeInv', EipsInv, NoLingeringAddress, Crash
    PROVE  \A f \in Eips : EipInv(f)'
<1> SUFFICES ASSUME NEW e \in Eips PROVE EipInv(e)'
  BY Zenon
<1>1. EipInv(e) /\ UseGrows(e)
  BY CrashUse, Zenon DEF EipsInv
<1>2. eip' = eip /\ uids' = uids
  BY DEF Crash, api
<1>3. ceip' = eip /\ eadd'[e] = IdleEip /\ q'["delEip"] = {} /\ InitIPAM(lease')
  BY CrashQueues, Zenon DEF Crash
<1>4. eip[e].uid <= uids[e] /\ uids[e] \in Nat
  BY <1>1, EipNumbers, Zenon DEF EipInv
<1>5. eip'[e].uid <= uids'[e] /\ ceip'[e].uid <= uids'[e] /\ uids[e] <= uids'[e]
  BY <1>2, <1>3, <1>4
<1>6. ASSUME FirstKept(eip[e])
      PROVE  /\ Agree(eip[e], eip[e], lease'[e], eadd'[e])
             /\ ceip[e].ip # NoIP => eip[e].ip # NoIP
  <2>1. Agree(eip[e], ceip[e], lease[e], eadd[e])
    BY <1>1, <1>6, Zenon DEF EipInv, Leased
  <2>2. Agree(eip[e], eip[e], lease[e], eadd'[e]) /\ (ceip[e].ip # NoIP => eip[e].ip # NoIP)
    BY <1>3, <1>6, <2>1, AgreeCached, AgreeIdle, IdleAt, Zenon
  <2>3. ASSUME eip[e].ip # NoIP
        PROVE  lease'[e] = eip[e].ip
    <3>1. ASSUME NEW f \in Eips \ {e}, eip[f].ip = eip[e].ip
          PROVE  FALSE
      <4>1. FirstKept(eip[f])
        BY <1>6, <2>3, <3>1, Zenon DEF NoLingeringAddress
      <4>2. lease[e] = eip[e].ip /\ lease[f] = eip[e].ip
        BY <1>6, <2>3, <3>1, <4>1, ShownLeased, Zenon
      <4> QED  BY <2>3, <4>2, Zenon DEF EipsInv, LeasesApart
    <3> QED  BY <1>3, <2>3, <3>1, Zenon DEF InitIPAM
  <2>4. eadd'[e].at = "idle" /\ eadd'[e].at \notin {"updated", "patched"}
    BY <1>3, IdleAt
  <2>5. Agree(eip[e], eip[e], lease'[e], eadd'[e])
    BY <1>6, <2>2, <2>3, <2>4, Zenon DEF Agree
  <2> QED  BY <2>2, <2>5, Zenon
<1>7. eadd'[e].at = "idle" /\ e \notin q'["delEip"]
  BY <1>3, IdleAt, Zenon
<1> QED  BY <1>1, <1>2, <1>3, <1>5, <1>6, <1>7, EipInvKept, Zenon

LEMMA FailEips ==
    ASSUME TypeInv, TypeInv', \A f \in Eips : EipInv(f), Fail
    PROVE  \A f \in Eips : EipInv(f)'
<1> SUFFICES ASSUME NEW e \in Eips PROVE EipInv(e)'
  BY Zenon
<1>1. EipInv(e) /\ UseGrows(e)
  BY FailUse, Zenon
<1>2. eip' = eip /\ ceip' = ceip /\ uids' = uids /\ lease' = lease
  BY FailOutcomes, Zenon
<1>3. (eadd'[e] = eadd[e] \/ eadd'[e].at = "idle") /\ q'["delEip"] = q["delEip"]
  BY FailWork, Zenon
<1>4. uids[e] <= uids'[e]
  BY <1>2, EipNumbers
<1> QED  BY <1>1, <1>2, <1>3, <1>4, QuietEipKept, Zenon

LEMMA EipsStep ==
    ASSUME TypeInv, EipsInv, [Next]_vars, [Crash => NoLingeringAddress]_vars
    PROVE  EipsInv'
<1>1. TypeInv' /\ LeasesApart'
  BY TypeStep, LeasesStep, Zenon DEF EipsInv
<1>2. \A f \in Eips : EipInv(f)
  BY Zenon DEF EipsInv
<1>3. CASE Next /\ ~(vars' = vars)
  <2>1. Crash => NoLingeringAddress
    BY <1>3, Zenon
  <2>2. \A f \in Eips : EipInv(f)'
    BY <1>1, <1>2, <1>3, <2>1, StepCases, EipStepEips, RuleStepEips, CrashEips, FailEips, Zenon
  <2> QED  BY <1>1, <2>2, Zenon DEF EipsInv
<1>4. CASE vars' = vars
  <2>1. /\ eip' = eip /\ ceip' = ceip /\ rule' = rule /\ crule' = crule /\ uids' = uids
        /\ lease' = lease /\ q' = q /\ eadd' = eadd /\ radd' = radd
    BY <1>4 DEF vars, api, caches, workers, env
  <2>2. \A f \in Eips : EipInv(f)'
    BY <1>2, <2>1, Zenon DEF EipInv, Leased, InUse, Touched
  <2> QED  BY <1>1, <2>2, Zenon DEF EipsInv
<1> QED  BY <1>3, <1>4, Zenon

LEMMA EipsInit ==
    ASSUME Init
    PROVE  EipsInv
<1>1. TypeInv /\ LeasesApart
  BY TypeInit, LeasesInit, Zenon
<1>2. /\ rule = [r \in Rules |-> NoRule] /\ crule = rule /\ ceip = eip
      /\ q = [queue \in Queues |-> {}]
      /\ eadd = [e \in Eips |-> IdleEip] /\ radd = [r \in Rules |-> IdleRule]
  BY Zenon DEF Init
<1>3. ASSUME NEW e \in Eips
      PROVE  EipInv(e)
  <2>1. eadd[e].at = "idle" /\ e \notin q["delEip"] /\ e \notin q["resetEip"]
    BY <1>2, IdleAt, QueueNames, Zenon
  <2>2. \A r \in Rules : ~Touched(r)
    BY <1>2, IdleAt, NoFields, QueueNames, Zenon DEF Touched, Exists
  <2>3. ~InUse(e)
    BY <2>1, <2>2, Zenon DEF InUse
  <2>4. \/ eip[e] = NoEip
        \/ /\ eip[e].uid = 1 /\ uids[e] = 1 /\ eip[e].ip = lease[e]
           /\ eip[e].spec = lease[e] /\ eip[e].term = FALSE
    BY InitialEips, Zenon DEF EipsOk, Exists
  <2>5. eip[e].uid <= uids[e] /\ ceip[e].uid <= uids[e]
    BY <1>1, <1>2, <2>4, EipNumbers, NoFields
  <2>6. eadd[e].at \notin {"updated", "patched"}
    BY <2>1
  <2>7. FirstKept(eip[e]) => Agree(eip[e], ceip[e], lease[e], eadd[e])
    BY <1>2, <2>1, <2>4, <2>6, NoFields, ZeroNotOne, Zenon DEF FirstKept, Agree
  <2> QED  BY <2>1, <2>3, <2>5, <2>7, Zenon DEF EipInv, Leased
<1> QED  BY <1>1, <1>3, Zenon DEF EipsInv

LEMMA EipsInvariance ==
    Spec /\ [][Crash => NoLingeringAddress]_vars => []EipsInv
BY TypeInvariance, EipsInit, EipsStep, PTL DEF Spec

\* The address an EIP shows is in its spec and leased to it, through every
\* interleaving of the handlers, failed calls and restarts, unless the
\* controller restarts while an EIP on its way out still shows an address that
\* another EIP has.
THEOREM ShownAlwaysLeased ==
    Spec /\ [][Crash => NoLingeringAddress]_vars => []ShownAddressLeased
<1>1. EipsInv => ShownAddressLeased
  BY ShownLeased, Zenon DEF ShownAddressLeased
<1> QED  BY <1>1, EipsInvariance, PTL

\* Two EIPs that are kept never show one address.
ShownApart ==
    \A e, f \in Eips :
        FirstKept(eip[e]) /\ FirstKept(eip[f]) /\ eip[e].ip = eip[f].ip
            /\ eip[e].ip # NoIP => e = f

\* The leases keep the addresses of EIPs apart: what two EIPs show differs.
THEOREM ShownAddressesDiffer ==
    Spec /\ [][Crash => NoLingeringAddress]_vars => []ShownApart
<1>1. EipsInv => ShownApart
  <2> SUFFICES ASSUME EipsInv, NEW e \in Eips, NEW f \in Eips, FirstKept(eip[e]),
                      FirstKept(eip[f]), eip[e].ip = eip[f].ip, eip[e].ip # NoIP
               PROVE  e = f
    BY Zenon DEF ShownApart
  <2>1. lease[e] = eip[e].ip /\ lease[f] = eip[e].ip
    BY ShownLeased, Zenon
  <2> QED  BY <2>1, Zenon DEF EipsInv, LeasesApart
<1> QED  BY <1>1, EipsInvariance, PTL

=============================================================================
