------------------------------- MODULE OvnNat -------------------------------
(***************************************************************************)
(* OVN external addresses (OvnEip) and the NAT rules that use them (OvnFip,*)
(* OvnSnatRule, OvnDnatRule).                                              *)
(*                                                                         *)
(* An EIP leases an address of an external subnet.  A rule names an EIP,   *)
(* finds its address in the informer cache and puts rows into the OVN      *)
(* northbound database; labels and a status record afterwards what it      *)
(* uses.  Finalizers hold back deletion: an EIP waits until no rule is     *)
(* labelled with its address, a rule until its rows are gone.              *)
(*                                                                         *)
(* Every queue has one worker of its own, so the add, update, reset and    *)
(* delete handlers of one object run side by side, each on whatever the    *)
(* informer cache holds at that moment.  A handler that returns an error   *)
(* before it changed anything is retried from the same state, and is no    *)
(* step here; one that fails half-way is Fail.                             *)
(*                                                                         *)
(* Addresses stand for the IPv4 address of an EIP with its MAC.  The spec  *)
(* of a rule never changes after its creation.                             *)
(***************************************************************************)
EXTENDS Integers, FiniteSets

CONSTANTS
    Eips,        \* names of EIPs
    Rules,       \* names of rules
    EipOf,       \* spec.ovnEip of each rule
    Inner,       \* the internal address of each rule
    Port,        \* the external port of each DNAT rule
    Addresses,   \* what the external subnet has to give
    Static,      \* spec.v4Ip of each EIP at creation, NoIP for random
    NoIP,        \* no address
    MaxMakes,    \* bound: objects users make of one name
    MaxFaults,   \* bound: crashes and failed calls
    Scenarios    \* how a behaviour may start, see Init

ASSUME ConstantsAssumption ==
    /\ EipOf \in [Rules -> Eips]
    /\ NoIP \notin Addresses
    /\ Static \in [Eips -> Addresses \cup {NoIP}]
    /\ MaxMakes \in Nat
    /\ MaxFaults \in Nat
    /\ Scenarios \subseteq [ready : SUBSET Eips, faults : 0 .. MaxFaults,
                            makes : [Eips \cup Rules -> 0 .. MaxMakes],
                            kinds : [Rules -> SUBSET {"fip", "snat", "dnat"}]]

VARIABLES
    kind,     \* the kind of each rule, fixed for good
    eip,      \* API server: the EIP of each name
    rule,     \* API server: the rule of each name
    uids,     \* API server: objects made so far of each name
    ceip,     \* ovnEipsLister
    crule,    \* ovnFipsLister, ovnSnatRulesLister, ovnDnatRulesLister
    lease,    \* IPAM: the address each EIP name holds
    rows,     \* OVN NB: NAT rows and load balancer VIPs
    q,        \* the work queues
    eadd,     \* progress of handleAddOvnEip
    eupd,     \* EIPs between the two halves of handleUpdateOvnEip
    radd,     \* progress of the add handlers of rules
    faults,   \* crashes and failed calls so far
    makes     \* objects users will still make of each name

api == <<eip, rule, uids>>
caches == <<ceip, crule>>
workers == <<eadd, eupd, radd>>
env == <<kind, faults, makes>>
vars == <<api, caches, lease, rows, q, workers, env>>

-----------------------------------------------------------------------------
(* Objects *)

IPs == Addresses \cup {NoIP}

Kinds == {"fip", "snat", "dnat"}

\* An EIP: deletion timestamp, finalizer, address of its spec, address, ready
\* flag and users of its status.  uid 0 when there is none.
Eip == [uid : Nat, term : BOOLEAN, fin : BOOLEAN, spec : IPs, ip : IPs,
        ready : BOOLEAN, nat : SUBSET Kinds]

NewEip(u, f, a) == [uid |-> u, term |-> FALSE, fin |-> f, spec |-> a,
                    ip |-> NoIP, ready |-> FALSE, nat |-> {}]

NoEip == NewEip(0, FALSE, NoIP)

\* A rule: deletion timestamp, finalizer, the EIP address in its label and in
\* its status; the status is written at once with vpc and ready.
Rule == [uid : Nat, term : BOOLEAN, fin : BOOLEAN, label : IPs, status : IPs]

NewRule(u) == [uid |-> u, term |-> FALSE, fin |-> FALSE, label |-> NoIP,
               status |-> NoIP]

NoRule == NewRule(0)

Exists(o) == o.uid # 0

Queues == {"addEip", "updEip", "resetEip", "delEip",
           "addRule", "updRule", "delRule"}

\* Where an add handler is, the address it works with and the object it read
\* from the cache when it started.
At(p, a, o) == [at |-> p, ip |-> a, obj |-> o]

IdleEip == At("idle", NoIP, NoEip)

IdleRule == At("idle", NoIP, NoRule)

Push(queue, k) == [q EXCEPT ![queue] = @ \cup {k}]

Pop(queue, k) == [q EXCEPT ![queue] = @ \ {k}]

\* The API server's Delete, and a patch that takes the finalizer.
Deleted(o, none) == IF o.fin THEN [o EXCEPT !.term = TRUE] ELSE none

Unfinalized(o, none) == IF o.term THEN none ELSE [o EXCEPT !.fin = FALSE]

\* Mutant: the patch makes an object that is gone.
FinalizedBug(o) == IF ~o.term THEN [o EXCEPT !.fin = TRUE] ELSE o

\* A patch that adds the finalizer; the API server takes no new finalizer on
\* an object that is being deleted.
Finalized(o) == IF Exists(o) /\ ~o.term THEN [o EXCEPT !.fin = TRUE] ELSE o

-----------------------------------------------------------------------------
(* The users of the cluster *)

CreateEip(e) ==
    /\ ~Exists(eip[e])
    /\ makes[e] > 0
    /\ makes' = [makes EXCEPT ![e] = @ - 1]
    /\ uids' = [uids EXCEPT ![e] = @ + 1]
    /\ eip' = [eip EXCEPT ![e] = NewEip(uids[e] + 1, FALSE, Static[e])]
    /\ UNCHANGED <<rule, caches, lease, rows, q, workers, kind, faults>>

CreateRule(r) ==
    /\ ~Exists(rule[r])
    /\ makes[r] > 0
    /\ makes' = [makes EXCEPT ![r] = @ - 1]
    /\ uids' = [uids EXCEPT ![r] = @ + 1]
    /\ rule' = [rule EXCEPT ![r] = NewRule(uids[r] + 1)]
    /\ UNCHANGED <<eip, caches, lease, rows, q, workers, kind, faults>>

\* Users delete what is ready, and not the EIPs createOrUpdateOvnEipCR made.
DeleteEip(e) ==
    /\ eip[e].uid = 1 /\ ~eip[e].term
    /\ eip[e].ready /\ eip[e].fin
    /\ eip' = [eip EXCEPT ![e] = Deleted(@, NoEip)]
    /\ UNCHANGED <<rule, uids, caches, lease, rows, q, workers, env>>

DeleteRule(r) ==
    /\ Exists(rule[r]) /\ ~rule[r].term
    /\ rule[r].status # NoIP
    /\ rule' = [rule EXCEPT ![r] = Deleted(@, NoRule)]
    /\ UNCHANGED <<eip, uids, caches, lease, rows, q, workers, env>>

-----------------------------------------------------------------------------
(* Events of the informers *)

\* Where an add event goes: the update queue cleans up what is already being
\* deleted, unless its finalizer is gone.
enqueueUpdateIfTerminatingWithFinalizer(queue, k, o) ==
    IF o.fin THEN Push(queue, k) ELSE q

enqueueAddOvnEip(e) ==
    /\ Exists(eip[e]) /\ ~Exists(ceip[e])
    /\ ceip' = [ceip EXCEPT ![e] = eip[e]]
    /\ q' = IF eip[e].term
            THEN enqueueUpdateIfTerminatingWithFinalizer("updEip", e, eip[e])
            ELSE Push("addEip", e)
    /\ UNCHANGED <<api, crule, lease, rows, workers, env>>

\* Users do not change the address of an EIP, so the spec only changes when
\* handleAddOvnEip fills it in.
enqueueUpdateOvnEip(e) ==
    /\ Exists(eip[e]) /\ ceip[e].uid = eip[e].uid /\ ceip[e] # eip[e]
    /\ ceip' = [ceip EXCEPT ![e] = eip[e]]
    /\ q' = CASE eip[e].term ->
                   enqueueUpdateIfTerminatingWithFinalizer("updEip", e, eip[e])
              [] ~eip[e].term /\ ceip[e].spec # eip[e].spec -> Push("updEip", e)
              [] OTHER -> q
    /\ UNCHANGED <<api, crule, lease, rows, workers, env>>

enqueueDelOvnEip(e) ==
    /\ Exists(ceip[e]) /\ ceip[e].uid # eip[e].uid
    /\ ceip' = [ceip EXCEPT ![e] = NoEip]
    /\ q' = Push("delEip", e)
    /\ UNCHANGED <<api, crule, lease, rows, workers, env>>

RuleAdded(r) ==
    /\ Exists(rule[r]) /\ ~Exists(crule[r])
    /\ crule' = [crule EXCEPT ![r] = rule[r]]
    /\ q' = IF rule[r].term
            THEN enqueueUpdateIfTerminatingWithFinalizer("updRule", r, rule[r])
            ELSE Push("addRule", r)
    /\ UNCHANGED <<api, ceip, lease, rows, workers, env>>

enqueueAddOvnFip(r) == kind[r] = "fip" /\ RuleAdded(r)

enqueueAddOvnSnatRule(r) == kind[r] = "snat" /\ RuleAdded(r)

enqueueAddOvnDnatRule(r) == kind[r] = "dnat" /\ RuleAdded(r)

RuleUpdated(r) ==
    /\ Exists(rule[r]) /\ crule[r].uid = rule[r].uid /\ crule[r] # rule[r]
    /\ crule' = [crule EXCEPT ![r] = rule[r]]
    /\ q' = IF rule[r].term
            THEN enqueueUpdateIfTerminatingWithFinalizer("updRule", r, rule[r])
            ELSE q
    /\ UNCHANGED <<api, ceip, lease, rows, workers, env>>

enqueueUpdateOvnFip(r) == kind[r] = "fip" /\ RuleUpdated(r)

enqueueUpdateOvnSnatRule(r) == kind[r] = "snat" /\ RuleUpdated(r)

enqueueUpdateOvnDnatRule(r) == kind[r] = "dnat" /\ RuleUpdated(r)

RuleDeleted(r) ==
    /\ Exists(crule[r]) /\ crule[r].uid # rule[r].uid
    /\ crule' = [crule EXCEPT ![r] = NoRule]
    /\ q' = Push("delRule", r)
    /\ UNCHANGED <<api, ceip, lease, rows, workers, env>>

enqueueDelOvnFip(r) == kind[r] = "fip" /\ RuleDeleted(r)

enqueueDelOvnSnatRule(r) == kind[r] = "snat" /\ RuleDeleted(r)

enqueueDelOvnDnatRule(r) == kind[r] = "dnat" /\ RuleDeleted(r)

-----------------------------------------------------------------------------
(* The handlers of EIPs *)

\* The kinds of rules the cache shows labelled with address a.
getOvnEipNat(a) ==
    {kind[r] : r \in {s \in Rules : a # NoIP /\ Exists(crule[s])
                                            /\ crule[s].label = a}}

\* The status patchOvnEipStatus computes from the cached EIP.  All fields are
\* in the patch, changed or not.
StatusFrom(o, c, mark) ==
    [o EXCEPT !.ip = IF c.ip = NoIP THEN c.spec ELSE c.ip,
              !.ready = c.ready \/ mark,
              !.nat = getOvnEipNat(c.spec)]

StatusChanged(c, mark) ==
    \/ mark /\ ~c.ready
    \/ c.ip = NoIP
    \/ c.nat # getOvnEipNat(c.spec)

\* It fails when the EIP is not in the cache, and when there is a patch to
\* make and the EIP is gone from the API server.
patchOvnEipStatusFails(e, mark) ==
    \/ ~Exists(ceip[e])
    \/ StatusChanged(ceip[e], mark) /\ ~Exists(eip[e])

patchOvnEipStatus(e, mark) ==
    IF StatusChanged(ceip[e], mark)
    THEN [eip EXCEPT ![e] = StatusFrom(@, ceip[e], mark)]
    ELSE eip

\* What acquireIPAddress and acquireStaticIPAddress may return.
Acquirable(e) ==
    LET free == {a \in Addresses : \A f \in Eips \ {e} : lease[f] # a}
    IN CASE ceip[e].spec # NoIP -> {ceip[e].spec} \cap free
         [] ceip[e].spec = NoIP /\ lease[e] # NoIP -> {lease[e]}
         [] OTHER -> free

EipWorkerFree == \A e \in Eips : eadd[e] = IdleEip

\* handleAddOvnEip up to the lease.
handleAddOvnEip(e) ==
    /\ e \in q["addEip"]
    /\ EipWorkerFree
    /\ q' = Pop("addEip", e)
    /\ IF ~Exists(ceip[e]) \/ ceip[e].ip # NoIP
       THEN UNCHANGED <<lease, eadd>>
       ELSE \E a \in Acquirable(e) :
               /\ lease' = [lease EXCEPT ![e] = a]
               /\ eadd' = [eadd EXCEPT ![e] = At("acquired", a, NoEip)]
    /\ UNCHANGED <<api, caches, rows, eupd, radd, env>>

RetryAddEip(e) ==
    /\ eadd' = [eadd EXCEPT ![e] = IdleEip]
    /\ q' = Push("addEip", e)

\* createOrUpdateOvnEipCR makes an EIP the cache no longer has, with its
\* finalizer; the API server drops the status of a Create.  Otherwise it
\* fills in the spec by an Update, which fails on a stale copy.
createOrUpdateOvnEipCR(e) ==
    LET c == ceip[e]
        a == eadd[e].ip
    IN  /\ eadd[e].at = "acquired"
        /\ \/ /\ ~Exists(c) /\ ~Exists(eip[e])
              /\ uids' = [uids EXCEPT ![e] = @ + 1]
              /\ eip' = [eip EXCEPT ![e] = NewEip(uids[e] + 1, TRUE, a)]
              /\ eadd' = [eadd EXCEPT ![e] = At("patched", a, NoEip)]
              /\ q' = q
           \/ /\ IF Exists(c) THEN c.spec # a /\ c # eip[e] ELSE Exists(eip[e])
              /\ RetryAddEip(e)
              /\ UNCHANGED <<eip, uids>>
           \/ /\ Exists(c)
              /\ c.spec # a => c = eip[e]
              /\ eip' = IF c.spec # a THEN [eip EXCEPT ![e].spec = a] ELSE eip
              /\ eadd' = [eadd EXCEPT ![e] = At("updated", a, c)]
              /\ UNCHANGED <<uids, q>>
        /\ UNCHANGED <<rule, caches, lease, rows, eupd, radd, env>>

\* Its second half: the status, from the same copy.  An EIP that is gone by
\* now is no error.
createOrUpdateOvnEipCRStatus(e) ==
    LET o == eadd[e].obj
    IN  /\ eadd[e].at = "updated"
        /\ eip' = IF o.ip = NoIP /\ Exists(eip[e])
                  THEN [eip EXCEPT ![e] = [@ EXCEPT !.ip = eadd[e].ip,
                                                    !.ready = o.ready, !.nat = o.nat]]
                  ELSE eip
        /\ eadd' = [eadd EXCEPT ![e] = At("patched", eadd[e].ip, NoEip)]
        /\ UNCHANGED <<rule, uids, caches, lease, rows, q, eupd, radd, env>>

\* handleAddOvnEip ends by marking the EIP ready, with the status of a cache
\* that need not show yet what was just written.
handleAddOvnEipReady(e) ==
    /\ eadd[e].at = "patched"
    /\ IF patchOvnEipStatusFails(e, TRUE)
       THEN RetryAddEip(e) /\ eip' = eip
       ELSE /\ eip' = patchOvnEipStatus(e, TRUE)
            /\ eadd' = [eadd EXCEPT ![e] = IdleEip]
            /\ q' = q
    /\ UNCHANGED <<rule, uids, caches, lease, rows, eupd, radd, env>>

\* Mutant: an EIP in use is left to the event of the rule's deletion.
handleUpdateOvnEipBug(e) ==
    LET c == ceip[e]
    IN  /\ e \in q["updEip"]
        /\ eupd = {}
        /\ q' = Pop("updEip", e)
        /\ IF Exists(c) /\ c.term /\ getOvnEipNat(c.spec) = {}
           THEN /\ lease' = [lease EXCEPT ![e] = NoIP]
                /\ eupd' = {e}
           ELSE UNCHANGED <<lease, eupd>>
        /\ eip' = IF Exists(c) /\ ~c.term
                  THEN [eip EXCEPT ![e] = Finalized(@)] ELSE eip
        /\ UNCHANGED <<rule, uids, caches, rows, eadd, radd, env>>

\* handleUpdateOvnEip.  An EIP that is being deleted waits for its rules and
\* gives its address back; any other gets its finalizer, and an address in
\* the status that is not that of the spec is an error for good.
handleUpdateOvnEip(e) ==
    LET c == ceip[e]
    IN  /\ e \in q["updEip"]
        /\ eupd = {}
        /\ \/ /\ ~Exists(c)
              /\ q' = Pop("updEip", e)
              /\ UNCHANGED <<eip, lease, eupd>>
           \/ /\ Exists(c) /\ c.term
              /\ getOvnEipNat(c.spec) = {}
              /\ lease' = [lease EXCEPT ![e] = NoIP]
              /\ eupd' = {e}
              /\ q' = Pop("updEip", e)
              /\ UNCHANGED eip
           \/ /\ Exists(c) /\ ~c.term
              /\ eip' = IF c.fin THEN eip ELSE [eip EXCEPT ![e] = Finalized(@)]
              /\ q' = IF c.ready /\ c.ip # c.spec THEN q ELSE Pop("updEip", e)
              /\ UNCHANGED <<lease, eupd>>
        /\ UNCHANGED <<rule, uids, caches, rows, eadd, radd, env>>

\* handleDelOvnEipFinalizer looks for rules once more, with the same copy.
handleDelOvnEipFinalizer(e) ==
    /\ e \in eupd
    /\ eupd' = {}
    /\ IF Exists(ceip[e]) /\ getOvnEipNat(ceip[e].spec) # {}
       THEN q' = Push("updEip", e) /\ eip' = eip
       ELSE /\ eip' = IF Exists(eip[e])
                      THEN [eip EXCEPT ![e] = Unfinalized(@, NoEip)] ELSE eip
            /\ q' = q
    /\ UNCHANGED <<rule, uids, caches, lease, rows, eadd, radd, env>>

\* Recomputes the users in the status.
handleResetOvnEip(e) ==
    /\ e \in q["resetEip"]
    /\ \/ /\ ~Exists(ceip[e]) \/ ceip[e].term
          /\ eip' = eip
       \/ /\ ~ceip[e].term
          /\ ~patchOvnEipStatusFails(e, FALSE)
          /\ eip' = patchOvnEipStatus(e, FALSE)
    /\ q' = Pop("resetEip", e)
    /\ UNCHANGED <<rule, uids, caches, lease, rows, workers, env>>

\* Runs after every deletion and releases what is leased under the name.
handleDelOvnEip(e) ==
    /\ e \in q["delEip"]
    /\ lease' = [lease EXCEPT ![e] = NoIP]
    /\ q' = Pop("delEip", e)
    /\ UNCHANGED <<api, caches, rows, workers, env>>

-----------------------------------------------------------------------------
(* The handlers of rules *)

\* Rows of the northbound database: a NAT row is known by its type, external
\* and internal address, a load balancer VIP by the DNAT rule's name (the load
\* balancer), external address and port.
NatRow(type, a, i) == [type |-> type, ext |-> a, of |-> i]

VipRow(r, a) == [type |-> "lb", ext |-> a, of |-> <<r, Port[r]>>]

\* Mutant: a dnat_and_snat row drives out the snat rows of the address too.
AddNatBug(type, a, i) ==
    {w \in rows : ~(type = "dnat_and_snat" /\ w.ext = a)} \cup {NatRow(type, a, i)}

\* AddNat: a dnat_and_snat row replaces every other row of the external
\* address, an snat row that exists stays.
AddNat(type, a, i) ==
    {w \in rows : ~(type = "dnat_and_snat" /\ w.type = type /\ w.ext = a)}
        \cup {NatRow(type, a, i)}

DeleteNat(type, a, i) == rows \ {NatRow(type, a, i)}

AddDnatRule(r, a) == rows \cup {VipRow(r, a)}

DelDnatRule(r, a) == rows \ {VipRow(r, a)}

\* Another FIP is labelled with the address.
isOvnFipDuplicated(r) ==
    \E s \in Rules \ {r} :
        /\ kind[s] = "fip"
        /\ Exists(crule[s])
        /\ crule[s].label = ceip[EipOf[r]].spec

\* The external port labels of a rule, by which checkEipPortConflict finds
\* DNAT rules: patchOvnDnatStatus sets none.
PortLabels(o) == {}

checkEipPortConflict(r) ==
    \E s \in Rules \ {r} :
        /\ kind[s] = "dnat"
        /\ Exists(crule[s])
        /\ EipOf[s] = EipOf[r]
        /\ Port[r] \in PortLabels(crule[s])

\* GetOvnEip: it asks for an address, not whether the EIP is being deleted.
GetOvnEip(e) == Exists(ceip[e]) /\ ceip[e].ip # NoIP

\* Mutant: an EIP without an address is no error, so nothing is retried.
AddRuleBug(r, refused, new) ==
    /\ r \in q["addRule"]
    /\ \A s \in Rules : kind[s] = kind[r] => radd[s] = IdleRule
    /\ q' = Pop("addRule", r)
    /\ IF Exists(crule[r]) /\ crule[r].status = NoIP /\ GetOvnEip(EipOf[r])
       THEN /\ rows' = new
            /\ radd' = [radd EXCEPT ![r] = At("rows", ceip[EipOf[r]].ip, crule[r])]
       ELSE UNCHANGED <<rows, radd>>
    /\ UNCHANGED <<api, caches, lease, eadd, eupd, env>>

\* The add handler of a rule up to its rows: refused stands for the conflict
\* check of its kind, new for the rows it leaves.
AddRule(r, refused, new) ==
    LET e == EipOf[r]
    IN  /\ r \in q["addRule"]
        /\ \A s \in Rules : kind[s] = kind[r] => radd[s] = IdleRule
        /\ q' = Pop("addRule", r)
        /\ \/ /\ ~Exists(crule[r]) \/ crule[r].status # NoIP
              /\ UNCHANGED <<rows, radd>>
           \/ /\ Exists(crule[r]) /\ crule[r].status = NoIP
              /\ GetOvnEip(e)
              /\ ~refused
              /\ rows' = new
              /\ radd' = [radd EXCEPT ![r] = At("rows", ceip[e].ip, crule[r])]
        /\ UNCHANGED <<api, caches, lease, eadd, eupd, env>>

handleAddOvnFip(r) ==
    /\ kind[r] = "fip"
    /\ AddRule(r, isOvnFipDuplicated(r),
               AddNat("dnat_and_snat", ceip[EipOf[r]].ip, Inner[r]))

handleAddOvnSnatRule(r) ==
    /\ kind[r] = "snat"
    /\ AddRule(r, FALSE, AddNat("snat", ceip[EipOf[r]].ip, Inner[r]))

handleAddOvnDnatRule(r) ==
    /\ kind[r] = "dnat"
    /\ AddRule(r, checkEipPortConflict(r), AddDnatRule(r, ceip[EipOf[r]].ip))

RetryAddRule(r) ==
    /\ radd' = [radd EXCEPT ![r] = IdleRule]
    /\ q' = Push("addRule", r)

\* An object the cache still shows is gone from the API server: the JSON
\* patches of the handler fail.
GoneUnseen(c, o) == Exists(c) /\ ~Exists(o)

\* The finalizer, decided on the copy read first; then the annotations of the
\* EIP and of the rule, which change nothing here but may fail.
AddFinalizer(r) ==
    LET c == radd[r].obj
    IN  /\ radd[r].at = "rows"
        /\ rule' = IF c.term \/ c.fin THEN rule
                   ELSE [rule EXCEPT ![r] = Finalized(@)]
        /\ IF GoneUnseen(ceip[EipOf[r]], eip[EipOf[r]])
              \/ GoneUnseen(crule[r], rule[r])
           THEN RetryAddRule(r)
           ELSE /\ radd' = [radd EXCEPT ![r].at = "finalizer"]
                /\ q' = q
        /\ UNCHANGED <<eip, uids, caches, lease, rows, eadd, eupd, env>>

handleAddOvnFipFinalizer(r) == kind[r] = "fip" /\ AddFinalizer(r)

handleAddOvnSnatFinalizer(r) == kind[r] = "snat" /\ AddFinalizer(r)

handleAddOvnDnatFinalizer(r) == kind[r] = "dnat" /\ AddFinalizer(r)

\* patchOvnFipStatus and its like make two patches, the label first.  A rule
\* that is not in the cache any more is skipped.
LabelRule(r) ==
    /\ radd[r].at = "finalizer"
    /\ IF GoneUnseen(crule[r], rule[r])
       THEN RetryAddRule(r) /\ rule' = rule
       ELSE /\ rule' = IF Exists(crule[r])
                       THEN [rule EXCEPT ![r].label = radd[r].ip] ELSE rule
            /\ radd' = [radd EXCEPT ![r].at =
                          IF Exists(crule[r]) THEN "label" ELSE "status"]
            /\ q' = q
    /\ UNCHANGED <<eip, uids, caches, lease, rows, eadd, eupd, env>>

RecordRule(r) ==
    /\ radd[r].at = "label"
    /\ IF Exists(rule[r])
       THEN /\ rule' = [rule EXCEPT ![r].status = radd[r].ip]
            /\ radd' = [radd EXCEPT ![r].at = "status"]
            /\ q' = q
       ELSE RetryAddRule(r) /\ rule' = rule
    /\ UNCHANGED <<eip, uids, caches, lease, rows, eadd, eupd, env>>

patchOvnFipStatus(r) == kind[r] = "fip" /\ (LabelRule(r) \/ RecordRule(r))

patchOvnSnatStatus(r) == kind[r] = "snat" /\ (LabelRule(r) \/ RecordRule(r))

patchOvnDnatStatus(r) == kind[r] = "dnat" /\ (LabelRule(r) \/ RecordRule(r))

\* The add handlers end by refreshing the status of the EIP.
RefreshEip(r) ==
    LET e == EipOf[r]
    IN  /\ radd[r].at = "status"
        /\ IF patchOvnEipStatusFails(e, TRUE)
           THEN RetryAddRule(r) /\ eip' = eip
           ELSE /\ eip' = patchOvnEipStatus(e, TRUE)
                /\ radd' = [radd EXCEPT ![r] = IdleRule]
                /\ q' = q
        /\ UNCHANGED <<rule, uids, caches, lease, rows, eadd, eupd, env>>

\* The finalizer of a rule is taken by a patch made from the cached copy; the
\* EIP is then looked at again.
TakeFinalizer(r, c) ==
    IF c.fin /\ Exists(rule[r])
    THEN [rule EXCEPT ![r] = Unfinalized(@, NoRule)] ELSE rule

\* The queues after a rule was cleaned up from queue: handleDelOvnFipFinalizer
\* and its like enqueue the EIP for an update, their callers for a reset.
Cleaned(queue, r, c, reset) ==
    [q EXCEPT ![queue] = @ \ {r},
              !["updEip"] = @ \cup IF c.fin /\ Exists(rule[r])
                                   THEN {EipOf[r]} ELSE {},
              !["resetEip"] = @ \cup IF reset THEN {EipOf[r]} ELSE {}]

\* Mutant: rows are only taken while the EIP is there.
UpdateRuleBug(r, without) ==
    LET c == crule[r]
    IN  /\ r \in q["updRule"]
        /\ \/ /\ Exists(c) /\ c.term
              /\ rows' = IF GetOvnEip(EipOf[r]) THEN without ELSE rows
              /\ rule' = TakeFinalizer(r, c)
              /\ q' = Cleaned("updRule", r, c, TRUE)
           \/ /\ ~Exists(c) \/ ~c.term
              /\ q' = Pop("updRule", r)
              /\ UNCHANGED <<rows, rule>>
        /\ UNCHANGED <<eip, uids, caches, lease, workers, env>>

\* The update handler of a rule.  A rule that is being deleted loses the rows
\* its status names, and its finalizer; an empty status means there are none.
\* For any other rule the handler only compares, and changes nothing.
UpdateRule(r, without) ==
    LET c == crule[r]
    IN  /\ r \in q["updRule"]
        /\ \/ /\ Exists(c) /\ c.term
              /\ rows' = IF c.status = NoIP THEN rows ELSE without
              /\ rule' = TakeFinalizer(r, c)
              /\ q' = Cleaned("updRule", r, c, c.status # NoIP)
           \/ /\ ~Exists(c) \/ ~c.term
              /\ q' = Pop("updRule", r)
              /\ UNCHANGED <<rows, rule>>
        /\ UNCHANGED <<eip, uids, caches, lease, workers, env>>

handleUpdateOvnFip(r) ==
    /\ kind[r] = "fip"
    /\ UpdateRule(r, DeleteNat("dnat_and_snat", crule[r].status, Inner[r]))

handleUpdateOvnSnatRule(r) ==
    /\ kind[r] = "snat"
    /\ UpdateRule(r, DeleteNat("snat", crule[r].status, Inner[r]))

handleUpdateOvnDnatRule(r) ==
    /\ kind[r] = "dnat"
    /\ UpdateRule(r, DelDnatRule(r, crule[r].status))

\* The delete handlers find the rule gone from the cache and have nothing to
\* work from, unless there is a new rule of that name: that one they clean.
DeleteGone(r) ==
    /\ r \in q["delRule"]
    /\ ~Exists(crule[r])
    /\ q' = Pop("delRule", r)
    /\ UNCHANGED <<api, caches, lease, rows, workers, env>>

DeleteFound(r, without) ==
    LET c == crule[r]
    IN  /\ r \in q["delRule"]
        /\ Exists(c)
        /\ rows' = IF c.status = NoIP THEN rows ELSE without
        /\ rule' = TakeFinalizer(r, c)
        /\ q' = Cleaned("delRule", r, c, TRUE)
        /\ UNCHANGED <<eip, uids, caches, lease, workers, env>>

\* Nothing is done for a FIP without a status.
handleDelOvnFip(r) ==
    /\ kind[r] = "fip"
    /\ \/ DeleteGone(r)
       \/ /\ crule[r].status # NoIP
          /\ DeleteFound(r, DeleteNat("dnat_and_snat", crule[r].status, Inner[r]))
       \/ /\ Exists(crule[r]) /\ crule[r].status = NoIP
          /\ r \in q["delRule"] /\ q' = Pop("delRule", r)
          /\ UNCHANGED <<api, caches, lease, rows, workers, env>>

handleDelOvnSnatRule(r) ==
    /\ kind[r] = "snat"
    /\ \/ DeleteGone(r)
       \/ DeleteFound(r, DeleteNat("snat", crule[r].status, Inner[r]))

\* A DNAT rule without a status is an error, retried until it has one.
handleDelOvnDnatRule(r) ==
    /\ kind[r] = "dnat"
    /\ \/ DeleteGone(r)
       \/ /\ crule[r].status # NoIP
          /\ DeleteFound(r, DelDnatRule(r, crule[r].status))

-----------------------------------------------------------------------------
(* Faults *)

\* Mutant: only EIPs that are ready get their address back.
InitIPAMBug(l) ==
    l = [e \in Eips |-> IF eip[e].ready THEN eip[e].ip ELSE NoIP]

\* InitIPAM takes the leases from the status of the EIPs: the first EIP with
\* an address keeps it.
InitIPAM(l) ==
    \A e \in Eips :
        LET a == eip[e].ip
            takers == {f \in Eips : eip[f].ip = a}
        IN  IF a = NoIP THEN l[e] = NoIP
            ELSE \/ l[e] = a /\ \A f \in takers \ {e} : l[f] = NoIP
                 \/ l[e] = NoIP /\ \E f \in takers \ {e} : l[f] = a

\* Mutant: a rule that is found in deletion is taken for a new one.
CrashBug ==
    /\ faults < MaxFaults
    /\ faults' = faults + 1
    /\ ceip' = eip
    /\ crule' = rule
    /\ lease' \in [Eips -> IPs]
    /\ InitIPAM(lease')
    /\ q' = [queue \in Queues |->
               CASE queue = "addEip" -> {e \in Eips : Exists(eip[e]) /\ ~eip[e].term}
                 [] queue = "updEip" -> {e \in Eips : eip[e].term /\ eip[e].fin}
                 [] queue = "addRule" -> {r \in Rules : Exists(rule[r])}
                 [] OTHER -> {}]
    /\ eadd' = [e \in Eips |-> IdleEip]
    /\ eupd' = {}
    /\ radd' = [r \in Rules |-> IdleRule]
    /\ UNCHANGED <<kind, makes, api, rows>>

\* The controller stops and starts again: queues and handlers are lost, the
\* caches are filled by a list, and every object arrives as an add event.
Crash ==
    /\ faults < MaxFaults
    /\ faults' = faults + 1
    /\ ceip' = eip
    /\ crule' = rule
    /\ lease' \in [Eips -> IPs]
    /\ InitIPAM(lease')
    /\ q' = [queue \in Queues |->
               CASE queue = "addEip" -> {e \in Eips : Exists(eip[e]) /\ ~eip[e].term}
                 [] queue = "updEip" -> {e \in Eips : eip[e].term /\ eip[e].fin}
                 [] queue = "addRule" -> {r \in Rules : Exists(rule[r]) /\ ~rule[r].term}
                 [] queue = "updRule" -> {r \in Rules : rule[r].term /\ rule[r].fin}
                 [] OTHER -> {}]
    /\ eadd' = [e \in Eips |-> IdleEip]
    /\ eupd' = {}
    /\ radd' = [r \in Rules |-> IdleRule]
    /\ UNCHANGED <<kind, makes, api, rows>>

\* A call of a handler fails: the handler returns and its key is retried.
Fail ==
    /\ faults < MaxFaults
    /\ faults' = faults + 1
    /\ \/ /\ \E e \in Eips : eadd[e] # IdleEip /\ RetryAddEip(e)
          /\ UNCHANGED <<eupd, radd>>
       \/ /\ \E e \in eupd : q' = Push("updEip", e)
          /\ eupd' = {}
          /\ UNCHANGED <<eadd, radd>>
       \/ /\ \E r \in Rules : radd[r] # IdleRule /\ RetryAddRule(r)
          /\ UNCHANGED <<eadd, eupd>>
    /\ UNCHANGED <<kind, makes, api, caches, lease, rows>>

-----------------------------------------------------------------------------
(* The specification *)

\* A scenario says which EIPs are in place with an address, what users will
\* make, of which kinds, and how many faults are behind.
Init ==
    \E s \in Scenarios, l \in [Eips -> IPs] :
        /\ \A e, f \in Eips : l[e] = l[f] /\ l[e] # NoIP => e = f
        /\ \A e \in Eips : l[e] # NoIP <=> e \in s.ready
        /\ kind \in [Rules -> Kinds] /\ \A r \in Rules : kind[r] \in s.kinds[r]
        /\ eip = [e \in Eips |->
                    IF e \in s.ready
                    THEN [NewEip(1, TRUE, l[e]) EXCEPT !.ip = l[e], !.ready = TRUE]
                    ELSE NoEip]
        /\ rule = [r \in Rules |-> NoRule]
        /\ uids = [k \in Eips \cup Rules |->
                     IF k \in s.ready THEN 1 ELSE 0]
        /\ ceip = eip
        /\ crule = rule
        /\ lease = l
        /\ rows = {}
        /\ q = [queue \in Queues |-> {}]
        /\ eadd = [e \in Eips |-> IdleEip]
        /\ eupd = {}
        /\ radd = [r \in Rules |-> IdleRule]
        /\ faults = s.faults
        /\ makes = s.makes

User ==
    \/ \E e \in Eips : CreateEip(e) \/ DeleteEip(e)
    \/ \E r \in Rules : CreateRule(r) \/ DeleteRule(r)

\* The threads of the controller: the informers and the workers of the queues.
EipEvent(e) ==
    enqueueAddOvnEip(e) \/ enqueueUpdateOvnEip(e) \/ enqueueDelOvnEip(e)

EipAddWorker(e) ==
    \/ handleAddOvnEip(e) \/ createOrUpdateOvnEipCR(e)
    \/ createOrUpdateOvnEipCRStatus(e) \/ handleAddOvnEipReady(e)

EipUpdateWorker(e) == handleUpdateOvnEip(e) \/ handleDelOvnEipFinalizer(e)

RuleEvent(r) ==
    \/ enqueueAddOvnFip(r) \/ enqueueUpdateOvnFip(r) \/ enqueueDelOvnFip(r)
    \/ enqueueAddOvnSnatRule(r) \/ enqueueUpdateOvnSnatRule(r)
    \/ enqueueDelOvnSnatRule(r)
    \/ enqueueAddOvnDnatRule(r) \/ enqueueUpdateOvnDnatRule(r)
    \/ enqueueDelOvnDnatRule(r)

RuleAddWorker(r) ==
    \/ handleAddOvnFip(r) \/ handleAddOvnFipFinalizer(r) \/ patchOvnFipStatus(r)
    \/ handleAddOvnSnatRule(r) \/ handleAddOvnSnatFinalizer(r)
    \/ patchOvnSnatStatus(r)
    \/ handleAddOvnDnatRule(r) \/ handleAddOvnDnatFinalizer(r)
    \/ patchOvnDnatStatus(r)
    \/ RefreshEip(r)

RuleUpdateWorker(r) ==
    \/ handleUpdateOvnFip(r) \/ handleUpdateOvnSnatRule(r)
    \/ handleUpdateOvnDnatRule(r)

RuleDeleteWorker(r) ==
    handleDelOvnFip(r) \/ handleDelOvnSnatRule(r) \/ handleDelOvnDnatRule(r)

Next ==
    \/ User
    \/ \E e \in Eips : EipEvent(e) \/ EipAddWorker(e) \/ EipUpdateWorker(e)
                        \/ handleResetOvnEip(e) \/ handleDelOvnEip(e)
    \/ \E r \in Rules : RuleEvent(r) \/ RuleAddWorker(r)
                         \/ RuleUpdateWorker(r) \/ RuleDeleteWorker(r)
    \/ Crash \/ Fail

Spec == Init /\ [][Next]_vars

FairSpec ==
    /\ Spec
    /\ \A e \in Eips : /\ WF_vars(EipEvent(e))
                         /\ WF_vars(EipAddWorker(e))
                         /\ WF_vars(EipUpdateWorker(e))
                         /\ WF_vars(handleResetOvnEip(e))
                         /\ WF_vars(handleDelOvnEip(e))
    /\ \A r \in Rules : /\ WF_vars(RuleEvent(r))
                          /\ WF_vars(RuleAddWorker(r))
                          /\ WF_vars(RuleUpdateWorker(r))
                          /\ WF_vars(RuleDeleteWorker(r))

-----------------------------------------------------------------------------
(* Properties *)

\* Every variable has its type, and an object that is gone leaves nothing
\* behind: no patch of a late handler brings part of it back.
TypeOK ==
    /\ eip \in [Eips -> Eip] /\ ceip \in [Eips -> Eip]
    /\ rule \in [Rules -> Rule] /\ crule \in [Rules -> Rule]
    /\ \A e \in Eips : Exists(eip[e]) \/ eip[e] = NoEip
    /\ \A r \in Rules : Exists(rule[r]) \/ rule[r] = NoRule
    /\ lease \in [Eips -> IPs]
    /\ eupd \subseteq Eips
    /\ \A queue \in Queues : q[queue] \subseteq Eips \cup Rules
    /\ faults \in 0 .. MaxFaults
    /\ makes \in [Eips \cup Rules -> 0 .. MaxMakes]

\* The row of rule r for EIP address a.
RowOf(r, a) ==
    CASE kind[r] = "fip" -> NatRow("dnat_and_snat", a, Inner[r])
      [] kind[r] = "snat" -> NatRow("snat", a, Inner[r])
      [] kind[r] = "dnat" -> VipRow(r, a)

Kept(o) == Exists(o) /\ ~o.term

\* The delete handlers work by name: when they are late they take rows, lease
\* and finalizer of the next object of that name, so what the properties say of
\* rows and leases they say of the first object of a name.
FirstKept(o) == o.uid = 1 /\ ~o.term

Served(r) == rule[r].status # NoIP /\ RowOf(r, rule[r].status) \in rows

\* A rule whose status says it is ready, and that nobody deletes, has its row
\* in OVN, whatever other rules of the EIP come, go or are retried, also when
\* the controller stops half-way through a handler.
ReadyRuleWired ==
    \A r \in Rules : FirstKept(rule[r]) /\ rule[r].status # NoIP => Served(r)

\* The address in the status of an EIP nobody deletes is the one in its spec
\* and is leased to it: handleAddOvnEip writes lease, spec and status one by
\* one, and InitIPAM restores the lease from the status alone.
ShownAddressLeased ==
    \A e \in Eips :
        FirstKept(eip[e]) /\ eip[e].ip # NoIP =>
            lease[e] = eip[e].ip /\ eip[e].spec = eip[e].ip

\* A rule that is kept, on an EIP that keeps showing an address, ends up ready
\* with its row: handleAddOvnFip and its like fail until the EIP has one.
RulesServed ==
    \A r \in Rules :
        <>[](FirstKept(rule[r]) /\ Kept(eip[EipOf[r]]) /\ eip[EipOf[r]].ip # NoIP)
            => <>[]Served(r)

\* The deletion of a rule ends: some handler takes its finalizer.
RulesGo == \A r \in Rules : []<>(~rule[r].term)

\* The deletion of an EIP ends, unless a rule that names it stays: the update
\* queue sees the EIP again after its last rule is gone from the cache.
EipsGo ==
    \A e \in Eips :
        []<>(eip[e].term => \E r \in Rules : EipOf[r] = e /\ Exists(rule[r]))

\* A rule that is gone for good leaves no row in OVN, although its add handler
\* may still be running when it is deleted.
RowsCleaned ==
    \A r \in Rules :
        <>[](~Exists(rule[r]) /\ uids[r] = 1) => <>[](\A a \in Addresses : RowOf(r, a) \notin rows)

\* checkEipPortConflict: no two DNAT rules that are ready share an EIP and an
\* external port.
DnatPortsExclusive ==
    \A r, s \in Rules :
        /\ kind[r] = "dnat" /\ kind[s] = "dnat"
        /\ Kept(rule[r]) /\ Kept(rule[s])
        /\ rule[r].status # NoIP /\ rule[s].status # NoIP
        /\ EipOf[r] = EipOf[s] /\ Port[r] = Port[s]
        => r = s

=============================================================================
