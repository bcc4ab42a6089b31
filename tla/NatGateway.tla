----------------------------- MODULE NatGateway -----------------------------
(***************************************************************************)
(* The VPC NAT gateway: external addresses (IptablesEIP) and the rules on  *)
(* them (IptablesFIPRule, IptablesSnatRule, IptablesDnatRule) that the     *)
(* controller installs in the pod of a gateway by running nat-gateway.sh   *)
(* in it.                                                                  *)
(*                                                                         *)
(* What a rule is lives in four places: the pod, the status of the rule,   *)
(* its labels, and the status of its EIP.  A handler writes them one after *)
(* the other, from whatever the informer caches hold at that moment.  A    *)
(* pod that is replaced starts empty, and everything is replayed: the      *)
(* init handler of the gateway enqueues four sweeps that mark EIPs and     *)
(* rules, and the marks make their update handlers install them again.     *)
(*                                                                         *)
(* Every queue has one worker.  A handler of a rule locks its name, but    *)
(* reads the rule before that; for an EIP the two are one step here.  An   *)
(* error before anything was changed is retried from the same state, and   *)
(* is no step here; an error later on is a return to the queue, or Fail.   *)
(*                                                                         *)
(* An EIP stands for its IPv4 address (leases are the business of Subnet); *)
(* all DNAT rules want the same port and protocol; the kind "share" is a   *)
(* DNAT rule of type share.  Gateways are not deleted, an EIP is not       *)
(* deleted before it has its finalizer, and names are not used again.      *)
(***************************************************************************)
EXTENDS Integers, FiniteSets, FiniteSetsExt

CONSTANTS
    Gws,        \* NAT gateways, each with one pod
    Eips,       \* names of EIPs
    Rules,      \* names of rules
    Inners,     \* internal addresses or CIDRs
    GwOf,       \* spec.natGwDp of each EIP
    None,       \* an empty string
    Patient,    \* users wait for a rule before they change or delete it
    Scenarios   \* how a behaviour may start, see Init

Kinds == {"fip", "snat", "dnat", "share"}

\* How a behaviour may start: see Init.
Scenario == [there : SUBSET (Eips \cup Rules), makes : SUBSET (Eips \cup Rules),
             drops : SUBSET (Eips \cup Rules), fresh : BOOLEAN,
             kind : [Rules -> Kinds], at : [Rules -> Eips],
             inner : [Rules -> Inners],
             edits : Nat, restarts : Nat, fails : Nat, crashes : Nat]

ASSUME NatGatewayAssumption ==
    /\ Gws # {} /\ GwOf \in [Eips -> Gws]
    /\ None \notin Eips \cup Inners
    /\ Patient \in BOOLEAN
    /\ Scenarios \subseteq Scenario
    /\ \A s \in Scenarios : /\ s.there \cap s.makes = {}
                            /\ s.fresh => s.there = {}

VARIABLES
    eip,      \* API server: EIPs
    rule,     \* API server: rules
    ceip,     \* iptablesEipsLister
    crule,    \* iptablesFipsLister, iptablesDnatRulesLister, iptablesSnatRulesLister
    pod,      \* the pod of each gateway
    createdAt,\* natGwCreatedAT, 0 when empty
    q,        \* the work queues
    work,     \* the handler that holds the lock of each rule
    wait,     \* a handler that waits for that lock, with what it read before
    eadd,     \* progress of handleAddIptablesEip
    eupd,     \* progress of handleUpdateIptablesEip
    env       \* what users and faults may still do

caches == <<ceip, crule>>
workers == <<work, wait, eadd, eupd>>
vars == <<eip, rule, caches, pod, createdAt, q, workers, env>>

-----------------------------------------------------------------------------
(* Objects *)

\* An EIP: deletion timestamp, finalizer; whether spec and status have its
\* address; ready flag, redo mark and users of the status.
Eip == [here : BOOLEAN, term : BOOLEAN, fin : BOOLEAN, spec : BOOLEAN,
        ip : BOOLEAN, ready : BOOLEAN, redo : Nat, nat : SUBSET Kinds]

NoEip == [here |-> FALSE, term |-> FALSE, fin |-> FALSE, spec |-> FALSE,
          ip |-> FALSE, ready |-> FALSE, redo |-> 0, nat |-> {}]

\* A rule: EIP and internal address of its spec; the label (and annotation)
\* with its EIP; EIP, internal address, ready flag and redo mark of the status.
Rule == [here : BOOLEAN, term : BOOLEAN, fin : BOOLEAN,
         eip : Eips, inner : Inners, label : Eips \cup {None},
         v4ip : Eips \cup {None}, in : Inners \cup {None},
         ready : BOOLEAN, redo : Nat]

NewRule(e, i) == [here |-> TRUE, term |-> FALSE, fin |-> FALSE,
                  eip |-> e, inner |-> i, label |-> None,
                  v4ip |-> None, in |-> None, ready |-> FALSE, redo |-> 0]

NoRule == [NewRule(CHOOSE e \in Eips : TRUE, CHOOSE i \in Inners : TRUE)
             EXCEPT !.here = FALSE]

\* The API server's Delete, and patches that take or add the finalizer: it
\* takes no new one on an object that is being deleted.
Deleted(o, none) == IF o.fin THEN [o EXCEPT !.term = TRUE] ELSE none

Unfinalized(o, none) == IF o.term THEN none ELSE [o EXCEPT !.fin = FALSE]

Finalized(o) == IF o.here /\ ~o.term THEN [o EXCEPT !.fin = TRUE] ELSE o

Kept(o) == o.here /\ ~o.term

\* "hasInit" stands for an init handler that has yet to annotate the pod.
Queues == {"addEip", "updEip", "resetEip", "addRule", "updRule",
           "init", "hasInit", "vpcFip", "vpcDnat", "vpcSnat", "vpcEip"}

Push(queue, k) == [q EXCEPT ![queue] = @ \cup {k}]

Pop(queue, k) == [q EXCEPT ![queue] = @ \ {k}]

\* A handler of a rule: its queue, how far it is, and the rule it read.
Idle == [by |-> "none", at |-> "idle", obj |-> NoRule]

\* What the pod of a gateway has: when it was created, when its container
\* started (0 before that), the static chains, the init annotation, addresses
\* and rules.
NewPod(t) == [created |-> t, started |-> 0, chains |-> FALSE,
              hasInit |-> FALSE, eips |-> {}, rows |-> {}]

Now == Max({pod[g].created : g \in Gws})

-----------------------------------------------------------------------------
(* nat-gateway.sh *)

\* add_floating_ip and add_dnat know a rule by the external address (and
\* port), add_snat by the pair; add_nft_dnat_map replaces all backends.
Row(k, e, is) == [type |-> k, ext |-> e, of |-> is]

Same(w, k, e) == w.type = k /\ w.ext = e

\* Every command but init first looks for the static chains.
check_inited(g) == pod[g].started # 0 /\ pod[g].chains

Refuses(k, e, i) ==
    /\ k \in {"fip", "dnat"}
    /\ \E w \in pod[GwOf[e]].rows : Same(w, k, e) /\ w.of # {i}

\* The pods after a rule of kind k was added, with its siblings when shared.
WithRow(k, e, i, siblings) ==
    [pod EXCEPT ![GwOf[e]].rows =
        IF k = "share"
        THEN {w \in @ : ~Same(w, k, e)} \cup {Row(k, e, siblings \cup {i})}
        ELSE @ \cup {Row(k, e, {i})}]

\* A shared rule without backends stays.
WithoutRowsBug(k, targets, siblings) ==
    [g \in Gws |->
       [pod[g] EXCEPT !.rows =
          {w \in @ : ~\E t \in targets : /\ Same(w, k, t[1])
                                         /\ k = "snat" => w.of = {t[2]}} \cup
          {Row(k, t[1], siblings) :
             t \in {u \in targets : k = "share" /\ GwOf[u[1]] = g}}]]

\* The pods after the rules of kind k named by targets were deleted.
WithoutRows(k, targets, siblings) ==
    [g \in Gws |->
       [pod[g] EXCEPT !.rows =
          LET hit(w) == \E t \in targets :
                           /\ Same(w, k, t[1])
                           /\ k = "snat" => w.of = {t[2]}
          IN  {w \in @ : ~hit(w)} \cup
              {Row(k, t[1], siblings) :
                 t \in {u \in targets : /\ k = "share" /\ siblings # {}
                                        /\ GwOf[u[1]] = g}}]]

-----------------------------------------------------------------------------
(* The users of the cluster *)

CreateEip(e) ==
    /\ e \in env.makes /\ ~eip[e].here
    /\ env' = [env EXCEPT !.makes = @ \ {e}]
    /\ eip' = [eip EXCEPT ![e].here = TRUE]
    /\ UNCHANGED <<rule, caches, pod, createdAt, q, workers>>

CreateRule(r) ==
    /\ r \in env.makes /\ ~rule[r].here
    /\ env' = [env EXCEPT !.makes = @ \ {r}]
    /\ rule' = [rule EXCEPT ![r] = NewRule(env.at[r], env.inner[r])]
    /\ UNCHANGED <<eip, caches, pod, createdAt, q, workers>>

\* No handler is at work on r or will be.
AtRest(r) ==
    /\ work[r] = Idle /\ wait[r] = Idle
    /\ r \notin q["addRule"] \cup q["updRule"]

\* The spec of a rule changes.  The code asks users not to do so before the
\* last change is in place, but nothing stops them.
EditRule(r) ==
    LET o == rule[r]
    IN  /\ env.edits > 0
        /\ Kept(o)
        /\ Patient => AtRest(r) /\ o.ready
        /\ \E e \in Eips, i \in Inners :
              /\ <<e, i>> # <<o.eip, o.inner>>
              /\ rule' = [rule EXCEPT ![r] = [@ EXCEPT !.eip = e, !.inner = i]]
        /\ env' = [env EXCEPT !.edits = @ - 1]
        /\ UNCHANGED <<eip, caches, pod, createdAt, q, workers>>

DeleteRule(r) ==
    /\ r \in env.drops
    /\ Kept(rule[r])
    /\ Patient => /\ AtRest(r)
                  /\ env.kind[r] \in eip[rule[r].eip].nat
    /\ rule' = [rule EXCEPT ![r] = Deleted(@, NoRule)]
    /\ UNCHANGED <<eip, caches, pod, createdAt, q, workers, env>>

DeleteEip(e) ==
    /\ e \in env.drops
    /\ Kept(eip[e]) /\ eip[e].fin
    /\ eip' = [eip EXCEPT ![e] = Deleted(@, NoEip)]
    /\ UNCHANGED <<rule, caches, pod, createdAt, q, workers, env>>

-----------------------------------------------------------------------------
(* Events of the informers *)

enqueueAddIptablesEip(e) ==
    /\ eip[e].here /\ ~ceip[e].here
    /\ ceip' = [ceip EXCEPT ![e] = eip[e]]
    /\ q' = Push(IF eip[e].term THEN "updEip" ELSE "addEip", e)
    /\ UNCHANGED <<eip, rule, crule, pod, createdAt, workers, env>>

enqueueUpdateIptablesEip(e) ==
    /\ eip[e].here /\ ceip[e].here /\ ceip[e] # eip[e]
    /\ ceip' = [ceip EXCEPT ![e] = eip[e]]
    /\ q' = IF eip[e].term \/ ceip[e].redo # eip[e].redo
            THEN Push("updEip", e) ELSE q
    /\ UNCHANGED <<eip, rule, crule, pod, createdAt, workers, env>>

\* The delete handlers change nothing but the counters of the subnet.
enqueueDelIptablesEip(e) ==
    /\ ceip[e].here /\ ~eip[e].here
    /\ ceip' = [ceip EXCEPT ![e] = NoEip]
    /\ UNCHANGED <<eip, rule, crule, pod, createdAt, q, workers, env>>

RuleAdded(r) ==
    /\ rule[r].here /\ ~crule[r].here
    /\ crule' = [crule EXCEPT ![r] = rule[r]]
    /\ q' = Push(IF rule[r].term THEN "updRule" ELSE "addRule", r)
    /\ UNCHANGED <<eip, rule, ceip, pod, createdAt, workers, env>>

\* The deletion timestamp of a rule is not looked at.
RuleUpdatedBug(r) ==
    LET old == crule[r]
        new == rule[r]
    IN  /\ new.here /\ old.here /\ old # new
        /\ crule' = [crule EXCEPT ![r] = new]
        /\ q' = IF \/ old.v4ip # new.v4ip \/ old.redo # new.redo
                   \/ old.eip # new.eip \/ old.inner # new.inner
                THEN Push("updRule", r) ELSE q
        /\ UNCHANGED <<eip, rule, ceip, pod, createdAt, workers, env>>

RuleUpdated(r) ==
    LET old == crule[r]
        new == rule[r]
    IN  /\ new.here /\ old.here /\ old # new
        /\ crule' = [crule EXCEPT ![r] = new]
        /\ q' = IF \/ new.term
                   \/ old.v4ip # new.v4ip \/ old.redo # new.redo
                   \/ old.eip # new.eip \/ old.inner # new.inner
                THEN Push("updRule", r) ELSE q
        /\ UNCHANGED <<eip, rule, ceip, pod, createdAt, workers, env>>

RuleDeleted(r) ==
    /\ crule[r].here /\ ~rule[r].here
    /\ crule' = [crule EXCEPT ![r] = NoRule]
    /\ UNCHANGED <<eip, rule, ceip, pod, createdAt, q, workers, env>>

IsFip(r) == env.kind[r] = "fip"

IsSnat(r) == env.kind[r] = "snat"

IsDnat(r) == env.kind[r] \in {"dnat", "share"}

enqueueAddIptablesFip(r) == IsFip(r) /\ RuleAdded(r)

enqueueAddIptablesDnatRule(r) == IsDnat(r) /\ RuleAdded(r)

enqueueAddIptablesSnatRule(r) == IsSnat(r) /\ RuleAdded(r)

enqueueUpdateIptablesFip(r) == IsFip(r) /\ RuleUpdated(r)

enqueueUpdateIptablesDnatRule(r) == IsDnat(r) /\ RuleUpdated(r)

enqueueUpdateIptablesSnatRule(r) == IsSnat(r) /\ RuleUpdated(r)

enqueueDelIptablesFip(r) == IsFip(r) /\ RuleDeleted(r)

enqueueDelIptablesDnatRule(r) == IsDnat(r) /\ RuleDeleted(r)

enqueueDelIptablesSnatRule(r) == IsSnat(r) /\ RuleDeleted(r)

-----------------------------------------------------------------------------
(* The handlers of EIPs *)

\* The kinds of rules the cache shows labelled with the address of an EIP.
getIptablesEipNat(e) ==
    {env.kind[r] : r \in {s \in Rules : crule[s].here /\ crule[s].label = e}}

\* The EIP after patchEipStatus: every field of the status is in the patch,
\* from the cached EIP where the caller does not set it.  An EIP that is gone
\* is no error.
patchEipStatus(e, redo, ready) ==
    LET c == ceip[e]
        new == [c EXCEPT !.ready = ready, !.nat = getIptablesEipNat(e),
                         !.redo = IF redo # 0 THEN redo ELSE @]
    IN  IF c.here /\ new # c /\ eip[e].here
        THEN [eip[e] EXCEPT !.ready = new.ready, !.nat = new.nat,
                            !.redo = new.redo, !.ip = new.ip]
        ELSE eip[e]

handleAddIptablesEipFinalizer(e, o) ==
    IF Kept(ceip[e]) THEN Finalized(o) ELSE o

EipHandler(p, o) == [at |-> p, obj |-> o]

NoHandler == EipHandler("idle", NoEip)

EipUnlocked(e) == eadd[e] = NoHandler /\ eupd[e] = NoHandler

\* handleAddIptablesEip up to createEipInPod.
handleAddIptablesEip(e) ==
    LET c == ceip[e]
    IN  /\ e \in q["addEip"]
        /\ EipUnlocked(e)
        /\ \A f \in Eips : eadd[f] = NoHandler
        /\ q' = Pop("addEip", e)
        /\ \/ /\ ~c.here \/ (c.ready /\ c.ip)
              /\ UNCHANGED <<pod, eadd>>
           \/ /\ c.here /\ ~(c.ready /\ c.ip)
              /\ check_inited(GwOf[e])
              /\ pod' = [pod EXCEPT ![GwOf[e]].eips = @ \cup {e}]
              /\ eadd' = [eadd EXCEPT ![e] = EipHandler("installed", NoEip)]
        /\ UNCHANGED <<eip, rule, caches, createdAt, work, wait, eupd, env>>

RetryAddEip(e) ==
    /\ eadd' = [eadd EXCEPT ![e] = NoHandler]
    /\ q' = Push("addEip", e)

\* The address goes into the spec by an Update, which fails on a stale copy.
createOrUpdateEipCR(e) ==
    /\ eadd[e].at = "installed"
    /\ IF ceip[e] = eip[e]
       THEN /\ eip' = [eip EXCEPT ![e].spec = TRUE]
            /\ eadd' = [eadd EXCEPT ![e] = EipHandler("updated", ceip[e])]
            /\ q' = q
       ELSE RetryAddEip(e) /\ eip' = eip
    /\ UNCHANGED <<rule, caches, pod, createdAt, work, wait, eupd, env>>

\* Then the status, from the same copy, and the finalizer.
createOrUpdateEipCRStatus(e) ==
    LET o == eadd[e].obj
    IN  /\ eadd[e].at = "updated"
        /\ eip' = IF eip[e].here
                  THEN [eip EXCEPT ![e] = [@ EXCEPT !.ip = TRUE, !.ready = TRUE,
                                               !.redo = o.redo, !.nat = o.nat]]
                  ELSE eip
        /\ eadd' = [eadd EXCEPT ![e] = EipHandler("shown", NoEip)]
        /\ UNCHANGED <<rule, caches, pod, createdAt, q, work, wait, eupd, env>>

handleAddIptablesEipEnd(e) ==
    /\ eadd[e].at = "shown"
    /\ eip' = [eip EXCEPT ![e] = handleAddIptablesEipFinalizer(e, @)]
    /\ eadd' = [eadd EXCEPT ![e] = NoHandler]
    /\ UNCHANGED <<rule, caches, pod, createdAt, q, work, wait, eupd, env>>

\* The queue delays it by 3 s, so that the caches show what was written
\* before; that they do is assumed.
handleResetIptablesEip(e) ==
    /\ e \in q["resetEip"]
    /\ ceip = eip /\ crule = rule
    /\ eip' = [eip EXCEPT ![e] = patchEipStatus(e, 0, TRUE)]
    /\ q' = Pop("resetEip", e)
    /\ UNCHANGED <<rule, caches, pod, createdAt, workers, env>>

\* handleUpdateIptablesEip.  An EIP that is being deleted is left alone while
\* a rule is labelled with it, and no error brings it back to the queue.
\* A mark makes the handler install an EIP that is not ready.
handleUpdateIptablesEip(e) ==
    LET c == ceip[e]
        g == GwOf[e]
        redo == Kept(c) /\ ~c.ready /\ c.redo # 0 /\ c.ip
    IN  /\ e \in q["updEip"]
        /\ EipUnlocked(e)
        /\ \A f \in Eips : eupd[f] = NoHandler
        /\ q' = Pop("updEip", e)
        /\ \/ /\ ~c.here \/ (c.term /\ getIptablesEipNat(e) # {})
              /\ UNCHANGED <<eip, pod, eupd>>
           \/ /\ c.term /\ getIptablesEipNat(e) = {}
              /\ check_inited(g)
              /\ pod' = [pod EXCEPT ![g].eips = @ \ {e}]
              /\ eupd' = [eupd EXCEPT ![e] = EipHandler("gone", NoEip)]
              /\ UNCHANGED eip
           \/ /\ redo
              /\ check_inited(g)
              /\ pod' = [pod EXCEPT ![g].eips = @ \cup {e}]
              /\ eupd' = [eupd EXCEPT ![e] = EipHandler("redone", NoEip)]
              /\ UNCHANGED eip
           \/ /\ Kept(c) /\ ~redo
              /\ eip' = [eip EXCEPT ![e] = handleAddIptablesEipFinalizer(e, @)]
              /\ UNCHANGED <<pod, eupd>>
        /\ UNCHANGED <<rule, caches, createdAt, work, wait, eadd, env>>

\* The end of a redo: the EIP is ready again.
handleUpdateIptablesEipEnd(e) ==
    /\ eupd[e].at = "redone"
    /\ eip' = [eip EXCEPT ![e] =
          handleAddIptablesEipFinalizer(e, patchEipStatus(e, 0, TRUE))]
    /\ eupd' = [eupd EXCEPT ![e] = NoHandler]
    /\ UNCHANGED <<rule, caches, pod, createdAt, q, work, wait, eadd, env>>

handleDelIptablesEipFinalizer(e) ==
    /\ eupd[e].at = "gone"
    /\ eip' = IF ceip[e].here /\ ceip[e].fin /\ eip[e].here
              THEN [eip EXCEPT ![e] = Unfinalized(@, NoEip)] ELSE eip
    /\ eupd' = [eupd EXCEPT ![e] = NoHandler]
    /\ UNCHANGED <<rule, caches, pod, createdAt, q, work, wait, eadd, env>>

-----------------------------------------------------------------------------
(* The handlers of rules *)

GetEip(e) == ceip[e].here /\ ceip[e].ip

\* Another FIP the cache shows labelled with the address.
fipTryUseEip(r, e) ==
    \A s \in Rules \ {r} : ~(IsFip(s) /\ crule[s].here /\ crule[s].label = e)

\* Labels select by gateway and port; the EIP is compared by the spec.
Labelled(s, e) ==
    /\ IsDnat(s)
    /\ crule[s].here /\ crule[s].label # None
    /\ GwOf[crule[s].label] = GwOf[e]
    /\ crule[s].eip = e

isDnatDuplicated(r, e) ==
    \E s \in Rules \ {r} :
       /\ Labelled(s, e)
       /\ ~(env.kind[r] = "share" /\ env.kind[s] = "share")

getShareBackends(r, e) ==
    {crule[s].inner : s \in {t \in Rules \ {r} :
        Labelled(t, e) /\ env.kind[t] = "share" /\ ~crule[t].term}}

\* The checks before a rule is bound; when one fails the rule is retried.
Usable(r, o) ==
    /\ GetEip(o.eip)
    /\ IsFip(r) => fipTryUseEip(r, o.eip)
    /\ IsDnat(r) => ~isDnatDuplicated(r, o.eip)

\* The mark is left out of the patch.
PatchedStatusBug(r, v4ip, redo, ready) ==
    LET c == crule[r]
        new == [c EXCEPT !.ready = ready,
                         !.v4ip = IF ready /\ v4ip # None THEN v4ip ELSE @,
                         !.in = IF ready THEN c.inner ELSE @]
    IN  IF c.here /\ new # c /\ rule[r].here
        THEN [rule[r] EXCEPT !.ready = new.ready, !.v4ip = new.v4ip, !.in = new.in]
        ELSE rule[r]

\* The rule after its status was patched: all of the status, from the cached
\* rule where the caller does not set it.  The internal address recorded is
\* that of the spec in the cache, not the one the caller installed.
PatchedStatus(r, v4ip, redo, ready) ==
    LET c == crule[r]
        new == [c EXCEPT !.ready = ready,
                         !.redo = IF redo # 0 THEN redo ELSE @,
                         !.v4ip = IF ready /\ v4ip # None THEN v4ip ELSE @,
                         !.in = IF ready THEN c.inner ELSE @]
    IN  IF c.here /\ new # c /\ rule[r].here
        THEN [rule[r] EXCEPT !.ready = new.ready, !.redo = new.redo,
                             !.v4ip = new.v4ip, !.in = new.in]
        ELSE rule[r]

\* handleAddIptables{Fip,Dnat,Snat}Finalizer.
Bound(r, o) == IF Kept(crule[r]) /\ ~crule[r].fin THEN Finalized(o) ELSE o

\* What to delete for a rule: what its status says, with the spec for what is
\* missing; and when a change of the spec did not get to its end, also what
\* the spec says.
Targets(o) ==
    (IF o.v4ip = None /\ ~ceip[o.eip].here THEN {}
     ELSE {<<IF o.v4ip # None THEN o.v4ip ELSE o.eip,
             IF o.in # None THEN o.in ELSE o.inner>>})
    \cup
    (IF ~o.ready /\ o.v4ip # None /\ ceip[o.eip].here
     THEN {<<o.eip, o.inner>>} ELSE {})

CanDelete(o) ==
    /\ ~o.ready /\ ceip[o.eip].here => ceip[o.eip].ip
    /\ \A t \in Targets(o) : check_inited(GwOf[t[1]])

\* The pods after finalDelete{Fip,Dnat,Snat}InPod.
FinalDeleted(r, o) ==
    WithoutRows(env.kind[r], Targets(o), getShareBackends(r, o.eip))

\* One worker for each queue, and a queue for each kind of CRD.
SameCrd(r, s) == \/ IsFip(r) /\ IsFip(s)
                 \/ IsDnat(r) /\ IsDnat(s)
                 \/ IsSnat(r) /\ IsSnat(s)

WorkerFree(r, by) ==
    \A s \in Rules : SameCrd(r, s) => by \notin {work[s].by, wait[s].by}

\* A worker takes a rule from its queue, reads it and finds the lock taken.
WaitForLock(r, by) ==
    /\ r \in q[by] /\ WorkerFree(r, by)
    /\ crule[r].here /\ work[r] # Idle
    /\ wait' = [wait EXCEPT ![r] = [by |-> by, at |-> "waiting", obj |-> crule[r]]]
    /\ q' = Pop(by, r)
    /\ UNCHANGED <<eip, rule, caches, pod, createdAt, work, eadd, eupd, env>>

\* A worker that read o has the lock.
Locks(r, by, o) ==
    /\ work[r] = Idle
    /\ \/ /\ r \in q[by] /\ WorkerFree(r, by)
          /\ o = crule[r]
          /\ q' = Pop(by, r) /\ wait' = wait
       \/ /\ wait[r].by = by
          /\ o = wait[r].obj
          /\ wait' = [wait EXCEPT ![r] = Idle] /\ q' = q

At(r, p) == work[r].at = p

Start(r, by, p, o) == work' = [work EXCEPT ![r] = [by |-> by, at |-> p, obj |-> o]]

Goto(r, p) == work' = [work EXCEPT ![r].at = p]

Stop(r) == work' = [work EXCEPT ![r] = Idle]

Requeue(r) == Stop(r) /\ q' = Push(work[r].by, r)

\* One that waited for the lock finds that it cannot go on.
LockedInVain(r) ==
    LET o == wait[r].obj
    IN  /\ wait[r] # Idle /\ work[r] = Idle
        /\ IF wait[r].by = "updRule" /\ o.term
           THEN ~CanDelete(o) ELSE ~Usable(r, o)
        /\ wait' = [wait EXCEPT ![r] = Idle]
        /\ q' = Push(wait[r].by, r)
        /\ UNCHANGED <<eip, rule, caches, pod, createdAt, work, eadd, eupd, env>>

-----------------------------------------------------------------------------
(* handleAddIptables{Fip,Dnat,Snat}Rule, cut at the calls it makes *)

\* The finalizer is left for later.
AddRuleBug(r) ==
    \E o \in {crule[r], wait[r].obj} :
       LET done == ~o.here \/ (o.ready /\ o.v4ip # None)
       IN  /\ Locks(r, "addRule", o)
           /\ \/ done /\ UNCHANGED work
              \/ /\ ~done /\ Usable(r, o)
                 /\ Start(r, "addRule", "bound", o)
           /\ UNCHANGED <<eip, rule, caches, pod, createdAt, eadd, eupd, env>>

\* Up to the finalizer, which comes before anything in the pod.
AddRule(r) ==
    \E o \in {crule[r], wait[r].obj} :
       LET done == ~o.here \/ (o.ready /\ o.v4ip # None)
       IN  /\ Locks(r, "addRule", o)
           /\ \/ done /\ UNCHANGED <<rule, work>>
              \/ /\ ~done /\ Usable(r, o)
                 /\ rule' = [rule EXCEPT ![r] = Bound(r, @)]
                 /\ Start(r, "addRule", "bound", o)
           /\ UNCHANGED <<eip, caches, pod, createdAt, eadd, eupd, env>>

\* The error of the command is dropped.
InstallRuleBug(r) ==
    LET o == work[r].obj
        k == env.kind[r]
    IN  /\ At(r, "bound") \/ At(r, "cleared")
        /\ pod' = IF check_inited(GwOf[o.eip]) /\ ~Refuses(k, o.eip, o.inner)
                  THEN WithRow(k, o.eip, o.inner, getShareBackends(r, o.eip))
                  ELSE pod
        /\ Goto(r, "made")
        /\ UNCHANGED <<eip, rule, caches, createdAt, q, wait, eadd, eupd, env>>

\* The command runs in the pod, or fails and the rule goes back to its queue.
InstallRule(r) ==
    LET o == work[r].obj
        k == env.kind[r]
    IN  /\ At(r, "bound") \/ At(r, "cleared")
        /\ IF check_inited(GwOf[o.eip]) /\ ~Refuses(k, o.eip, o.inner)
           THEN /\ pod' = WithRow(k, o.eip, o.inner, getShareBackends(r, o.eip))
                /\ Goto(r, "made") /\ q' = q
           ELSE Requeue(r) /\ pod' = pod
        /\ UNCHANGED <<eip, rule, caches, createdAt, wait, eadd, eupd, env>>

ShowRule(r) ==
    /\ At(r, "made")
    /\ rule' = [rule EXCEPT ![r] = PatchedStatus(r, work[r].obj.eip, 0, TRUE)]
    /\ Goto(r, "shown")
    /\ UNCHANGED <<eip, caches, pod, createdAt, q, wait, eadd, eupd, env>>

\* Labels and annotation are patched in place; a rule that is gone is an error.
LabelRule(r) ==
    /\ At(r, "shown")
    /\ IF crule[r].here /\ ~rule[r].here
       THEN Requeue(r) /\ rule' = rule
       ELSE /\ rule' = IF rule[r].here
                       THEN [rule EXCEPT ![r].label = work[r].obj.eip] ELSE rule
            /\ Goto(r, "labelled") /\ q' = q
    /\ UNCHANGED <<eip, caches, pod, createdAt, wait, eadd, eupd, env>>

\* The users of the EIP are recounted, now and, from an add, once more after
\* 3 s; an update has the EIP the rule left recounted.
RefreshEip(r) ==
    LET o == work[r].obj
    IN  /\ At(r, "labelled")
        /\ eip' = [eip EXCEPT ![o.eip] = patchEipStatus(o.eip, 0, TRUE)]
        /\ \/ /\ work[r].by = "addRule"
              /\ q' = Push("resetEip", o.eip)
              /\ rule' = rule
           \/ /\ work[r].by = "updRule"
              /\ q' = IF o.label \notin {None, o.eip}
                      THEN Push("resetEip", o.label) ELSE q
              /\ rule' = [rule EXCEPT ![r] = Bound(r, @)]
        /\ Stop(r)
        /\ UNCHANGED <<caches, pod, createdAt, wait, eadd, eupd, env>>

-----------------------------------------------------------------------------
(* handleUpdateIptables{Fip,Dnat,Snat}Rule *)

\* A rule that is being deleted: its rows leave the pod first ...
RemoveRule(r) ==
    \E o \in {crule[r], wait[r].obj} :
       /\ Locks(r, "updRule", o)
       /\ o.here /\ o.term
       /\ CanDelete(o)
       /\ pod' = FinalDeleted(r, o)
       /\ Start(r, "updRule", "gone", o)
       /\ UNCHANGED <<eip, rule, caches, createdAt, eadd, eupd, env>>

\* The EIP is not looked at again.
ReleaseRuleBug(r) ==
    /\ At(r, "gone")
    /\ rule' = IF crule[r].here /\ crule[r].fin /\ rule[r].here
               THEN [rule EXCEPT ![r] = Unfinalized(@, NoRule)] ELSE rule
    /\ Stop(r)
    /\ UNCHANGED <<eip, caches, pod, createdAt, q, wait, eadd, eupd, env>>

\* ... then the finalizer, and the users of its EIP are recounted.
ReleaseRule(r) ==
    /\ At(r, "gone")
    /\ rule' = IF crule[r].here /\ crule[r].fin /\ rule[r].here
               THEN [rule EXCEPT ![r] = Unfinalized(@, NoRule)] ELSE rule
    /\ q' = Push("resetEip", work[r].obj.eip)
    /\ Stop(r)
    /\ UNCHANGED <<eip, caches, pod, createdAt, wait, eadd, eupd, env>>

Complete(o) == o.v4ip # None /\ o.in # None

Changed(o) == o.v4ip # o.eip \/ o.in # o.inner

Redo(o) == ~o.ready /\ o.redo # 0

\* The spec differs from the status: the rule is marked not ready ...
ChangeRule(r) ==
    \E o \in {crule[r], wait[r].obj} :
       /\ Locks(r, "updRule", o)
       /\ Kept(o) /\ Usable(r, o)
       /\ Complete(o) /\ Changed(o)
       /\ rule' = IF o.ready
                  THEN [rule EXCEPT ![r] = PatchedStatus(r, None, 0, FALSE)]
                  ELSE rule
       /\ Start(r, "updRule", "marked", o)
       /\ UNCHANGED <<eip, caches, pod, createdAt, eadd, eupd, env>>

\* ... the old rows leave the pod, and the rest is as in an add.
ClearRule(r) ==
    LET o == work[r].obj
    IN  /\ At(r, "marked")
        /\ IF CanDelete(o)
           THEN pod' = FinalDeleted(r, o) /\ Goto(r, "cleared") /\ q' = q
           ELSE Requeue(r) /\ pod' = pod
        /\ UNCHANGED <<eip, rule, caches, createdAt, wait, eadd, eupd, env>>

\* A marked rule is installed again, from its status.
RedoRule(r) ==
    \E o \in {crule[r], wait[r].obj} :
       LET g == GwOf[o.v4ip]
           k == env.kind[r]
       IN  /\ Locks(r, "updRule", o)
           /\ Kept(o) /\ Usable(r, o)
           /\ Complete(o) /\ ~Changed(o) /\ Redo(o)
           /\ check_inited(g) /\ pod[g].started >= o.redo
           /\ ~Refuses(k, o.v4ip, o.in)
           /\ pod' = WithRow(k, o.v4ip, o.in, getShareBackends(r, o.eip))
           /\ Start(r, "updRule", "redone", o)
           /\ UNCHANGED <<eip, rule, caches, createdAt, eadd, eupd, env>>

ShowRedone(r) ==
    /\ At(r, "redone")
    /\ rule' = [rule EXCEPT ![r] = Bound(r, PatchedStatus(r, None, 0, TRUE))]
    /\ Stop(r)
    /\ UNCHANGED <<eip, caches, pod, createdAt, q, wait, eadd, eupd, env>>

\* Nothing to do in the pod: the rule is gone, its add has not come to the
\* status yet, its pod is older than the mark, or it is as it should be.
KeepRule(r) ==
    \E o \in {crule[r], wait[r].obj} :
       /\ Locks(r, "updRule", o)
       /\ \/ ~o.here /\ rule' = rule
          \/ /\ Kept(o) /\ Usable(r, o)
             /\ \/ ~Complete(o)
                \/ /\ ~Changed(o) /\ Redo(o)
                   /\ pod[GwOf[o.v4ip]].started \in 1..(o.redo - 1)
             /\ rule' = rule
          \/ /\ Kept(o) /\ Usable(r, o)
             /\ Complete(o) /\ ~Changed(o) /\ ~Redo(o)
             /\ rule' = [rule EXCEPT ![r] = Bound(r, @)]
       /\ UNCHANGED <<eip, caches, pod, createdAt, work, eadd, eupd, env>>

-----------------------------------------------------------------------------
(* The same steps by kind of rule *)

handleAddIptablesFip(r) == IsFip(r) /\ AddRule(r)

handleAddIptablesDnatRule(r) == IsDnat(r) /\ AddRule(r)

handleAddIptablesSnatRule(r) == IsSnat(r) /\ AddRule(r)

createFipInPod(r) == IsFip(r) /\ InstallRule(r)

createDnatInPod(r) == env.kind[r] = "dnat" /\ InstallRule(r)

createNftDnatMapInPod(r) == env.kind[r] = "share" /\ InstallRule(r)

createSnatInPod(r) == IsSnat(r) /\ InstallRule(r)

patchFipStatus(r) == IsFip(r) /\ ShowRule(r)

patchDnatStatus(r) == IsDnat(r) /\ ShowRule(r)

patchSnatStatus(r) == IsSnat(r) /\ ShowRule(r)

patchFipLabel(r) == IsFip(r) /\ LabelRule(r)

patchDnatLabel(r) == IsDnat(r) /\ LabelRule(r)

patchSnatLabel(r) == IsSnat(r) /\ LabelRule(r)

handleUpdateIptablesFip(r) ==
    /\ IsFip(r)
    /\ RemoveRule(r) \/ ChangeRule(r) \/ RedoRule(r) \/ KeepRule(r)

handleUpdateIptablesDnatRule(r) ==
    /\ IsDnat(r)
    /\ RemoveRule(r) \/ ChangeRule(r) \/ RedoRule(r) \/ KeepRule(r)

handleUpdateIptablesSnatRule(r) ==
    /\ IsSnat(r)
    /\ RemoveRule(r) \/ ChangeRule(r) \/ RedoRule(r) \/ KeepRule(r)

finalDeleteFipInPod(r) == IsFip(r) /\ ClearRule(r)

finalDeleteDnatInPod(r) == env.kind[r] = "dnat" /\ ClearRule(r)

cleanupShareDnatInPod(r) == env.kind[r] = "share" /\ ClearRule(r)

finalDeleteSnatInPod(r) == IsSnat(r) /\ ClearRule(r)

handleDelIptablesFipFinalizer(r) == IsFip(r) /\ ReleaseRule(r)

handleDelIptablesDnatFinalizer(r) == IsDnat(r) /\ ReleaseRule(r)

handleDelIptablesSnatFinalizer(r) == IsSnat(r) /\ ReleaseRule(r)

-----------------------------------------------------------------------------
(* The gateway *)

\* A gateway's pod goes and the StatefulSet makes a new one, for which the pod
\* controller asks for an init.  Assumed: no handler is between its command in
\* the old pod and its end, and the caches have caught up.
Restart(g) ==
    /\ env.restarts > 0
    /\ g \notin q["hasInit"]
    /\ \A r \in Rules : work[r] = Idle
    /\ \A e \in Eips : EipUnlocked(e)
    /\ ceip = eip /\ crule = rule
    /\ env' = [env EXCEPT !.restarts = @ - 1]
    /\ pod' = [pod EXCEPT ![g] = NewPod(Now + 1)]
    /\ q' = Push("init", g)
    /\ UNCHANGED <<eip, rule, caches, createdAt, workers>>

StartPod(g) ==
    /\ pod[g].started = 0
    /\ pod' = [pod EXCEPT ![g].started = Now]
    /\ UNCHANGED <<eip, rule, caches, createdAt, q, workers, env>>

\* natGwCreatedAT is one for all gateways, and moves even when the command
\* that follows fails.
handleInitVpcNatGwFailed(g) ==
    /\ g \in q["init"] /\ ~pod[g].hasInit
    /\ pod[g].started = 0
    /\ createdAt < pod[g].created
    /\ createdAt' = pod[g].created
    /\ UNCHANGED <<eip, rule, caches, pod, q, workers, env>>

handleInitVpcNatGw(g) ==
    /\ g \in q["init"] /\ g \notin q["hasInit"]
    /\ pod[g].hasInit \/ pod[g].started # 0
    /\ IF pod[g].hasInit
       THEN UNCHANGED <<pod, createdAt>>
       ELSE /\ createdAt' = Max({createdAt, pod[g].created})
            /\ pod' = [pod EXCEPT ![g].chains = TRUE]
    /\ q' = [x \in Queues |->
                IF x \in {"vpcFip", "vpcDnat", "vpcSnat", "vpcEip", "hasInit"}
                THEN q[x] \cup {g}
                ELSE IF x = "init" THEN q[x] \ {g} ELSE q[x]]
    /\ UNCHANGED <<eip, rule, caches, workers, env>>

handleInitVpcNatGwEnd(g) ==
    /\ g \in q["hasInit"]
    /\ pod' = [pod EXCEPT ![g].hasInit = TRUE]
    /\ q' = Pop("hasInit", g)
    /\ UNCHANGED <<eip, rule, caches, createdAt, workers, env>>

\* The time that marks rules, and whether a sweep of g can run.
initCreateAt(g) == IF createdAt # 0 THEN createdAt ELSE pod[g].created

CanSweep(queue, g) ==
    /\ g \in q[queue] /\ g \notin q["hasInit"]
    /\ createdAt # 0 \/ pod[g].started # 0

\* Every rule labelled with the gateway that does not bear the mark gets it
\* and is not ready, and so does its EIP (redoFip, redoDnat, redoSnat).
Sweep(queue, g, swept) ==
    LET t == initCreateAt(g)
        marked == {r \in swept : /\ crule[r].here
                                 /\ crule[r].label # None
                                 /\ GwOf[crule[r].label] = g
                                 /\ crule[r].redo # t}
    IN  /\ CanSweep(queue, g)
        /\ createdAt' = t
        /\ eip' = [e \in Eips |-> IF \E r \in marked : crule[r].eip = e
                                  THEN patchEipStatus(e, t, FALSE) ELSE eip[e]]
        /\ rule' = [r \in Rules |-> IF r \in marked
                                    THEN PatchedStatus(r, None, t, FALSE)
                                    ELSE rule[r]]
        /\ q' = Pop(queue, g)
        /\ UNCHANGED <<caches, pod, workers, env>>

handleUpdateVpcFloatingIP(g) == Sweep("vpcFip", g, {r \in Rules : IsFip(r)})

handleUpdateVpcDnat(g) == Sweep("vpcDnat", g, {r \in Rules : IsDnat(r)})

handleUpdateVpcSnat(g) == Sweep("vpcSnat", g, {r \in Rules : IsSnat(r)})

handleUpdateVpcEip(g) ==
    LET t == initCreateAt(g)
    IN  /\ CanSweep("vpcEip", g)
        /\ createdAt' = t
        /\ eip' = [e \in Eips |-> IF GwOf[e] = g /\ ceip[e].redo # t
                                  THEN patchEipStatus(e, t, FALSE) ELSE eip[e]]
        /\ q' = Pop("vpcEip", g)
        /\ UNCHANGED <<rule, caches, pod, workers, env>>

-----------------------------------------------------------------------------
(* Faults *)

\* A call of a handler of a rule, or of an EIP, fails.
FailRule(r) ==
    /\ env.fails > 0 /\ work[r] # Idle
    /\ env' = [env EXCEPT !.fails = @ - 1]
    /\ Requeue(r)
    /\ UNCHANGED <<eip, rule, caches, pod, createdAt, wait, eadd, eupd>>

FailEip(e) ==
    /\ env.fails > 0 /\ ~EipUnlocked(e)
    /\ env' = [env EXCEPT !.fails = @ - 1]
    /\ q' = Push(IF eadd[e] # NoHandler THEN "addEip" ELSE "updEip", e)
    /\ eadd' = [eadd EXCEPT ![e] = NoHandler]
    /\ eupd' = [eupd EXCEPT ![e] = NoHandler]
    /\ UNCHANGED <<eip, rule, caches, pod, createdAt, work, wait>>

\* The controller starts again: the informers report every object as added,
\* and gateways with a running pod that has no init annotation are enqueued
\* (initVpcNatGw; the pod controller enqueues the others when they start).
initVpcNatGw ==
    [x \in Queues |->
       CASE x = "addEip" -> {e \in Eips : Kept(eip[e])}
         [] x = "updEip" -> {e \in Eips : eip[e].term}
         [] x = "addRule" -> {r \in Rules : Kept(rule[r])}
         [] x = "updRule" -> {r \in Rules : rule[r].term}
         [] x = "init" -> {g \in Gws : ~pod[g].hasInit}
         [] OTHER -> {}]

Crash ==
    /\ env.crashes > 0
    /\ env' = [env EXCEPT !.crashes = @ - 1]
    /\ ceip' = eip /\ crule' = rule
    /\ createdAt' = 0
    /\ q' = initVpcNatGw
    /\ work' = [r \in Rules |-> Idle]
    /\ wait' = [r \in Rules |-> Idle]
    /\ eadd' = [e \in Eips |-> NoHandler]
    /\ eupd' = [e \in Eips |-> NoHandler]
    /\ UNCHANGED <<eip, rule, pod>>

-----------------------------------------------------------------------------
(* The specification *)

\* A behaviour starts in a scenario: EIPs and rules that are there and in
\* place (env.there), what users may create (env.makes) and delete (env.drops),
\* how often they edit a rule, whether gateways are new, and how often a pod
\* restarts, a call fails or the controller crashes.
Init ==
    LET on(e) == {r \in Rules \cap env.there : env.at[r] = e}
        rows(g) == {Row(env.kind[r], env.at[r],
                        IF env.kind[r] = "share"
                        THEN {env.inner[t] : t \in {u \in on(env.at[r]) :
                                                      env.kind[u] = "share"}}
                        ELSE {env.inner[r]}) :
                      r \in {u \in Rules \cap env.there : GwOf[env.at[u]] = g}}
    IN  /\ env \in Scenarios
        /\ eip = [e \in Eips |->
                    IF e \in env.there
                    THEN [here |-> TRUE, term |-> FALSE, fin |-> TRUE,
                          spec |-> TRUE, ip |-> TRUE, ready |-> TRUE,
                          redo |-> 0, nat |-> {env.kind[r] : r \in on(e)}]
                    ELSE NoEip]
        /\ rule = [r \in Rules |->
                     IF r \in env.there
                     THEN [NewRule(env.at[r], env.inner[r]) EXCEPT
                             !.fin = TRUE, !.label = env.at[r],
                             !.v4ip = env.at[r], !.in = env.inner[r],
                             !.ready = TRUE]
                     ELSE NoRule]
        /\ pod = [g \in Gws |->
                    IF env.fresh THEN NewPod(1)
                    ELSE [NewPod(1) EXCEPT
                            !.started = 1, !.chains = TRUE, !.hasInit = TRUE,
                            !.eips = {e \in Eips \cap env.there : GwOf[e] = g},
                            !.rows = rows(g)]]
        /\ createdAt = IF env.fresh THEN 0 ELSE 1
        /\ q = [x \in Queues |-> IF x = "init" /\ env.fresh THEN Gws ELSE {}]
        /\ ceip = eip /\ crule = rule
        /\ work = [r \in Rules |-> Idle]
        /\ wait = [r \in Rules |-> Idle]
        /\ eadd = [e \in Eips |-> NoHandler]
        /\ eupd = [e \in Eips |-> NoHandler]

EipEvent(e) ==
    \/ enqueueAddIptablesEip(e)
    \/ enqueueUpdateIptablesEip(e)
    \/ enqueueDelIptablesEip(e)

RuleEvent(r) ==
    \/ enqueueAddIptablesFip(r)
    \/ enqueueAddIptablesDnatRule(r)
    \/ enqueueAddIptablesSnatRule(r)
    \/ enqueueUpdateIptablesFip(r)
    \/ enqueueUpdateIptablesDnatRule(r)
    \/ enqueueUpdateIptablesSnatRule(r)
    \/ enqueueDelIptablesFip(r)
    \/ enqueueDelIptablesDnatRule(r)
    \/ enqueueDelIptablesSnatRule(r)

EipAddWorker(e) ==
    \/ handleAddIptablesEip(e)
    \/ createOrUpdateEipCR(e)
    \/ createOrUpdateEipCRStatus(e)
    \/ handleAddIptablesEipEnd(e)

EipUpdateWorker(e) ==
    \/ handleUpdateIptablesEip(e)
    \/ handleUpdateIptablesEipEnd(e)
    \/ handleDelIptablesEipFinalizer(e)

RuleAddWorker(r) ==
    \/ handleAddIptablesFip(r)
    \/ handleAddIptablesDnatRule(r)
    \/ handleAddIptablesSnatRule(r)

RuleUpdateWorker(r) ==
    \/ handleUpdateIptablesFip(r)
    \/ handleUpdateIptablesDnatRule(r)
    \/ handleUpdateIptablesSnatRule(r)

\* The steps of a worker that has the lock of a rule, or waits for it.
RuleWorker(r) ==
    \/ createFipInPod(r)
    \/ createDnatInPod(r)
    \/ createNftDnatMapInPod(r)
    \/ createSnatInPod(r)
    \/ patchFipStatus(r)
    \/ patchDnatStatus(r)
    \/ patchSnatStatus(r)
    \/ patchFipLabel(r)
    \/ patchDnatLabel(r)
    \/ patchSnatLabel(r)
    \/ RefreshEip(r)
    \/ finalDeleteFipInPod(r)
    \/ finalDeleteDnatInPod(r)
    \/ cleanupShareDnatInPod(r)
    \/ finalDeleteSnatInPod(r)
    \/ handleDelIptablesFipFinalizer(r)
    \/ handleDelIptablesDnatFinalizer(r)
    \/ handleDelIptablesSnatFinalizer(r)
    \/ ShowRedone(r)

GatewayWorker(g) ==
    \/ StartPod(g)
    \/ handleInitVpcNatGwFailed(g)
    \/ handleInitVpcNatGw(g)
    \/ handleInitVpcNatGwEnd(g)

SweepWorker(g) ==
    \/ handleUpdateVpcFloatingIP(g)
    \/ handleUpdateVpcDnat(g)
    \/ handleUpdateVpcSnat(g)
    \/ handleUpdateVpcEip(g)

Users ==
    \/ \E e \in Eips : CreateEip(e) \/ DeleteEip(e)
    \/ \E r \in Rules : CreateRule(r) \/ EditRule(r) \/ DeleteRule(r)

Faults ==
    \/ \E g \in Gws : Restart(g)
    \/ \E r \in Rules : FailRule(r)
    \/ \E e \in Eips : FailEip(e)
    \/ Crash

Next ==
    \/ Users
    \/ Faults
    \/ \E e \in Eips : \/ EipEvent(e) \/ EipAddWorker(e)
                       \/ EipUpdateWorker(e) \/ handleResetIptablesEip(e)
    \/ \E r \in Rules : \/ RuleEvent(r) \/ RuleAddWorker(r)
                        \/ RuleUpdateWorker(r) \/ RuleWorker(r)
                        \/ LockedInVain(r)
                        \/ WaitForLock(r, "addRule")
                        \/ WaitForLock(r, "updRule")
    \/ \E g \in Gws : GatewayWorker(g) \/ SweepWorker(g)

Spec == Init /\ [][Next]_vars

\* Watches deliver, pods start, and every worker goes on.  Users and faults
\* owe nothing.
Fairness ==
    /\ \A e \in Eips : /\ WF_vars(EipEvent(e))
                       /\ WF_vars(EipAddWorker(e))
                       /\ WF_vars(EipUpdateWorker(e))
                       /\ WF_vars(handleResetIptablesEip(e))
    /\ \A r \in Rules : /\ WF_vars(RuleEvent(r))
                        /\ WF_vars(RuleAddWorker(r))
                        /\ WF_vars(RuleUpdateWorker(r))
                        /\ WF_vars(RuleWorker(r))
                        /\ WF_vars(LockedInVain(r))
    /\ \A g \in Gws : WF_vars(GatewayWorker(g)) /\ WF_vars(SweepWorker(g))

FairSpec == Spec /\ Fairness

-----------------------------------------------------------------------------
(* Properties *)

\* Every variable has its type, no row is without an address, and a handler
\* never waits for the lock of a rule that it holds itself.
TypeOK ==
    /\ eip \in [Eips -> Eip] /\ ceip \in [Eips -> Eip]
    /\ rule \in [Rules -> Rule] /\ crule \in [Rules -> Rule]
    /\ \A g \in Gws : /\ pod[g].eips \subseteq Eips
                      /\ \A w \in pod[g].rows : w.type \in Kinds /\ w.of # {}
    /\ createdAt \in 0..Now
    /\ \A x \in Queues : q[x] \subseteq Eips \cup Rules \cup Gws
    /\ \A r \in Rules : work[r].by # "none" => work[r].by # wait[r].by

\* The pod has r at e for the internal address i.
Installed(k, e, i) == \E w \in pod[GwOf[e]].rows : Same(w, k, e) /\ i \in w.of

\* A rule that is shown as ready, with no handler at work on it and no mark
\* for an earlier pod, is in the pod with the addresses its status records:
\* through adds, changes of the spec, replays after a restart, failed calls
\* and crashes.
ReadyRuleInstalled ==
    \A r \in Rules :
       LET o == rule[r]
           p == pod[GwOf[o.v4ip]]
       IN  AtRest(r) /\ Kept(o) /\ o.ready /\ (p.created = 1 \/ p.created = o.redo)
             => Installed(env.kind[r], o.v4ip, o.in)

\* Whatever is in a pod belongs to a rule that still has its finalizer, by its
\* spec or by its status, so that the handlers will find and delete it.
NoUnmanagedRows ==
    \A g \in Gws : \A w \in pod[g].rows : \A i \in w.of :
       \E r \in Rules :
          /\ rule[r].fin /\ env.kind[r] = w.type
          /\ \/ rule[r].eip = w.ext /\ rule[r].inner = i
             \/ rule[r].v4ip = w.ext /\ (w.type = "snat" => rule[r].in = i)

\* Two rules that cannot be installed together.
Rivals(r, s) ==
    /\ rule[s].here /\ SameCrd(r, s)
    /\ rule[r].eip \in {rule[s].eip, rule[s].v4ip, rule[s].label}
    /\ IsSnat(r) => rule[s].inner = rule[r].inner
    /\ {env.kind[r], env.kind[s]} # {"share"}

\* A rule on an EIP with an address, without a rival, ends up in the pod as
\* its spec says, whatever failed calls, crashes and restarts came before.
RulesServed ==
    \A r \in Rules :
       <>[](/\ Kept(rule[r]) /\ Kept(eip[rule[r].eip]) /\ eip[rule[r].eip].ip
            /\ \A s \in Rules \ {r} : ~Rivals(r, s))
       => <>[]Installed(env.kind[r], rule[r].eip, rule[r].inner)

\* A kept rule of type share comes to be in the map of its EIP for good, next
\* to the other rules that share it: "the missing sibling's own add/update event
\* triggers a later reconcile that rebuilds the full map, so the set self-heals
\* to the complete backend list".
ShareMapHeals ==
    \A r \in Rules :
       <>[](env.kind[r] = "share" /\ Kept(rule[r]) /\ rule[r].ready)
       => <>[]Installed("share", rule[r].eip, rule[r].inner)

\* A rule that is deleted goes: its finalizer does not stay for ever.
RulesGo == \A r \in Rules : []<>~rule[r].term

\* An EIP that is deleted goes once no rule names it.
EipsGo ==
    \A e \in Eips :
       []<>~(/\ eip[e].term
             /\ \A r \in Rules : rule[r].here => rule[r].eip # e /\ rule[r].label # e)

=============================================================================
