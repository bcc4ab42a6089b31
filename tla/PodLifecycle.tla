---------------------------- MODULE PodLifecycle ----------------------------
(***************************************************************************)
(* How kube-ovn-controller gives a pod its address and takes it back.      *)
(*                                                                         *)
(* Four stores hold a piece of every pod's network: the API server (the    *)
(* pod with its annotations, and the IP custom resource), the controller's *)
(* in-memory IPAM, the OVN northbound database (the logical switch port)   *)
(* and the informer caches, which lag behind the API server.  They are     *)
(* brought in line by the workers of three queues, by two periodic loops   *)
(* and by the start-up of the controller; any of these may run between two *)
(* calls of another one, and the controller may crash between any two.     *)
(*                                                                         *)
(* A key is a "namespace/name"; it names the pod, its port, its IP CR and  *)
(* its lease, and is reused by later pods (incarnations) of the same name. *)
(* Each pod has one NIC in one subnet.  IPAM is what AddressLease says: a  *)
(* lease per key, no address leased twice.                                 *)
(*                                                                         *)
(* An operator XBug is X with a plausible mistake; none of the             *)
(* specifications uses it.                                                 *)
(***************************************************************************)
EXTENDS Integers

CONSTANTS
    Keys,        \* names pods are created under
    StsKeys,     \* those whose pods belong to a StatefulSet
    Addresses,   \* what the subnet has to give
    Requests,    \* values of the ip_address annotation at creation
    NoIP,        \* no address
    MaxUid,      \* bound: incarnations of each name
    MaxFaults,   \* bound: crashes and failed calls
    Starts,      \* what is left of both bounds, and of StatefulSets, at the start
    GCInterval   \* seconds between passes of the port GC, 0 for none

ASSUME ConstantsAssumption ==
    /\ StsKeys \subseteq Keys
    /\ NoIP \notin Addresses
    /\ Requests \subseteq Addresses \cup {NoIP}
    /\ MaxUid \in [Keys -> Nat]
    /\ MaxFaults \in Nat
    /\ \A s \in Starts : /\ s.uids \in [Keys -> Nat] /\ s.owners \subseteq StsKeys
                         /\ s.faults \in 0 .. MaxFaults
    /\ GCInterval \in Nat

VARIABLES
    pods,      \* API server: the pod of each name
    uids,      \* API server: incarnations made so far
    owners,    \* API server: names whose StatefulSet exists
    crs,       \* API server: the IP CR of each name
    podCache,  \* podsLister
    crCache,   \* ipsLister
    ipam,      \* IPAM: the lease of each name
    lsp,       \* OVN NB: the address of each name's port
    addQ,      \* addOrUpdatePodQueue
    delQ,      \* deletePodQueue
    updQ,      \* updateIPQueue
    delObj,    \* deletingPodObjMap
    add,       \* progress of handleAddOrUpdatePod on each key
    del,       \* progress of handleDeletePod on each key
    upd,       \* progress of handleUpdateIP on each key
    marked,    \* lastNoPodLSP
    unsettled, \* keys it marked whose work of that time is not over
    gcDue,     \* gcIP of the start-up has not run yet
    faults     \* crashes and failed calls so far

api == <<pods, uids, owners, crs>>
caches == <<podCache, crCache>>
queues == <<addQ, delQ, updQ, delObj>>
workers == <<add, del, upd>>
loops == <<marked, unsettled, gcDue>>
vars == <<api, caches, ipam, lsp, queues, workers, loops, faults>>

-----------------------------------------------------------------------------
(* Objects *)

\* A pod: its UID (0 when there is none), whether isPodAlive, its ip_address
\* annotation and whether its allocated annotation is "true".
Pod == [uid : Nat, alive : BOOLEAN, ip : Addresses \cup {NoIP},
        alloc : BOOLEAN]

NoPod == [uid |-> 0, alive |-> FALSE, ip |-> NoIP, alloc |-> FALSE]

\* An IP CR: absent, live, live without its finalizer, or held by its
\* finalizer after a delete call.
CR == [state : {"none", "live", "bare", "deleting"}, ip : Addresses \cup {NoIP}]

NoCR == [state |-> "none", ip |-> NoIP]

LiveCR(a) == [state |-> "live", ip |-> a]

Live(c) == c.state \in {"live", "bare"}

\* The API server's Delete: a finalizer holds the CR.
DeletedCR(c) ==
    CASE c.state = "live" -> [c EXCEPT !.state = "deleting"]
      [] c.state = "bare" -> NoCR
      [] OTHER -> c

\* handleDelIPFinalizer's patch.  It is made from the cached CR and applied by
\* name, so it takes the finalizer of whichever CR has the name by then.
Unfinalized(c) ==
    CASE c.state = "deleting" -> NoCR
      [] c.state = "live" -> [c EXCEPT !.state = "bare"]
      [] OTHER -> c

\* What deletingPodObjMap keeps: the pod's UID and its deletion timestamp.
Deleted == [uid : Nat, stamped : BOOLEAN]

NoObj == [uid |-> 0, stamped |-> FALSE]

\* The delete event of a StatefulSet pod may or may not carry a timestamp;
\* for other pods nothing depends on it.
Stamps(k) == IF k \in StsKeys THEN BOOLEAN ELSE {TRUE}

IdleAdd == [at |-> "idle", uid |-> 0, ip |-> NoIP]

IdleDel == [at |-> "idle", obj |-> NoObj]

IsSts(k) == k \in StsKeys

\* isStatefulSetPodToDel: the StatefulSet of the pod is gone.
IsStsToDel(k) == IsSts(k) /\ k \notin owners

\* An address the IPAM would lease to k.
FreeFor(k, a) == \A j \in Keys \ {k} : ipam[j] # a

\* hasAllocatedAnnotation of a pod that is alive.
Allocated(p) == p.alive /\ p.alloc

-----------------------------------------------------------------------------
(* The users of the cluster *)

\* A pod is created, with a static address or without.
CreatePod(k) ==
    /\ pods[k] = NoPod
    /\ uids[k] < MaxUid[k]
    /\ IsSts(k) => k \in owners
    /\ uids' = [uids EXCEPT ![k] = @ + 1]
    /\ \E r \in Requests :
          pods' = [pods EXCEPT ![k] = [uid |-> uids[k] + 1, alive |-> TRUE,
                                       ip |-> r, alloc |-> FALSE]]
    /\ UNCHANGED <<owners, crs, caches, ipam, lsp, queues, workers, loops, faults>>

\* A pod completes, or stays Terminating beyond its grace period.
StopPod(k) ==
    /\ pods[k].alive
    /\ ~IsSts(k)
    /\ pods' = [pods EXCEPT ![k].alive = FALSE]
    /\ UNCHANGED <<uids, owners, crs, caches, ipam, lsp, queues, workers, loops, faults>>

\* The pod object goes.
RemovePod(k) ==
    /\ pods[k] # NoPod
    /\ pods' = [pods EXCEPT ![k] = NoPod]
    /\ UNCHANGED <<uids, owners, crs, caches, ipam, lsp, queues, workers, loops, faults>>

\* The StatefulSet is deleted.
DeleteStatefulSet(k) ==
    /\ k \in owners
    /\ owners' = owners \ {k}
    /\ UNCHANGED <<pods, uids, crs, caches, ipam, lsp, queues, workers, loops, faults>>

-----------------------------------------------------------------------------
(* Informers: the cache takes over the API server's state and the event    *)
(* handler fills the queues.                                               *)

\* deletingPodObjMap.Store and deletePodQueue.Add.
EnqueueDelete(k, uid) ==
    /\ \E t \in Stamps(k) :
          delObj' = [delObj EXCEPT ![k] = [uid |-> uid, stamped |-> t]]
    /\ delQ' = delQ \cup {k}

\* Is a pod event a matter for the delete queue?
ToDelete(k, p) == IF IsSts(k) THEN IsStsToDel(k) ELSE ~p.alive

\* enqueueAddPod: podNeedSync asks for pods that are not allocated.
enqueueAddPod(k, p) ==
    IF ToDelete(k, p) /\ ~p.alive
      THEN EnqueueDelete(k, p.uid) /\ UNCHANGED addQ
      ELSE /\ addQ' = IF p.alloc THEN addQ ELSE addQ \cup {k}
           /\ UNCHANGED <<delObj, delQ>>

\* enqueueUpdatePod.
enqueueUpdatePod(k, p) ==
    IF ToDelete(k, p)
      THEN EnqueueDelete(k, p.uid) /\ UNCHANGED addQ
      ELSE addQ' = addQ \cup {k} /\ UNCHANGED <<delObj, delQ>>

\* enqueueDeletePod.
enqueueDeletePod(k, p) == EnqueueDelete(k, p.uid) /\ UNCHANGED addQ

\* A watch event on the pod.  A name that was removed and created again is
\* seen as two events.
PodEvent(k) ==
    LET old == podCache[k]
        new == pods[k]
    IN  /\ old # new
        /\ IF old = NoPod
             THEN podCache' = [podCache EXCEPT ![k] = new] /\ enqueueAddPod(k, new)
             ELSE IF old.uid = new.uid
               THEN podCache' = [podCache EXCEPT ![k] = new] /\ enqueueUpdatePod(k, new)
               ELSE podCache' = [podCache EXCEPT ![k] = NoPod] /\ enqueueDeletePod(k, old)
        /\ UNCHANGED <<api, crCache, ipam, lsp, updQ, workers, loops, faults>>

\* A watch event on the IP CR: enqueueUpdateIP queues the ones being
\* deleted; an added CR carries its finalizer, and handleAddReservedIP
\* leaves it alone.
CREvent(k) ==
    /\ crCache[k] # crs[k]
    /\ crCache' = [crCache EXCEPT ![k] = crs[k]]
    /\ updQ' = IF crs[k].state = "deleting" THEN updQ \cup {k} ELSE updQ
    /\ UNCHANGED <<api, podCache, ipam, lsp, addQ, delQ, delObj, workers, loops, faults>>

-----------------------------------------------------------------------------
(* handleAddOrUpdatePod, under podKeyMutex *)

\* The addresses acquireAddress may return: the annotated one unless another
\* key has it, else the one the key has, else any free one.
Acquirable(k, p) ==
    IF p.ip # NoIP THEN {a \in {p.ip} : FreeFor(k, a)}
    ELSE IF ipam[k] # NoIP THEN {ipam[k]}
    ELSE {a \in Addresses : FreeFor(k, a)}

\* The key mutex is free.
Unlocked(k) == add[k].at = "idle" /\ del[k].at \in {"idle", "locking"}

\* The handler up to acquireAddress.  A pod that is gone from the cache, not
\* alive or already allocated (needAllocateSubnets) ends it.
AddAcquire(k) ==
    /\ k \in addQ
    /\ Unlocked(k)
    /\ LET p == podCache[k]
       IN  IF ~p.alive \/ p.alloc
             THEN addQ' = addQ \ {k} /\ UNCHANGED <<ipam, add>>
             ELSE \E a \in Acquirable(k, p) :
                    /\ addQ' = addQ \ {k}
                    /\ ipam' = [ipam EXCEPT ![k] = a]
                    /\ add' = [add EXCEPT ![k] =
                                 [at |-> "port", uid |-> p.uid, ip |-> a]]
    /\ UNCHANGED <<api, caches, lsp, delQ, updQ, delObj, del, upd, loops, faults>>

\* CreateLogicalSwitchPort creates the port or updates its address.
AddPortBug(k) ==
    /\ add[k].at = "port"
    /\ lsp' = IF lsp[k] = NoIP THEN [lsp EXCEPT ![k] = add[k].ip] ELSE lsp
    /\ add' = [add EXCEPT ![k].at = "cr"]
    /\ UNCHANGED <<api, caches, ipam, queues, del, upd, loops, faults>>

AddPort(k) ==
    /\ add[k].at = "port"
    /\ lsp' = [lsp EXCEPT ![k] = add[k].ip]
    /\ add' = [add EXCEPT ![k].at = "cr"]
    /\ UNCHANGED <<api, caches, ipam, queues, del, upd, loops, faults>>

RequeuedBug(k) == add' = [add EXCEPT ![k] = IdleAdd] /\ UNCHANGED addQ

\* The handler fails: the key goes back to the queue.
Requeued(k) ==
    /\ add' = [add EXCEPT ![k] = IdleAdd]
    /\ addQ' = addQ \cup {k}

\* createOrUpdateIPCR decides by the cached CR c.  The API server refuses to
\* create a CR that exists and to update one that has changed since.
AddCR(k) ==
    LET c == crCache[k]
        a == add[k].ip
        Proceed == add' = [add EXCEPT ![k].at = "patch"] /\ UNCHANGED addQ
        Write == IF crs[k] = c
                   THEN crs' = [crs EXCEPT ![k] = LiveCR(a)] /\ Proceed
                   ELSE UNCHANGED crs /\ Requeued(k)
    IN  /\ add[k].at = "cr"
        /\ \/ c.state = "deleting" /\ Proceed /\ updQ' = updQ \cup {k} /\ UNCHANGED crs
           \/ c.state # "deleting" /\ Write /\ UNCHANGED updQ
           \* the CR says all this already (node included)
           \/ Live(c) /\ c.ip = a /\ Proceed /\ UNCHANGED <<crs, updQ>>
        /\ UNCHANGED <<pods, uids, owners, caches, ipam, lsp, delQ, delObj, del, upd,
                       loops, faults>>

\* PatchAnnotations, by name.  If there is no such pod any more its resources
\* are recycled through the delete queue.
AddPatchBug(k) ==
    /\ add[k].at = "patch"
    /\ add' = [add EXCEPT ![k].at = "get"]
    /\ pods' = [pods EXCEPT ![k].ip = add[k].ip, ![k].alloc = TRUE]
    /\ UNCHANGED <<uids, owners, crs, caches, ipam, lsp, queues, del, upd, loops, faults>>

AddPatch(k) ==
    /\ add[k].at = "patch"
    /\ IF pods[k] = NoPod
         THEN /\ EnqueueDelete(k, add[k].uid)
              /\ add' = [add EXCEPT ![k] = IdleAdd]
              /\ UNCHANGED pods
         ELSE /\ pods' = [pods EXCEPT ![k].ip = add[k].ip, ![k].alloc = TRUE]
              /\ add' = [add EXCEPT ![k].at = "get"]
              /\ UNCHANGED <<delObj, delQ>>
    /\ UNCHANGED <<uids, owners, crs, caches, ipam, lsp, addQ, updQ, del, upd, loops, faults>>

\* The pod is read back after the patch, to the same end if it is gone.
AddGet(k) ==
    /\ add[k].at = "get"
    /\ add' = [add EXCEPT ![k] = IdleAdd]
    /\ IF pods[k] = NoPod
         THEN EnqueueDelete(k, add[k].uid)
         ELSE UNCHANGED <<delObj, delQ>>
    /\ UNCHANGED <<api, caches, ipam, lsp, addQ, updQ, del, upd, loops, faults>>

\* A call of the handler fails.
AddFails(k) ==
    /\ faults < MaxFaults
    /\ add[k].at # "idle"
    /\ Requeued(k)
    /\ faults' = faults + 1
    /\ UNCHANGED <<api, caches, ipam, lsp, delQ, updQ, delObj, del, upd, loops>>

-----------------------------------------------------------------------------
(* handleDeletePod *)

\* The handler returns nil: unlock, and deletingPodObjMap.Delete(key).
DelDone(k) ==
    /\ del' = [del EXCEPT ![k] = IdleDel]
    /\ delObj' = [delObj EXCEPT ![k] = NoObj]

\* deletingPodObjMap.Load, before LockKey.
DelLoad(k) ==
    /\ k \in delQ
    /\ del[k].at = "idle"
    /\ delQ' = delQ \ {k}
    /\ del' = IF delObj[k] = NoObj THEN del
              ELSE [del EXCEPT ![k] = [at |-> "locking", obj |-> delObj[k]]]
    /\ UNCHANGED <<api, caches, ipam, lsp, addQ, updQ, delObj, add, upd, loops, faults>>

\* Does the handler stop because a pod of the same name exists?
SameNameExists(k, o) == podCache[k] # NoPod /\ podCache[k].uid # o.uid

\* keepIPCR: a StatefulSet pod whose owner lives keeps its port and lease.
KeepIPCR(k, o) == IsSts(k) /\ o.stamped /\ ~IsStsToDel(k)

\* "skip clean ip CR": the owner was not found to be deleted.
SkipCR(k, o) == IsSts(k) /\ ~(o.stamped /\ IsStsToDel(k))

\* Under the lock, up to the deletion of the pod's ports.
DelPort(k) ==
    LET o == del[k].obj
    IN  /\ del[k].at = "locking"
        /\ Unlocked(k)
        /\ IF SameNameExists(k, o) \/ KeepIPCR(k, o)
             THEN DelDone(k) /\ UNCHANGED lsp
             ELSE /\ lsp' = [lsp EXCEPT ![k] = NoIP]
                  /\ IF SkipCR(k, o)
                       THEN DelDone(k)
                       ELSE del' = [del EXCEPT ![k].at = "cr"] /\ UNCHANGED delObj
        /\ UNCHANGED <<api, caches, ipam, addQ, delQ, updQ, add, upd, loops, faults>>

\* The IP CR is deleted, and the lease released after it, if the lister has
\* the CR.
DelCR(k) ==
    /\ del[k].at = "cr"
    /\ IF crCache[k] = NoCR
         THEN DelDone(k) /\ UNCHANGED crs
         ELSE /\ crs' = [crs EXCEPT ![k] = DeletedCR(@)]
              /\ del' = [del EXCEPT ![k].at = "release"]
              /\ UNCHANGED delObj
    /\ UNCHANGED <<pods, uids, owners, caches, ipam, lsp, addQ, delQ, updQ, add, upd,
                   loops, faults>>

\* ReleaseAddressByNic.
DelRelease(k) ==
    /\ del[k].at = "release"
    /\ ipam' = [ipam EXCEPT ![k] = NoIP]
    /\ DelDone(k)
    /\ UNCHANGED <<api, caches, lsp, addQ, delQ, updQ, add, upd, loops, faults>>

\* A call of the handler fails.
DelFails(k) ==
    /\ faults < MaxFaults
    /\ del[k].at # "idle"
    /\ del' = [del EXCEPT ![k] = IdleDel]
    /\ delQ' = delQ \cup {k}
    /\ faults' = faults + 1
    /\ UNCHANGED <<api, caches, ipam, lsp, addQ, updQ, delObj, add, upd, loops>>

-----------------------------------------------------------------------------
(* handleUpdateIP: a CR that is being deleted loses its port, its lease    *)
(* and its finalizer.  It runs without the key mutex.                      *)

UpdPort(k) ==
    /\ k \in updQ
    /\ upd[k] = "idle"
    /\ updQ' = updQ \ {k}
    /\ IF crCache[k].state = "deleting"
         THEN /\ lsp' = [lsp EXCEPT ![k] = NoIP]
              /\ upd' = [upd EXCEPT ![k] = "release"]
         ELSE UNCHANGED <<lsp, upd>>
    /\ UNCHANGED <<api, caches, ipam, addQ, delQ, delObj, add, del, loops, faults>>

UpdRelease(k) ==
    /\ upd[k] = "release"
    /\ upd' = [upd EXCEPT ![k] = "finalizer"]
    /\ ipam' = [ipam EXCEPT ![k] = NoIP]
    /\ UNCHANGED <<api, caches, lsp, queues, add, del, loops, faults>>

UpdFinalizer(k) ==
    /\ upd[k] = "finalizer"
    /\ upd' = [upd EXCEPT ![k] = "idle"]
    /\ crs' = [crs EXCEPT ![k] = Unfinalized(@)]
    /\ UNCHANGED <<pods, uids, owners, caches, ipam, lsp, queues, add, del, loops, faults>>

\* A call of the handler fails.
UpdFails(k) ==
    /\ faults < MaxFaults
    /\ upd[k] # "idle"
    /\ upd' = [upd EXCEPT ![k] = "idle"]
    /\ updQ' = updQ \cup {k}
    /\ faults' = faults + 1
    /\ UNCHANGED <<api, caches, ipam, lsp, addQ, delQ, delObj, add, del, loops>>

-----------------------------------------------------------------------------
(* The periodic loops *)

\* A live pod, as the cache has it, without the port it was given.
PortLost(k) == Allocated(podCache[k]) /\ lsp[k] = NoIP

\* Nothing is queued, running or to be repaired for the key.
AtRest(k) ==
    /\ podCache[k] = pods[k] /\ crCache[k] = crs[k]
    /\ add[k] = IdleAdd /\ del[k] = IdleDel
    /\ upd[k] = "idle" /\ k \notin addQ \cup delQ \cup updQ
    /\ ~PortLost(k)

\* Between two passes of the GC lies an interval (six minutes by default)
\* longer than the handling of events and than InspectInterval (20 s): a
\* marked name comes to rest, if only for a moment, before the next pass.
Settle(k) ==
    /\ k \in unsettled
    /\ AtRest(k)
    /\ unsettled' = unsettled \ {k}
    /\ UNCHANGED <<api, caches, ipam, lsp, queues, workers, marked, gcDue, faults>>

\* The keys whose port markAndCleanLSP knows a pod for.
PodPorts == {k \in Keys : podCache[k].alloc /\ ~ToDelete(k, podCache[k])}

\* The IP CR looked up before the port is deleted.
DoomedLateBug(noPod) == {k \in noPod \cap marked : crs[k] # NoCR}

\* The ports of a pass that are cleaned: those the last pass had marked.
Doomed(noPod) == noPod \cap marked

\* A pass of markAndCleanLSP.  A port without an IP CR is deleted, its lease
\* is not.
markAndCleanLSP ==
    LET noPod == {k \in Keys : lsp[k] # NoIP} \ PodPorts
        doomed == Doomed(noPod)
    IN  /\ GCInterval > 0
        /\ unsettled = {}
        /\ marked' = noPod \ marked
        /\ unsettled' = marked'
        /\ lsp' = [k \in Keys |-> IF k \in doomed THEN NoIP ELSE lsp[k]]
        /\ crs' = [k \in Keys |-> IF k \in doomed THEN DeletedCR(crs[k]) ELSE crs[k]]
        /\ ipam' = [k \in Keys |-> IF k \in doomed /\ crs[k] # NoCR THEN NoIP ELSE ipam[k]]
        /\ UNCHANGED <<pods, uids, owners, caches, queues, workers, gcDue, faults>>

\* inspectPod at one pod: an allocated pod without a port is allocated anew.
inspectPod(k) ==
    /\ PortLost(k)
    /\ pods[k] # NoPod
    /\ pods' = [pods EXCEPT ![k].alloc = FALSE]
    /\ addQ' = addQ \cup {k}
    /\ UNCHANGED <<uids, owners, crs, caches, ipam, lsp, delQ, updQ, delObj, workers,
                   loops, faults>>

-----------------------------------------------------------------------------
(* Start-up *)

\* InitIPAM: the leases of StatefulSet pods come from their live CRs, then
\* those of all allocated pods from their annotations; an address goes to
\* the first to claim it.
CRClaimBug(k) == NoIP

CRClaim(k) == IF IsSts(k) /\ Live(crs[k]) THEN crs[k].ip ELSE NoIP

PodClaimBug(k) == NoIP

PodClaim(k) == IF pods[k].alloc /\ (pods[k].alive \/ IsSts(k)) THEN pods[k].ip ELSE NoIP

Claim(k) == IF PodClaim(k) # NoIP THEN PodClaim(k) ELSE CRClaim(k)

InitIPAM(leases) ==
    /\ \A k \in Keys : leases[k] \in {Claim(k), NoIP}
    /\ \A j, k \in Keys : j # k /\ leases[j] = leases[k] => leases[j] = NoIP
    /\ \A k \in Keys : leases[k] = NoIP /\ Claim(k) # NoIP =>
          \E j \in Keys : /\ leases[j] = Claim(k)
                          /\ CRClaim(k) = Claim(k) => CRClaim(j) = Claim(k)

\* createOrUpdateIPCR for the pods InitIPAM restored.
RestoredCR(k, leases) ==
    IF /\ PodClaim(k) # NoIP /\ leases[k] = PodClaim(k)
       /\ crs[k].state # "deleting" /\ crs[k].ip # leases[k]
      THEN LiveCR(leases[k])
      ELSE crs[k]

\* The controller crashes and comes back: its memory is gone, its caches are
\* filled, an add event is handled for every pod, and CRs being deleted are
\* queued.
Restart ==
    /\ faults < MaxFaults
    /\ faults' = faults + 1
    /\ podCache' = pods
    /\ crCache' = crs
    /\ \E leases \in [Keys -> Addresses \cup {NoIP}] :
          /\ InitIPAM(leases)
          /\ ipam' = leases
          /\ crs' = [k \in Keys |-> RestoredCR(k, leases)]
    /\ LET gone == {k \in Keys : pods[k] # NoPod /\ ~pods[k].alive /\ ToDelete(k, pods[k])}
       IN  /\ addQ' = {k \in Keys : pods[k].alive /\ ~pods[k].alloc}
           /\ delQ' = gone
           /\ delObj' = [k \in Keys |-> IF k \in gone
                           THEN [uid |-> pods[k].uid, stamped |-> TRUE] ELSE NoObj]
    /\ updQ' = {k \in Keys : crs[k].state = "deleting"}
    /\ add' = [k \in Keys |-> IdleAdd]
    /\ del' = [k \in Keys |-> IdleDel]
    /\ upd' = [k \in Keys |-> "idle"]
    /\ marked' = {}
    /\ unsettled' = {}
    /\ gcDue' = (GCInterval > 0)
    /\ UNCHANGED <<pods, uids, owners, lsp>>

\* checkIPOwnerExists.
OwnerExists(k) == IF IsSts(k) THEN k \in owners ELSE podCache[k] # NoPod

\* gcIP, once after start-up: CRs without an owner are deleted.
gcIP ==
    /\ gcDue
    /\ gcDue' = FALSE
    /\ crs' = [k \in Keys |-> IF crCache[k] # NoCR /\ ~OwnerExists(k)
                                THEN DeletedCR(crs[k]) ELSE crs[k]]
    /\ UNCHANGED <<pods, uids, owners, caches, ipam, lsp, queues, workers, marked,
                   unsettled, faults>>

-----------------------------------------------------------------------------

Init ==
    /\ pods = [k \in Keys |-> NoPod]
    /\ \E s \in Starts : uids = s.uids /\ owners = s.owners /\ faults = s.faults
    /\ crs = [k \in Keys |-> NoCR]
    /\ podCache = pods
    /\ crCache = crs
    /\ ipam = [k \in Keys |-> NoIP]
    /\ lsp = [k \in Keys |-> NoIP]
    /\ addQ = {}
    /\ delQ = {}
    /\ updQ = {}
    /\ delObj = [k \in Keys |-> NoObj]
    /\ add = [k \in Keys |-> IdleAdd]
    /\ del = [k \in Keys |-> IdleDel]
    /\ upd = [k \in Keys |-> "idle"]
    /\ marked = {}
    /\ unsettled = {}
    /\ gcDue = FALSE

\* The steps the controller takes by itself for one key.
Controller(k) ==
    \/ PodEvent(k) \/ CREvent(k)
    \/ AddAcquire(k) \/ AddPort(k) \/ AddCR(k) \/ AddPatch(k) \/ AddGet(k)
    \/ DelLoad(k) \/ DelPort(k) \/ DelCR(k) \/ DelRelease(k)
    \/ UpdPort(k) \/ UpdRelease(k) \/ UpdFinalizer(k)
    \/ Settle(k) \/ inspectPod(k)

Next ==
    \/ \E k \in Keys :
          \/ CreatePod(k) \/ StopPod(k) \/ RemovePod(k) \/ DeleteStatefulSet(k)
          \/ Controller(k) \/ AddFails(k) \/ DelFails(k) \/ UpdFails(k)
    \/ markAndCleanLSP \/ Restart \/ gcIP

Spec == Init /\ [][Next]_vars

\* Informers deliver, workers run, loops tick, and the mutex does not starve
\* a worker (the Go mutex hands over to a waiter after a millisecond).  A
\* worker is at one place of its handler, so its steps share a condition.
\* Nothing is assumed of users and faults.
Fairness ==
    /\ \A k \in Keys :
          /\ WF_vars(PodEvent(k)) /\ WF_vars(CREvent(k))
          /\ SF_vars(AddAcquire(k)) /\ SF_vars(DelPort(k))
          /\ WF_vars(AddPort(k) \/ AddCR(k) \/ AddPatch(k) \/ AddGet(k))
          /\ WF_vars(DelLoad(k) \/ DelCR(k) \/ DelRelease(k))
          /\ WF_vars(UpdPort(k) \/ UpdRelease(k) \/ UpdFinalizer(k))
          /\ WF_vars(Settle(k)) /\ WF_vars(inspectPod(k))
    /\ WF_vars(markAndCleanLSP) /\ WF_vars(gcIP)

FairSpec == Spec /\ Fairness

-----------------------------------------------------------------------------

\* Every variable has its type, and a pod has the UID last given to its name:
\* no patch by name brings back part of a pod that is gone.
TypeOK ==
    /\ pods \in [Keys -> Pod] /\ podCache \in [Keys -> Pod]
    /\ uids \in [Keys -> Nat] /\ \A k \in Keys : pods[k] = NoPod \/ pods[k].uid = uids[k]
    /\ owners \subseteq StsKeys
    /\ crs \in [Keys -> CR] /\ crCache \in [Keys -> CR]
    /\ ipam \in [Keys -> Addresses \cup {NoIP}]
    /\ lsp \in [Keys -> Addresses \cup {NoIP}]
    /\ addQ \subseteq Keys /\ delQ \subseteq Keys /\ updQ \subseteq Keys
    /\ delObj \in [Keys -> Deleted]
    /\ add \in [Keys -> [at : {"idle", "port", "cr", "patch", "get"}, uid : Nat,
                         ip : Addresses \cup {NoIP}]]
    /\ del \in [Keys -> [at : {"idle", "locking", "cr", "release"}, obj : Deleted]]
    /\ upd \in [Keys -> {"idle", "release", "finalizer"}]
    /\ marked \subseteq Keys /\ unsettled \subseteq Keys
    /\ gcDue \in BOOLEAN /\ faults \in 0 .. MaxFaults

\* A pod that is told its address has it: IPAM leases the address to it and
\* its port carries it.
Connected(k) == pods[k].alloc /\ ipam[k] = pods[k].ip /\ lsp[k] = pods[k].ip

\* A live ordinary pod whose allocated annotation is "true" has its lease and
\* its port, through crashes and failed calls.  It is checked while no ordinary
\* name is used twice; LivePodsHavePorts and LivePodsConnect are about those
\* that are.
AllocatedConnected ==
    \A k \in Keys \ StsKeys : Allocated(pods[k]) => Connected(k)

\* Two live pods are never told the same address.
LiveExclusive ==
    \A j, k \in Keys :
       j # k /\ Allocated(pods[j]) /\ Allocated(pods[k]) => pods[j].ip # pods[k].ip

\* While its StatefulSet exists, the lease of a name whose IP CR is recorded
\* does not change: not when its pod is removed and created again, nor when
\* the controller restarts ("try keep ip for sts pod").  It is checked without
\* the port GC.
StsAddressKept ==
    [][\A k \in StsKeys : k \in owners' /\ Live(crs[k]) /\ ipam[k] # NoIP
          => ipam'[k] = ipam[k]]_vars

\* Once users and faults stop, every live pod is allocated and has a port for
\* good, whichever handler ran against a stale cache before: inspectPod finds
\* the pods that lost theirs.
LivePodsHavePorts ==
    <>[](\A k \in Keys : pods[k].alive => pods[k].alloc /\ lsp[k] # NoIP)

\* Once users and faults stop, every live pod has its lease too: cleaning up
\* after a removed pod spares the next one, "Pod with same name exists, just
\* return here".
LivePodsConnect == <>[](\A k \in Keys : pods[k].alive => Connected(k))

\* A name without a live pod, and without a StatefulSet to keep it for.
Vacant(k) == ~pods[k].alive /\ k \notin owners

\* Once users and faults stop, no vacant name keeps a port.
PortsRecycled == <>[](\A k \in Keys : Vacant(k) => lsp[k] = NoIP)

=============================================================================
