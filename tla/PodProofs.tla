------------------------------ MODULE PodProofs ------------------------------
(***************************************************************************)
(* Proofs about PodLifecycle: its type invariant for all instances; for    *)
(* names of no StatefulSet that are each used by one pod, that a live pod  *)
(* that is told its address has its lease and its port, and that no two    *)
(* such pods are told the same address, with the port GC or without; and   *)
(* that a StatefulSet pod keeps its address.  All are for any number of    *)
(* names, addresses, crashes and failed calls.                             *)
(***************************************************************************)
EXTENDS PodLifecycle, TLAPS

-----------------------------------------------------------------------------
(* Types *)

LEMMA CRTypes ==
  ASSUME NEW c \in CR
  PROVE  DeletedCR(c) \in CR /\ Unfinalized(c) \in CR
BY DEF CR, DeletedCR, Unfinalized, NoCR

LEMMA ObjectTypes ==
  /\ NoPod \in Pod /\ NoCR \in CR /\ NoObj \in Deleted
  /\ \A a \in Addresses \cup {NoIP} : LiveCR(a) \in CR
BY DEF NoPod, Pod, NoCR, CR, NoObj, Deleted, LiveCR

LEMMA EmptyFields ==
  /\ NoPod.alive = FALSE /\ NoCR.state = "none"
  /\ IdleAdd.at = "idle" /\ IdleDel.at = "idle"
  /\ \A a : LiveCR(a).state = "live"
BY DEF NoPod, NoCR, IdleAdd, IdleDel, LiveCR

\* What EnqueueDelete stores.
LEMMA EnqueueTypes ==
  ASSUME TypeOK, NEW k \in Keys, NEW u \in Nat, EnqueueDelete(k, u)
  PROVE  delObj' \in [Keys -> Deleted] /\ delQ' \subseteq Keys
<1>1. PICK t \in BOOLEAN :
        delObj' = [delObj EXCEPT ![k] = [uid |-> u, stamped |-> t]]
  BY Zenon DEF EnqueueDelete, Stamps
<1>2. [uid |-> u, stamped |-> t] \in Deleted
  BY Zenon DEF Deleted
<1> QED
  BY <1>1, <1>2 DEF TypeOK, EnqueueDelete

\* What the handlers write into a pod, and their own progress.
AddWork == [at : {"idle", "port", "cr", "patch", "get"}, uid : Nat,
            ip : Addresses \cup {NoIP}]

DelWork == [at : {"idle", "locking", "cr", "release"}, obj : Deleted]

LEMMA PodUpdates ==
  ASSUME NEW p \in Pod, NEW a \in Addresses \cup {NoIP}
  PROVE  /\ [p EXCEPT !.alive = FALSE] \in Pod
         /\ [p EXCEPT !.alloc = FALSE] \in Pod
         /\ [p EXCEPT !.ip = a, !.alloc = TRUE] \in Pod
BY Zenon DEF Pod

LEMMA PodFields ==
  ASSUME NEW p \in Pod, NEW a
  PROVE  /\ [p EXCEPT !.alive = FALSE].uid = p.uid
         /\ [p EXCEPT !.alive = FALSE].alive = FALSE
         /\ [p EXCEPT !.alloc = FALSE].uid = p.uid
         /\ [p EXCEPT !.alloc = FALSE].alive = p.alive
         /\ [p EXCEPT !.ip = a, !.alloc = TRUE].uid = p.uid
         /\ [p EXCEPT !.ip = a, !.alloc = TRUE].alive = p.alive
         /\ [p EXCEPT !.ip = a, !.alloc = TRUE].ip = a
         /\ [p EXCEPT !.ip = a, !.alloc = TRUE].alloc = TRUE
BY DEF Pod

LEMMA WorkTypes ==
  /\ IdleAdd \in AddWork /\ IdleDel \in DelWork
  /\ TypeOK => add \in [Keys -> AddWork] /\ del \in [Keys -> DelWork]
BY ObjectTypes DEF AddWork, DelWork, IdleAdd, IdleDel, TypeOK

\* A handler moves on.
LEMMA AddMoves ==
  ASSUME TypeOK, NEW k \in Keys, NEW x \in {"idle", "port", "cr", "patch", "get"},
         add' = [add EXCEPT ![k].at = x]
  PROVE  /\ add' \in [Keys -> AddWork]
         /\ add'[k].at = x /\ add'[k].ip = add[k].ip
         /\ \A j \in Keys \ {k} : add'[j] = add[j]
<1>1. add \in [Keys -> AddWork]
  BY WorkTypes
<1>2. \A r \in AddWork : [r EXCEPT !.at = x] \in AddWork
  BY Zenon DEF AddWork
<1>3. add'[k].at = x /\ add'[k].ip = add[k].ip
  BY <1>1, SMT DEF AddWork
<1>4. \A j \in Keys \ {k} : add'[j] = add[j]
  BY <1>1, Zenon
<1>5. add' = [add EXCEPT ![k] = [add[k] EXCEPT !.at = x]]
  BY <1>1, Zenon
<1> QED
  <2>1. add' \in [Keys -> AddWork]
    BY <1>1, <1>2, <1>5, Zenon
  <2> QED
    BY <1>3, <1>4, <2>1

LEMMA DelMoves ==
  ASSUME TypeOK, NEW k \in Keys, NEW x \in {"idle", "locking", "cr", "release"},
         del' = [del EXCEPT ![k].at = x]
  PROVE  del' \in [Keys -> DelWork]
<1>1. del \in [Keys -> DelWork]
  BY WorkTypes
<1>2. \A r \in DelWork : [r EXCEPT !.at = x] \in DelWork
  BY Zenon DEF DelWork
<1>3. del' = [del EXCEPT ![k] = [del[k] EXCEPT !.at = x]]
  BY <1>1, Zenon
<1> QED
  BY <1>1, <1>2, <1>3, Zenon

\* The pod of a name is replaced by one with the same UID.
LEMMA PodReplaced ==
  ASSUME TypeOK, NEW k \in Keys, NEW q \in Pod,
         q.uid = pods[k].uid, pods[k] # NoPod, pods' = [pods EXCEPT ![k] = q]
  PROVE  /\ pods' \in [Keys -> Pod]
         /\ \A j \in Keys : pods'[j] = NoPod \/ pods'[j].uid = uids[j]
<1>1. pods \in [Keys -> Pod]
  BY DEF TypeOK
<1>2. pods'[k] = q /\ \A j \in Keys \ {k} : pods'[j] = pods[j]
  BY <1>1
<1> QED
  BY <1>1, <1>2 DEF TypeOK

LEMMA TypeInit == Init => TypeOK
<1> SUFFICES ASSUME Init PROVE TypeOK
  OBVIOUS
<1>1. /\ pods \in [Keys -> Pod] /\ podCache \in [Keys -> Pod]
      /\ \A k \in Keys : pods[k] = NoPod
      /\ crs \in [Keys -> CR] /\ crCache \in [Keys -> CR]
      /\ delObj \in [Keys -> Deleted]
  BY ObjectTypes DEF Init
<1>2. /\ IdleAdd \in AddWork /\ IdleDel \in DelWork
  BY WorkTypes
<1>3. /\ uids \in [Keys -> Nat] /\ owners \subseteq StsKeys
      /\ faults \in 0 .. MaxFaults /\ gcDue \in BOOLEAN
  BY ConstantsAssumption, Zenon DEF Init
<1> QED
  BY <1>1, <1>2, <1>3 DEF Init, TypeOK, AddWork, DelWork

LEMMA TypeUsers ==
  ASSUME TypeOK, NEW k \in Keys,
         CreatePod(k) \/ StopPod(k) \/ RemovePod(k) \/ DeleteStatefulSet(k)
  PROVE  TypeOK'
<1>1. CASE CreatePod(k)
  <2>1. PICK r \in Requests :
          pods' = [pods EXCEPT ![k] = [uid |-> uids[k] + 1, alive |-> TRUE,
                                       ip |-> r, alloc |-> FALSE]]
    BY <1>1, Zenon DEF CreatePod
  <2>2. [uid |-> uids[k] + 1, alive |-> TRUE, ip |-> r, alloc |-> FALSE] \in Pod
    BY ConstantsAssumption DEF TypeOK, Pod
  <2>3. /\ pods' \in [Keys -> Pod] /\ uids' \in [Keys -> Nat]
        /\ pods'[k].uid = uids[k] + 1 /\ uids'[k] = uids[k] + 1
        /\ \A j \in Keys \ {k} : pods'[j] = pods[j] /\ uids'[j] = uids[j]
    <3>1. pods \in [Keys -> Pod] /\ uids \in [Keys -> Nat]
      BY DEF TypeOK
    <3>2. uids' = [uids EXCEPT ![k] = uids[k] + 1] /\ uids[k] + 1 \in Nat
      BY <1>1, <3>1 DEF CreatePod
    <3> QED
      BY <2>1, <2>2, <3>1, <3>2
  <2>4. \A j \in Keys : pods'[j] = NoPod \/ pods'[j].uid = uids'[j]
    BY <2>3, Zenon DEF TypeOK
  <2> QED
    BY <1>1, <2>3, <2>4 DEF TypeOK, CreatePod, caches, queues, workers, loops
<1>2. CASE StopPod(k)
  <2>1. /\ pods' \in [Keys -> Pod]
        /\ \A j \in Keys : pods'[j] = NoPod \/ pods'[j].uid = uids[j]
    <3>1. pods[k] \in Pod /\ pods[k] # NoPod
      BY <1>2 DEF TypeOK, StopPod, NoPod
    <3>2. pods' = [pods EXCEPT ![k] = [pods[k] EXCEPT !.alive = FALSE]]
      BY <1>2, Zenon DEF StopPod
    <3> QED
      BY <3>1, <3>2, PodUpdates, PodFields, PodReplaced, Zenon
  <2> QED
    BY <1>2, <2>1 DEF TypeOK, StopPod, caches, queues, workers, loops
<1>3. CASE RemovePod(k)
  BY <1>3, ObjectTypes DEF TypeOK, RemovePod, caches, queues, workers, loops
<1>4. CASE DeleteStatefulSet(k)
  BY <1>4 DEF TypeOK, DeleteStatefulSet, caches, queues, workers, loops
<1> QED
  BY <1>1, <1>2, <1>3, <1>4

LEMMA TypeEvents ==
  ASSUME TypeOK, NEW k \in Keys, PodEvent(k) \/ CREvent(k)
  PROVE  TypeOK'
<1>1. CASE PodEvent(k)
  <2>1. podCache[k].uid \in Nat /\ pods[k].uid \in Nat
    BY DEF TypeOK, Pod
  <2>2. podCache' \in [Keys -> Pod]
    BY <1>1, ObjectTypes DEF PodEvent, TypeOK
  <2>3. /\ addQ' \subseteq Keys
        /\ \/ UNCHANGED <<delObj, delQ>>
           \/ EnqueueDelete(k, podCache[k].uid) \/ EnqueueDelete(k, pods[k].uid)
    BY <1>1
    DEF PodEvent, enqueueAddPod, enqueueUpdatePod, enqueueDeletePod, TypeOK
  <2>4. delObj' \in [Keys -> Deleted] /\ delQ' \subseteq Keys
    BY <2>1, <2>3, EnqueueTypes DEF TypeOK
  <2> QED
    BY <1>1, <2>2, <2>3, <2>4 DEF PodEvent, TypeOK, api, workers, loops
<1>2. CASE CREvent(k)
  BY <1>2 DEF TypeOK, CREvent, api, workers, loops
<1> QED
  BY <1>1, <1>2

LEMMA TypeAdd ==
  ASSUME TypeOK, NEW k \in Keys,
         \/ AddAcquire(k) \/ AddPort(k) \/ AddCR(k) \/ AddPatch(k) \/ AddGet(k)
         \/ AddFails(k)
  PROVE  TypeOK'
<1>0. /\ add[k].uid \in Nat /\ add[k].ip \in Addresses \cup {NoIP}
      /\ podCache[k].uid \in Nat /\ IdleAdd \in
           [at : {"idle", "port", "cr", "patch", "get"}, uid : Nat,
            ip : Addresses \cup {NoIP}]
  BY DEF TypeOK, Pod, IdleAdd
<1>1. CASE AddAcquire(k)
  <2>1. \A a \in Acquirable(k, podCache[k]) : a \in Addresses \cup {NoIP}
    BY DEF Acquirable, TypeOK, Pod
  <2>2. \/ UNCHANGED <<ipam, add>>
        \/ \E a \in Addresses \cup {NoIP} :
              /\ ipam' = [ipam EXCEPT ![k] = a]
              /\ add' = [add EXCEPT ![k] =
                           [at |-> "port", uid |-> podCache[k].uid, ip |-> a]]
    BY <1>1, <2>1, Zenon DEF AddAcquire
  <2>3. \A a \in Addresses \cup {NoIP} :
           [at |-> "port", uid |-> podCache[k].uid, ip |-> a] \in AddWork
    BY <1>0, Zenon DEF AddWork
  <2>4. /\ ipam' \in [Keys -> Addresses \cup {NoIP}]
        /\ add' \in [Keys -> AddWork]
    <3>1. ipam \in [Keys -> Addresses \cup {NoIP}] /\ add \in [Keys -> AddWork]
      BY WorkTypes DEF TypeOK
    <3> QED
      BY <2>2, <2>3, <3>1, Zenon
  <2>5. addQ' \subseteq Keys
    BY <1>1, Zenon DEF AddAcquire, TypeOK
  <2> QED
    BY <1>1, <2>4, <2>5, Zenon DEF TypeOK, AddAcquire, AddWork, api, caches, loops
<1>2. CASE AddPort(k)
  BY <1>0, <1>2, Zenon DEF TypeOK, AddPort, api, caches, queues, loops
<1>3. CASE AddCR(k)
  <2>1. LiveCR(add[k].ip) \in CR
    BY <1>0, ObjectTypes, Zenon
  <2>2. crs' \in [Keys -> CR] /\ addQ' \subseteq Keys /\ updQ' \subseteq Keys
    BY <1>3, <2>1 DEF TypeOK, AddCR, Requeued
  <2>3. \/ add' = [add EXCEPT ![k].at = "patch"]
        \/ add' = [add EXCEPT ![k] = IdleAdd]
    BY <1>3 DEF AddCR, Requeued
  <2>4. add' \in [Keys -> AddWork]
    BY <2>3, AddMoves, WorkTypes
  <2> QED
    BY <1>3, <2>2, <2>4 DEF TypeOK, AddCR, AddWork, caches, loops
<1>4. CASE AddPatch(k)
  <2>1. delObj' \in [Keys -> Deleted] /\ delQ' \subseteq Keys
    BY <1>0, <1>4, EnqueueTypes DEF AddPatch, TypeOK
  <2>2. /\ pods' \in [Keys -> Pod]
        /\ \A j \in Keys : pods'[j] = NoPod \/ pods'[j].uid = uids[j]
    <3>1. CASE pods[k] = NoPod
      BY <1>4, <3>1 DEF AddPatch, TypeOK
    <3>2. CASE pods[k] # NoPod
      <4>1. pods' = [pods EXCEPT ![k] = [pods[k] EXCEPT !.ip = add[k].ip,
                                                        !.alloc = TRUE]]
        BY <1>4, <3>2, Zenon DEF AddPatch
      <4>2. pods[k] \in Pod
        BY DEF TypeOK
      <4>3. [pods[k] EXCEPT !.ip = add[k].ip, !.alloc = TRUE] \in Pod
        BY <1>0, <4>2, PodUpdates, Zenon
      <4>4. [pods[k] EXCEPT !.ip = add[k].ip, !.alloc = TRUE].uid = pods[k].uid
        BY <4>2, PodFields
      <4> QED
        BY <3>2, <4>1, <4>3, <4>4, PodReplaced, Zenon
    <3> QED
      BY <3>1, <3>2
  <2>3. add' \in [Keys -> AddWork]
    <3>1. \/ add' = [add EXCEPT ![k] = IdleAdd]
          \/ add' = [add EXCEPT ![k].at = "get"]
      BY <1>4, Zenon DEF AddPatch
    <3> QED
      BY <3>1, AddMoves, WorkTypes
  <2> QED
    BY <1>4, <2>1, <2>2, <2>3 DEF AddPatch, TypeOK, AddWork, caches, loops
<1>5. CASE AddGet(k)
  <2>1. delObj' \in [Keys -> Deleted] /\ delQ' \subseteq Keys
    BY <1>0, <1>5, EnqueueTypes, Zenon DEF AddGet, TypeOK
  <2> QED
    BY <1>0, <1>5, <2>1, Zenon DEF AddGet, TypeOK, api, caches, loops
<1>6. CASE AddFails(k)
  <2>1. faults \in 0 .. MaxFaults /\ faults < MaxFaults /\ faults' = faults + 1
    BY <1>6, Zenon DEF AddFails, TypeOK
  <2>2. MaxFaults \in Nat
    BY ConstantsAssumption
  <2>3. faults' \in 0 .. MaxFaults
    BY <2>1, <2>2
  <2>4. add' \in [Keys -> AddWork] /\ addQ' \subseteq Keys
    <3>1. /\ add' = [add EXCEPT ![k] = IdleAdd] /\ addQ' = addQ \cup {k}
          /\ addQ \subseteq Keys
      BY <1>6, Zenon DEF AddFails, Requeued, TypeOK
    <3>2. add \in [Keys -> AddWork] /\ IdleAdd \in AddWork
      BY WorkTypes, Zenon
    <3> QED
      BY <3>1, <3>2
  <2> QED
    BY <1>6, <2>3, <2>4, Zenon DEF AddFails, TypeOK, AddWork, api, caches, loops
<1> QED
  BY <1>1, <1>2, <1>3, <1>4, <1>5, <1>6

LEMMA TypeDel ==
  ASSUME TypeOK, NEW k \in Keys,
         DelLoad(k) \/ DelPort(k) \/ DelCR(k) \/ DelRelease(k) \/ DelFails(k)
  PROVE  TypeOK'
<1>0. /\ IdleDel \in [at : {"idle", "locking", "cr", "release"}, obj : Deleted]
      /\ DelDone(k) => del' \in [Keys -> DelWork] /\ delObj' \in [Keys -> Deleted]
  <2>1. IdleDel \in DelWork /\ del \in [Keys -> DelWork]
    BY WorkTypes
  <2>2. NoObj \in Deleted /\ delObj \in [Keys -> Deleted]
    BY ObjectTypes DEF TypeOK
  <2>3. DelDone(k) => del' \in [Keys -> DelWork] /\ delObj' \in [Keys -> Deleted]
    BY <2>1, <2>2, Zenon DEF DelDone
  <2> QED
    BY <2>1, <2>3, Zenon DEF DelWork
<1>1. CASE DelLoad(k)
  BY <1>1 DEF TypeOK, DelLoad, api, caches, loops
<1>2. CASE DelPort(k)
  <2>1. \/ DelDone(k)
        \/ del' = [del EXCEPT ![k].at = "cr"] /\ UNCHANGED delObj
    BY <1>2, Zenon DEF DelPort
  <2>2. del' \in [Keys -> DelWork] /\ delObj' \in [Keys -> Deleted]
    BY <1>0, <2>1, DelMoves, Zenon DEF TypeOK
  <2> QED
    BY <1>2, <2>2, Zenon DEF TypeOK, DelPort, DelWork, api, caches, loops
<1>3. CASE DelCR(k)
  <2>1. crs' \in [Keys -> CR]
    <3>1. crs \in [Keys -> CR] /\ DeletedCR(crs[k]) \in CR
      BY CRTypes DEF TypeOK
    <3>2. crs' = crs \/ crs' = [crs EXCEPT ![k] = DeletedCR(crs[k])]
      BY <1>3, Zenon DEF DelCR
    <3> QED
      BY <3>1, <3>2, Zenon
  <2>2. \/ DelDone(k)
        \/ del' = [del EXCEPT ![k].at = "release"] /\ UNCHANGED delObj
    BY <1>3, Zenon DEF DelCR
  <2>3. del' \in [Keys -> DelWork] /\ delObj' \in [Keys -> Deleted]
    BY <1>0, <2>2, DelMoves, Zenon DEF TypeOK
  <2> QED
    BY <1>3, <2>1, <2>3 DEF TypeOK, DelCR, DelWork, caches, loops
<1>4. CASE DelRelease(k)
  BY <1>0, <1>4, ObjectTypes
  DEF TypeOK, DelRelease, DelDone, api, caches, loops
<1>5. CASE DelFails(k)
  <2>1. faults' \in 0 .. MaxFaults
    BY <1>5, ConstantsAssumption DEF TypeOK, DelFails
  <2> QED
    BY <1>0, <1>5, <2>1 DEF TypeOK, DelFails, api, caches, loops
<1> QED
  BY <1>1, <1>2, <1>3, <1>4, <1>5

LEMMA TypeUpd ==
  ASSUME TypeOK, NEW k \in Keys,
         UpdPort(k) \/ UpdRelease(k) \/ UpdFinalizer(k) \/ UpdFails(k)
  PROVE  TypeOK'
<1>1. CASE UpdPort(k)
  BY <1>1, Zenon DEF TypeOK, UpdPort, api, caches, loops
<1>2. CASE UpdRelease(k)
  BY <1>2 DEF TypeOK, UpdRelease, api, caches, queues, loops
<1>3. CASE UpdFinalizer(k)
  BY <1>3, CRTypes DEF TypeOK, UpdFinalizer, caches, queues, loops
<1>4. CASE UpdFails(k)
  <2>1. faults' \in 0 .. MaxFaults
    BY <1>4, ConstantsAssumption DEF TypeOK, UpdFails
  <2> QED
    BY <1>4, <2>1 DEF TypeOK, UpdFails, api, caches, loops
<1> QED
  BY <1>1, <1>2, <1>3, <1>4

LEMMA TypeLoops ==
  ASSUME TypeOK,
         \/ \E k \in Keys : Settle(k) \/ inspectPod(k)
         \/ markAndCleanLSP \/ gcIP
  PROVE  TypeOK'
<1>1. ASSUME NEW k \in Keys, Settle(k) PROVE TypeOK'
  BY <1>1 DEF TypeOK, Settle, api, caches, queues, workers
<1>2. ASSUME NEW k \in Keys, inspectPod(k) PROVE TypeOK'
  <2>1. pods[k] \in Pod /\ pods[k] # NoPod
    BY <1>2 DEF TypeOK, inspectPod
  <2>2. pods' = [pods EXCEPT ![k] = [pods[k] EXCEPT !.alloc = FALSE]]
    BY <1>2, Zenon DEF inspectPod
  <2>3. /\ pods' \in [Keys -> Pod]
        /\ \A j \in Keys : pods'[j] = NoPod \/ pods'[j].uid = uids[j]
    BY <2>1, <2>2, PodUpdates, PodFields, PodReplaced, Zenon
  <2> QED
    BY <1>2, <2>3 DEF TypeOK, inspectPod, caches, workers, loops
<1>3. CASE markAndCleanLSP
  BY <1>3, CRTypes DEF TypeOK, markAndCleanLSP, caches, queues, workers
<1>4. CASE gcIP
  BY <1>4, CRTypes, Zenon DEF TypeOK, gcIP, caches, queues, workers
<1> QED
  BY <1>1, <1>2, <1>3, <1>4

LEMMA TypeRestart ==
  ASSUME TypeOK, Restart
  PROVE  TypeOK'
<1>1. PICK leases \in [Keys -> Addresses \cup {NoIP}] :
        ipam' = leases /\ crs' = [k \in Keys |-> RestoredCR(k, leases)]
  BY Zenon DEF Restart
<1>2. crs' \in [Keys -> CR]
  BY <1>1, ObjectTypes DEF RestoredCR, TypeOK
<1>3. delObj' \in [Keys -> Deleted]
  BY ObjectTypes DEF Restart, TypeOK, Deleted, Pod
<1>4. /\ add' \in [Keys -> [at : {"idle", "port", "cr", "patch", "get"},
                            uid : Nat, ip : Addresses \cup {NoIP}]]
      /\ del' \in [Keys -> [at : {"idle", "locking", "cr", "release"},
                            obj : Deleted]]
      /\ upd' \in [Keys -> {"idle", "release", "finalizer"}]
  BY ObjectTypes DEF Restart, IdleAdd, IdleDel
<1>5. /\ addQ' \subseteq Keys /\ delQ' \subseteq Keys /\ updQ' \subseteq Keys
      /\ marked' \subseteq Keys /\ unsettled' \subseteq Keys
      /\ gcDue' \in BOOLEAN
  BY DEF Restart, TypeOK
<1>6. faults' \in 0 .. MaxFaults
  <2>1. faults \in 0 .. MaxFaults /\ faults < MaxFaults /\ faults' = faults + 1
    BY Zenon DEF Restart, TypeOK
  <2>2. MaxFaults \in Nat
    BY ConstantsAssumption
  <2> QED
    BY <2>1, <2>2
<1> QED
  BY <1>1, <1>2, <1>3, <1>4, <1>5, <1>6 DEF Restart, TypeOK

LEMMA TypeStep == TypeOK /\ [Next]_vars => TypeOK'
<1> SUFFICES ASSUME TypeOK, [Next]_vars PROVE TypeOK'
  OBVIOUS
<1>1. CASE UNCHANGED vars
  BY <1>1 DEF vars, api, caches, queues, workers, loops, TypeOK
<1>2. CASE Next
  BY <1>2, TypeUsers, TypeEvents, TypeAdd, TypeDel, TypeUpd, TypeLoops,
     TypeRestart
  DEF Next, Controller
<1> QED
  BY <1>1, <1>2

\* Every variable keeps its type, and a pod the UID last given to its name,
\* whatever the handlers, crashes and failed calls do, for all instances.
THEOREM TypeCorrect == Spec => []TypeOK
BY TypeInit, TypeStep, PTL DEF Spec

-----------------------------------------------------------------------------
(* The invariant.  A name that is used once is untouched until its pod is  *)
(* created and cached.  From then on, while the pod is alive, no handler   *)
(* that takes an address back runs for it, the cache is behind the pod but *)
(* never wrong about it, and whatever handleAddOrUpdatePod has got done    *)
(* agrees with the lease.                                                  *)

\* Ordinary names, used by at most one more pod each.
UsedOnce ==
    /\ StsKeys = {}
    /\ \A s \in Starts : \A k \in Keys : MaxUid[k] <= s.uids[k] + 1

\* No handler and no loop has met the name.
Unused(k) ==
    /\ podCache[k] = NoPod /\ crs[k] = NoCR /\ crCache[k] = NoCR
    /\ ipam[k] = NoIP /\ lsp[k] = NoIP
    /\ add[k].at = "idle" /\ del[k].at = "idle" /\ upd[k] = "idle"
    /\ k \notin addQ /\ k \notin delQ /\ k \notin updQ /\ k \notin marked

\* The cached pod is the pod, or the pod before it was given its address.
Cached(k) ==
    /\ podCache[k].alive /\ podCache[k].uid = pods[k].uid
    /\ podCache[k].alloc => pods[k].alloc
    /\ podCache[k].ip # NoIP => podCache[k].ip = pods[k].ip
    /\ pods[k].ip # NoIP => podCache[k].ip = pods[k].ip \/ pods[k].alloc

\* Nothing is about to take the port, the CR or the lease back.
Spared(k) ==
    /\ k \notin delQ /\ del[k].at = "idle" /\ upd[k] = "idle"
    /\ crs[k].state \in {"none", "live"} /\ crCache[k].state \in {"none", "live"}
    /\ k \in marked => k \in unsettled \/ podCache[k].alloc

\* The pod is allocated or its allocation is queued or running, and agrees
\* with the lease.
Underway(k) ==
    /\ pods[k].alloc \/ k \in addQ \/ add[k].at # "idle"
    /\ add[k].at # "idle" => add[k].ip = ipam[k] /\ ipam[k] # NoIP
    /\ add[k].at \in {"cr", "patch", "get"} => lsp[k] = ipam[k]
    /\ add[k].at = "get" => pods[k].alloc

\* An allocated pod has its lease and its port; a pod that asks for an
\* address is leased no other.
Holds(k) ==
    /\ pods[k].alloc => pods[k].ip = ipam[k] /\ lsp[k] = ipam[k] /\ ipam[k] # NoIP
    /\ pods[k].ip # NoIP /\ ipam[k] # NoIP => pods[k].ip = ipam[k]

Served(k) == Cached(k) /\ Spared(k) /\ Underway(k) /\ Holds(k)

KeyInv(k) ==
    /\ MaxUid[k] <= uids[k] + 1
    /\ uids[k] < MaxUid[k] => pods[k] = NoPod /\ Unused(k)
    /\ pods[k].alive => (Unused(k) /\ ~pods[k].alloc) \/ Served(k)

\* No address is leased twice.
Exclusive == \A j, k \in Keys : j # k /\ ipam[j] = ipam[k] => ipam[j] = NoIP

PodInv == TypeOK /\ Exclusive /\ \A k \in Keys : KeyInv(k)

\* A step leaves a name alone.
Same(k) ==
    /\ pods'[k] = pods[k] /\ uids'[k] = uids[k] /\ crs'[k] = crs[k]
    /\ podCache'[k] = podCache[k] /\ crCache'[k] = crCache[k]
    /\ ipam'[k] = ipam[k] /\ lsp'[k] = lsp[k]
    /\ add'[k] = add[k] /\ del'[k] = del[k] /\ upd'[k] = upd[k]
    /\ (k \in addQ' <=> k \in addQ) /\ (k \in delQ' <=> k \in delQ)
    /\ (k \in updQ' <=> k \in updQ) /\ (k \in marked' <=> k \in marked)
    /\ (k \in unsettled' <=> k \in unsettled)

LEMMA Frame == ASSUME NEW k \in Keys, KeyInv(k), Same(k) PROVE KeyInv(k)'
<1>1. Unused(k) => Unused(k)'
  BY DEF Same, Unused
<1>2. Cached(k) => Cached(k)'
  BY DEF Same, Cached
<1>3. Spared(k) => Spared(k)'
  BY DEF Same, Spared
<1>4. Underway(k) /\ Holds(k) => Underway(k)' /\ Holds(k)'
  BY DEF Same, Underway, Holds
<1>5. Served(k) => Served(k)'
  BY <1>2, <1>3, <1>4 DEF Served
<1> QED
  BY <1>1, <1>5 DEF KeyInv, Same

\* What a step of a handler for one name has to show.
LEMMA OneKey ==
  ASSUME PodInv, NEW k \in Keys, ~Unused(k), uids' = uids,
         \A j \in Keys \ {k} : Same(j),
         pods'[k].alive => pods[k].alive,
         pods'[k].alive /\ Served(k) => Served(k)'
  PROVE  \A j \in Keys : KeyInv(j)'
<1>1. ASSUME NEW j \in Keys \ {k} PROVE KeyInv(j)'
  BY <1>1, Frame DEF PodInv
<1>2. KeyInv(k)'
  <2>1. KeyInv(k) /\ uids'[k] = uids[k]
    BY DEF PodInv
  <2> QED
    BY <2>1 DEF KeyInv
<1> QED
  BY <1>1, <1>2

\* A lease that is dropped, or not taken from anybody, keeps them exclusive.
LEMMA ExclusiveKept ==
  ASSUME PodInv, NEW k \in Keys, ipam'[k] = NoIP \/ FreeFor(k, ipam'[k]),
         \A j \in Keys \ {k} : ipam'[j] = ipam[j]
  PROVE  Exclusive'
BY DEF PodInv, Exclusive, FreeFor

-----------------------------------------------------------------------------
(* Its steps *)

LEMMA PodInvInit == ASSUME UsedOnce PROVE Init => PodInv
<1> SUFFICES ASSUME Init PROVE PodInv
  OBVIOUS
<1>1. Exclusive
  BY DEF Init, Exclusive
<1>2. \A k \in Keys : pods[k] = NoPod /\ Unused(k)
  BY Zenon DEF Init, Unused, IdleAdd, IdleDel
<1>3. \A k \in Keys : MaxUid[k] <= uids[k] + 1
  <2>1. PICK s \in Starts : uids = s.uids
    BY Zenon DEF Init
  <2> QED
    BY <2>1 DEF UsedOnce
<1>4. NoPod.alive = FALSE
  BY DEF NoPod
<1>5. \A k \in Keys : KeyInv(k)
  BY <1>2, <1>3, <1>4, Zenon DEF KeyInv
<1> QED
  BY <1>1, <1>5, TypeInit DEF PodInv

LEMMA InvUsers ==
  ASSUME UsedOnce, PodInv, NEW k \in Keys,
         CreatePod(k) \/ StopPod(k) \/ RemovePod(k) \/ DeleteStatefulSet(k)
  PROVE  Exclusive' /\ \A j \in Keys : KeyInv(j)'
<1> USE DEF caches, queues, workers, loops
<1>0. pods \in [Keys -> Pod] /\ uids \in [Keys -> Nat] /\ MaxUid \in [Keys -> Nat]
  BY ConstantsAssumption, Zenon DEF PodInv, TypeOK
<1>1. UNCHANGED ipam
  BY DEF CreatePod, StopPod, RemovePod, DeleteStatefulSet
<1>2. Exclusive'
  BY <1>1 DEF PodInv, Exclusive
<1>3. CASE CreatePod(k)
  <2>1. \A j \in Keys \ {k} : Same(j)
    BY <1>0, <1>3, Zenon DEF CreatePod, Same
  <2>2. /\ Unused(k)' /\ uids'[k] = uids[k] + 1 /\ pods'[k].alloc = FALSE
    <3>1. uids'[k] = uids[k] + 1 /\ pods'[k].alloc = FALSE
      BY <1>0, <1>3 DEF CreatePod
    <3>2. Unused(k)
      BY <1>3, Zenon DEF CreatePod, PodInv, KeyInv
    <3> QED
      BY <1>3, <3>1, <3>2, Zenon DEF CreatePod, Unused
  <2>3. MaxUid[k] <= uids'[k] + 1 /\ ~(uids'[k] < MaxUid[k])
    <3>1. MaxUid[k] <= uids[k] + 1 /\ uids[k] \in Nat /\ MaxUid[k] \in Nat
      BY <1>0 DEF PodInv, KeyInv
    <3> QED
      BY <2>2, <3>1
  <2>4. KeyInv(k)'
    BY <2>2, <2>3 DEF KeyInv
  <2> QED
    BY <1>2, <2>1, <2>4, Frame DEF PodInv
<1>4. CASE StopPod(k) \/ RemovePod(k)
  <2>1. \A j \in Keys \ {k} : Same(j)
    BY <1>0, <1>4 DEF StopPod, RemovePod, Same
  <2>2. pods[k] # NoPod /\ pods'[k].alive = FALSE
    BY <1>0, <1>4 DEF StopPod, RemovePod, NoPod, Pod
  <2>3. uids' = uids
    BY <1>4 DEF StopPod, RemovePod
  <2>4. KeyInv(k)'
    BY <1>0, <2>2, <2>3, Zenon DEF PodInv, KeyInv
  <2> QED
    BY <1>2, <2>1, <2>4, Frame DEF PodInv
<1>5. CASE DeleteStatefulSet(k)
  BY <1>5, Zenon DEF DeleteStatefulSet, UsedOnce, PodInv, TypeOK
<1> QED
  BY <1>3, <1>4, <1>5

LEMMA InvEvents ==
  ASSUME UsedOnce, PodInv, NEW k \in Keys, PodEvent(k) \/ CREvent(k)
  PROVE  Exclusive' /\ \A j \in Keys : KeyInv(j)'
<1> USE DEF api, workers, loops
<1>0. /\ pods \in [Keys -> Pod] /\ podCache \in [Keys -> Pod]
      /\ crCache \in [Keys -> CR] /\ uids \in [Keys -> Nat]
      /\ delQ \subseteq Keys /\ MaxUid \in [Keys -> Nat]
  BY ConstantsAssumption, Zenon DEF PodInv, TypeOK
<1>1. UNCHANGED ipam
  BY DEF PodEvent, CREvent
<1>2. Exclusive'
  BY <1>1 DEF PodInv, Exclusive
<1>3. CASE PodEvent(k)
  <2>1. \A j \in Keys \ {k} : Same(j)
    BY <1>0, <1>3, Zenon
    DEF PodEvent, Same, enqueueAddPod, enqueueUpdatePod, enqueueDeletePod,
        EnqueueDelete
  <2>2. /\ pods' = pods /\ uids' = uids
        /\ Unused(k) => pods[k] # NoPod
    BY <1>3, Zenon DEF PodEvent, Unused
  <2>3. ASSUME pods[k].alive PROVE Served(k)'
    <3>1. /\ podCache[k] = NoPod \/ podCache[k].uid = pods[k].uid
          /\ ~ToDelete(k, pods[k])
          /\ pods[k] # NoPod
      <4>1. pods[k] # NoPod
        BY <2>3 DEF NoPod
      <4>2. ~ToDelete(k, pods[k])
        BY <2>3 DEF ToDelete, UsedOnce, IsSts
      <4>3. podCache[k] = NoPod \/ podCache[k].uid = pods[k].uid
        BY <2>3, Zenon DEF PodInv, KeyInv, Unused, Served, Cached
      <4> QED
        BY <4>1, <4>2, <4>3
    <3>2. /\ podCache'[k] = pods[k] /\ UNCHANGED <<delQ, delObj>>
          /\ addQ' = addQ \cup {k} \/ (pods[k].alloc /\ addQ' = addQ)
      BY <1>0, <1>3, <3>1, Zenon DEF PodEvent, enqueueAddPod, enqueueUpdatePod
    <3>3. CASE Unused(k) /\ ~pods[k].alloc
      <4>1. /\ crs'[k].state = "none" /\ crCache'[k].state = "none"
            /\ ipam'[k] = NoIP /\ k \notin marked'
            /\ add'[k].at = "idle" /\ del'[k].at = "idle" /\ upd'[k] = "idle"
            /\ k \notin delQ' /\ k \in addQ'
        BY <1>3, <3>2, <3>3, EmptyFields, Zenon DEF PodEvent, Unused
      <4> QED
        BY <2>2, <2>3, <3>2, <3>3, <4>1, Zenon
        DEF Served, Cached, Spared, Underway, Holds
    <3>4. CASE Served(k)
      BY <1>3, <2>2, <2>3, <3>2, <3>4, Zenon
      DEF PodEvent, Served, Cached, Spared, Underway, Holds
    <3> QED
      BY <2>3, <3>3, <3>4, Zenon DEF PodInv, KeyInv
  <2>4. KeyInv(k)'
    BY <2>2, <2>3, Zenon DEF PodInv, KeyInv
  <2> QED
    BY <1>2, <2>1, <2>4, Frame DEF PodInv
<1>4. CASE CREvent(k)
  <2>1. \A j \in Keys \ {k} : Same(j)
    BY <1>0, <1>4, Zenon DEF CREvent, Same
  <2>2. ~Unused(k) /\ uids' = uids /\ pods' = pods
    BY <1>4, Zenon DEF CREvent, Unused
  <2>3. Served(k) => Served(k)'
    BY <1>0, <1>4, Zenon DEF CREvent, Served, Cached, Spared, Underway, Holds
  <2> QED
    BY <1>2, <2>1, <2>2, <2>3, OneKey
<1> QED
  BY <1>3, <1>4

\* An address that is acquired is nobody else's, is the one asked for, and is
\* the lease of the name if it has one.
LEMMA Acquired ==
  ASSUME PodInv, NEW k \in Keys, NEW a \in Acquirable(k, podCache[k])
  PROVE  /\ a \in Addresses /\ a # NoIP /\ FreeFor(k, a)
         /\ Served(k) => /\ pods[k].ip # NoIP => a = pods[k].ip
                         /\ pods[k].alloc => a = ipam[k]
<1>1. /\ podCache[k].ip \in Addresses \cup {NoIP}
      /\ ipam \in [Keys -> Addresses \cup {NoIP}]
  BY DEF PodInv, TypeOK, Pod
<1>2. CASE podCache[k].ip # NoIP
  <2>1. a = podCache[k].ip /\ FreeFor(k, a)
    BY <1>2 DEF Acquirable
  <2> QED
    BY <1>1, <1>2, <2>1, Zenon DEF Served, Cached, Holds
<1>3. CASE podCache[k].ip = NoIP /\ ipam[k] # NoIP
  <2>1. a = ipam[k]
    BY <1>3 DEF Acquirable
  <2>2. FreeFor(k, a)
    BY <1>3, <2>1, Zenon DEF FreeFor, PodInv, Exclusive
  <2>3. a \in Addresses /\ a # NoIP
    BY <1>1, <1>3, <2>1
  <2>4. Served(k) => /\ pods[k].ip # NoIP => a = pods[k].ip
                     /\ pods[k].alloc => a = ipam[k]
    BY <1>3, <2>1, Zenon DEF Served, Cached, Holds
  <2> QED
    BY <2>2, <2>3, <2>4, Zenon
<1>4. CASE podCache[k].ip = NoIP /\ ipam[k] = NoIP
  <2>1. a \in Addresses /\ FreeFor(k, a)
    BY <1>4 DEF Acquirable
  <2> QED
    BY <1>4, <2>1, ConstantsAssumption, Zenon DEF Served, Cached, Holds
<1> QED
  BY <1>2, <1>3, <1>4, Zenon

LEMMA InvAcquire ==
  ASSUME PodInv, NEW k \in Keys, AddAcquire(k)
  PROVE  Exclusive' /\ \A j \in Keys : KeyInv(j)'
<1> USE DEF api, caches, loops
<1>0. ipam \in [Keys -> Addresses \cup {NoIP}] /\ add \in [Keys -> AddWork]
  BY WorkTypes DEF PodInv, TypeOK
<1>1. ~Unused(k) /\ uids' = uids /\ pods' = pods
  BY Zenon DEF AddAcquire, Unused
<1>2. CASE ~podCache[k].alive \/ podCache[k].alloc
  <2>1. addQ' = addQ \ {k} /\ UNCHANGED <<ipam, add>>
    BY <1>2 DEF AddAcquire
  <2>2. \A j \in Keys \ {k} : Same(j)
    BY <2>1, Zenon DEF AddAcquire, Same
  <2>3. Served(k) => Served(k)'
    BY <1>2, <2>1, Zenon DEF AddAcquire, Served, Cached, Spared, Underway, Holds
  <2>4. Exclusive'
    BY <2>1 DEF PodInv, Exclusive
  <2> QED
    BY <1>1, <2>2, <2>3, <2>4, OneKey
<1>3. CASE ~(~podCache[k].alive \/ podCache[k].alloc)
  <2>1. PICK a \in Acquirable(k, podCache[k]) :
          /\ addQ' = addQ \ {k}
          /\ ipam' = [ipam EXCEPT ![k] = a]
          /\ add' = [add EXCEPT ![k] =
                       [at |-> "port", uid |-> podCache[k].uid, ip |-> a]]
    BY <1>3, Zenon DEF AddAcquire
  <2>2. /\ ipam'[k] = a /\ add'[k].at = "port" /\ add'[k].ip = a
        /\ \A j \in Keys \ {k} : ipam'[j] = ipam[j] /\ add'[j] = add[j]
    BY <1>0, <2>1
  <2>3. \A j \in Keys \ {k} : Same(j)
    BY <2>1, <2>2, Zenon DEF AddAcquire, Same
  <2>4. ASSUME Served(k) PROVE Served(k)'
    <3>1. /\ a # NoIP /\ (pods[k].ip # NoIP => a = pods[k].ip)
          /\ pods[k].alloc => a = ipam[k]
      BY <2>4, Acquired, Zenon
    <3>2. Cached(k)' /\ Spared(k)'
      BY <1>1, <2>4, Zenon DEF AddAcquire, Served, Cached, Spared
    <3>3. Underway(k)' /\ Holds(k)'
      BY <1>1, <2>2, <2>4, <3>1, Zenon DEF AddAcquire, Served, Underway, Holds
    <3> QED
      BY <3>2, <3>3 DEF Served
  <2>5. Exclusive'
    BY <2>2, Acquired, ExclusiveKept
  <2> QED
    BY <1>1, <2>3, <2>4, <2>5, OneKey, Zenon
<1> QED
  BY <1>2, <1>3

LEMMA InvAdd ==
  ASSUME PodInv, NEW k \in Keys,
         AddPort(k) \/ AddCR(k) \/ AddPatch(k) \/ AddGet(k) \/ AddFails(k)
  PROVE  Exclusive' /\ \A j \in Keys : KeyInv(j)'
<1> USE DEF api, caches, queues, loops
<1>0. /\ TypeOK /\ add \in [Keys -> AddWork] /\ IdleAdd.at = "idle"
      /\ lsp \in [Keys -> Addresses \cup {NoIP}] /\ crs \in [Keys -> CR]
      /\ pods \in [Keys -> Pod]
  BY WorkTypes, Zenon DEF PodInv, TypeOK, IdleAdd
<1>1. UNCHANGED <<uids, ipam>> /\ ~Unused(k)
  BY DEF AddPort, AddCR, AddPatch, AddGet, AddFails, Unused
<1>2. Exclusive'
  BY <1>1 DEF PodInv, Exclusive
<1>3. CASE AddPort(k)
  <2>1. /\ add'[k].at = "cr" /\ add'[k].ip = add[k].ip
        /\ \A j \in Keys \ {k} : add'[j] = add[j]
    BY <1>0, <1>3, AddMoves DEF AddPort
  <2>2. /\ lsp'[k] = add[k].ip /\ \A j \in Keys \ {k} : lsp'[j] = lsp[j]
    BY <1>0, <1>3 DEF AddPort
  <2>3. \A j \in Keys \ {k} : Same(j)
    BY <1>3, <2>1, <2>2 DEF AddPort, Same
  <2>4. Served(k) => Served(k)'
    BY <1>3, <2>1, <2>2 DEF AddPort, Served, Cached, Spared, Underway, Holds
  <2> QED
    BY <1>1, <1>2, <1>3, <2>3, <2>4, OneKey DEF AddPort
<1>4. CASE AddCR(k)
  <2>1. UNCHANGED <<pods, podCache, crCache, ipam, lsp, del, upd, delQ,
                    marked, unsettled>> /\ add[k].at = "cr"
    BY <1>4 DEF AddCR
  <2>2. /\ \/ crs' = crs \/ crs' = [crs EXCEPT ![k] = LiveCR(add[k].ip)]
        /\ \/ add' = [add EXCEPT ![k].at = "patch"] /\ UNCHANGED addQ
           \/ Requeued(k)
        /\ updQ' = updQ \/ updQ' = updQ \cup {k}
    BY <1>4, Zenon DEF AddCR
  <2>3. /\ Served(k) => crs'[k].state \in {"none", "live"}
        /\ \A j \in Keys \ {k} : crs'[j] = crs[j]
    BY <1>0, <2>2 DEF LiveCR, Served, Spared
  <2>4. /\ \/ add'[k].at = "patch" /\ add'[k].ip = add[k].ip
           \/ add'[k].at = "idle" /\ k \in addQ'
        /\ \A j \in Keys \ {k} : add'[j] = add[j] /\ (j \in addQ' <=> j \in addQ)
    <3>1. CASE add' = [add EXCEPT ![k].at = "patch"] /\ UNCHANGED addQ
      BY <1>0, <3>1, AddMoves
    <3>2. CASE Requeued(k)
      BY <1>0, <3>2 DEF Requeued
    <3> QED
      BY <2>2, <3>1, <3>2
  <2>5. \A j \in Keys \ {k} : Same(j)
    BY <1>1, <2>1, <2>2, <2>3, <2>4 DEF Same
  <2>6. Served(k) => Served(k)'
    BY <2>1, <2>3, <2>4, Zenon DEF Served, Cached, Spared, Underway, Holds
  <2> QED
    BY <1>1, <1>2, <2>1, <2>5, <2>6, OneKey, Zenon
<1>5. CASE AddPatch(k)
  <2>1. /\ add[k].at = "patch"
        /\ UNCHANGED <<crs, podCache, crCache, lsp, addQ, updQ, del, upd,
                       marked, unsettled>>
    BY <1>5 DEF AddPatch
  <2>2. CASE pods[k] = NoPod
    <3>1. /\ UNCHANGED pods /\ add' = [add EXCEPT ![k] = IdleAdd]
          /\ delQ' = delQ \cup {k}
      BY <1>5, <2>2, Zenon DEF AddPatch, EnqueueDelete
    <3>2. pods'[k].alive = FALSE
      BY <2>2, <3>1 DEF NoPod
    <3>3. \A j \in Keys \ {k} : Same(j)
      BY <1>0, <1>1, <2>1, <3>1, Zenon DEF Same
    <3> QED
      BY <1>1, <1>2, <3>2, <3>3, OneKey, Zenon
  <2>3. CASE pods[k] # NoPod
    <3>1. /\ pods' = [pods EXCEPT ![k] = [pods[k] EXCEPT !.ip = add[k].ip,
                                                         !.alloc = TRUE]]
          /\ add' = [add EXCEPT ![k].at = "get"] /\ UNCHANGED delQ
      BY <1>5, <2>3, Zenon DEF AddPatch
    <3>2. /\ add'[k].at = "get" /\ add'[k].ip = add[k].ip
          /\ \A j \in Keys \ {k} : add'[j] = add[j]
      BY <1>0, <3>1, AddMoves
    <3>3. /\ pods'[k] = [pods[k] EXCEPT !.ip = add[k].ip, !.alloc = TRUE]
          /\ \A j \in Keys \ {k} : pods'[j] = pods[j]
      BY <1>0, <3>1, Zenon
    <3>4. /\ pods'[k].uid = pods[k].uid /\ pods'[k].alive = pods[k].alive
          /\ pods'[k].ip = add[k].ip /\ pods'[k].alloc = TRUE
      <4>1. pods[k] \in Pod
        BY <1>0
      <4> QED
        BY <3>3, <4>1, PodFields
    <3>5. \A j \in Keys \ {k} : Same(j)
      BY <1>1, <2>1, <3>1, <3>2, <3>3 DEF Same
    <3>6. ASSUME Served(k) PROVE Served(k)'
      <4>1. Cached(k)'
        BY <2>1, <3>4, <3>6, Zenon DEF Served, Cached, Underway, Holds
      <4>2. Spared(k)'
        BY <2>1, <3>1, <3>6 DEF Served, Spared
      <4>3. Underway(k)' /\ Holds(k)'
        BY <1>1, <2>1, <3>2, <3>4, <3>6, Zenon DEF Served, Underway, Holds
      <4> QED
        BY <4>1, <4>2, <4>3 DEF Served
    <3> QED
      BY <1>1, <1>2, <3>4, <3>5, <3>6, OneKey, Zenon
  <2> QED
    BY <2>2, <2>3
<1>6. CASE AddGet(k)
  <2>1. /\ add[k].at = "get" /\ add' = [add EXCEPT ![k] = IdleAdd]
        /\ UNCHANGED <<pods, crs, podCache, crCache, lsp, addQ, updQ, del, upd,
                       marked, unsettled>>
        /\ UNCHANGED delQ \/ (pods[k] = NoPod /\ delQ' = delQ \cup {k})
    BY <1>6, Zenon DEF AddGet, EnqueueDelete
  <2>2. \A j \in Keys \ {k} : Same(j)
    BY <1>0, <1>1, <2>1, Zenon DEF Same
  <2>3. pods'[k].alive /\ Served(k) => Served(k)'
    <3>1. pods'[k].alive => UNCHANGED delQ
      BY <2>1, EmptyFields, Zenon
    <3>2. add'[k].at = "idle"
      BY <1>0, <2>1
    <3> QED
      BY <1>1, <2>1, <3>1, <3>2, Zenon DEF Served, Cached, Spared, Underway, Holds
  <2> QED
    BY <1>1, <1>2, <2>1, <2>2, <2>3, OneKey
<1>7. CASE AddFails(k)
  <2>1. /\ add'[k].at = "idle" /\ k \in addQ'
        /\ \A j \in Keys \ {k} : add'[j] = add[j] /\ (j \in addQ' <=> j \in addQ)
    BY <1>0, <1>7, Zenon DEF AddFails, Requeued
  <2>2. \A j \in Keys \ {k} : Same(j)
    BY <1>7, <2>1, Zenon DEF AddFails, Same
  <2>3. Served(k) => Served(k)'
    BY <1>7, <2>1, Zenon DEF AddFails, Served, Cached, Spared, Underway, Holds
  <2> QED
    BY <1>1, <1>2, <1>7, <2>2, <2>3, OneKey, Zenon DEF AddFails
<1> QED
  BY <1>3, <1>4, <1>5, <1>6, <1>7

LEMMA InvDel ==
  ASSUME PodInv, NEW k \in Keys,
         DelLoad(k) \/ DelPort(k) \/ DelCR(k) \/ DelRelease(k) \/ DelFails(k)
  PROVE  Exclusive' /\ \A j \in Keys : KeyInv(j)'
<1> USE DEF api, caches, loops
<1>0. /\ del \in [Keys -> DelWork] /\ crs \in [Keys -> CR]
      /\ ipam \in [Keys -> Addresses \cup {NoIP}]
      /\ lsp \in [Keys -> Addresses \cup {NoIP}]
  BY WorkTypes, Zenon DEF PodInv, TypeOK
<1>1. /\ UNCHANGED <<pods, uids>> /\ ~Unused(k) /\ ~Served(k)
  BY Zenon DEF DelLoad, DelPort, DelCR, DelRelease, DelFails, Unused, Served, Spared
<1>2. ASSUME NEW j \in Keys \ {k} PROVE Same(j)
  <2>1. CASE DelLoad(k)
    BY <1>0, <2>1, Zenon DEF DelLoad, Same
  <2>2. CASE DelPort(k)
    BY <1>0, <2>2 DEF DelPort, DelDone, Same
  <2>3. CASE DelCR(k)
    BY <1>0, <2>3 DEF DelCR, DelDone, Same
  <2>4. CASE DelRelease(k)
    BY <1>0, <2>4, Zenon DEF DelRelease, DelDone, Same
  <2>5. CASE DelFails(k)
    BY <1>0, <2>5, Zenon DEF DelFails, Same
  <2> QED
    BY <2>1, <2>2, <2>3, <2>4, <2>5
<1>3. Exclusive'
  <2>1. ipam' = ipam \/ ipam'[k] = NoIP
    <3>1. ipam' = ipam \/ ipam' = [ipam EXCEPT ![k] = NoIP]
      BY Zenon DEF DelLoad, DelPort, DelCR, DelRelease, DelFails
    <3> QED
      BY <1>0, <3>1
  <2>2. \A j \in Keys \ {k} : ipam'[j] = ipam[j]
    BY <1>2, Zenon DEF Same
  <2>3. CASE ipam' = ipam
    BY <2>3 DEF PodInv, Exclusive
  <2>4. CASE ipam'[k] = NoIP
    BY <2>2, <2>4, ExclusiveKept
  <2> QED
    BY <2>1, <2>3, <2>4
<1> QED
  BY <1>1, <1>2, <1>3, OneKey

LEMMA InvUpd ==
  ASSUME PodInv, NEW k \in Keys,
         UpdPort(k) \/ UpdRelease(k) \/ UpdFinalizer(k) \/ UpdFails(k)
  PROVE  Exclusive' /\ \A j \in Keys : KeyInv(j)'
<1> USE DEF api, caches, queues, loops
<1>0. /\ upd \in [Keys -> {"idle", "release", "finalizer"}] /\ crs \in [Keys -> CR]
      /\ ipam \in [Keys -> Addresses \cup {NoIP}]
      /\ lsp \in [Keys -> Addresses \cup {NoIP}]
  BY DEF PodInv, TypeOK
<1>1. UNCHANGED <<pods, uids>> /\ ~Unused(k)
  BY Zenon DEF UpdPort, UpdRelease, UpdFinalizer, UpdFails, Unused
<1>2. ASSUME NEW j \in Keys \ {k} PROVE Same(j)
  BY <1>0, Zenon DEF UpdPort, UpdRelease, UpdFinalizer, UpdFails, Same
<1>3. Served(k) => Served(k)'
  <2>1. Served(k) => UpdPort(k) /\ crCache[k].state # "deleting"
    BY Zenon DEF UpdRelease, UpdFinalizer, UpdFails, Served, Spared
  <2> QED
    BY <2>1, Zenon DEF UpdPort, Served, Cached, Spared, Underway, Holds
<1>4. Exclusive'
  <2>1. ipam' = ipam \/ ipam'[k] = NoIP
    BY <1>0, Zenon DEF UpdPort, UpdRelease, UpdFinalizer, UpdFails
  <2>2. \A j \in Keys \ {k} : ipam'[j] = ipam[j]
    BY <1>2, Zenon DEF Same
  <2>3. CASE ipam' = ipam
    BY <2>3 DEF PodInv, Exclusive
  <2>4. CASE ipam'[k] = NoIP
    BY <2>2, <2>4, ExclusiveKept, Zenon
  <2> QED
    BY <2>1, <2>3, <2>4
<1> QED
  BY <1>1, <1>2, <1>3, <1>4, OneKey

LEMMA InvInspect ==
  ASSUME PodInv, NEW k \in Keys, Settle(k) \/ inspectPod(k)
  PROVE  Exclusive' /\ \A j \in Keys : KeyInv(j)'
<1> USE DEF api, caches, queues, workers, loops
<1>1. UNCHANGED <<ipam, uids>>
  BY DEF Settle, inspectPod
<1>2. Exclusive'
  BY <1>1 DEF PodInv, Exclusive
<1>3. CASE Settle(k)
  <2>1. \A j \in Keys \ {k} : Same(j)
    BY <1>3, Zenon DEF Settle, Same
  <2>2. Unused(k) => Unused(k)'
    BY <1>3, Zenon DEF Settle, Unused
  <2>3. ASSUME Served(k) PROVE Served(k)'
    <3>1. podCache[k].alloc
      <4>1. podCache[k] = pods[k] /\ add[k].at = "idle" /\ k \notin addQ
        BY <1>3, EmptyFields, Zenon DEF Settle, AtRest
      <4> QED
        BY <2>3, <4>1, Zenon DEF Served, Underway
    <3> QED
      BY <1>3, <2>3, <3>1, Zenon
      DEF Settle, Served, Cached, Spared, Underway, Holds
  <2>4. KeyInv(k)'
    BY <1>3, <2>2, <2>3, Zenon DEF PodInv, KeyInv, Settle
  <2> QED
    BY <1>2, <2>1, <2>4, Frame DEF PodInv
<1>4. CASE inspectPod(k)
  <2>1. podCache[k].alive /\ podCache[k].alloc /\ lsp[k] = NoIP
    BY <1>4 DEF inspectPod, PortLost, Allocated
  <2>2. ~Unused(k) /\ ~Served(k)
    <3>1. ~Unused(k)
      BY <2>1, EmptyFields, Zenon DEF Unused
    <3>2. ~Served(k)
      BY <2>1, Zenon DEF Served, Cached, Holds
    <3> QED
      BY <3>1, <3>2
  <2>3. pods[k] \in Pod /\ pods \in [Keys -> Pod]
    BY Zenon DEF PodInv, TypeOK
  <2>4. /\ pods'[k] = [pods[k] EXCEPT !.alloc = FALSE]
        /\ \A j \in Keys \ {k} : pods'[j] = pods[j]
    BY <1>4, <2>3, Zenon DEF inspectPod
  <2>5. pods'[k].alive = pods[k].alive
    BY <2>3, <2>4, PodFields
  <2>6. \A j \in Keys \ {k} : Same(j)
    BY <1>4, <2>4 DEF inspectPod, Same
  <2> QED
    BY <1>1, <1>2, <2>2, <2>5, <2>6, OneKey, Zenon
<1> QED
  BY <1>3, <1>4

\* The port GC dooms no port of a live pod.
LEMMA InvMarkAndClean ==
  ASSUME UsedOnce, PodInv, markAndCleanLSP
  PROVE  Exclusive' /\ \A j \in Keys : KeyInv(j)'
<1> USE DEF caches, queues, workers
<1> DEFINE noPod == {k \in Keys : lsp[k] # NoIP} \ PodPorts
           doomed == Doomed(noPod)
<1>1. /\ unsettled = {} /\ marked' = noPod \ marked /\ unsettled' = marked'
      /\ lsp' = [k \in Keys |-> IF k \in doomed THEN NoIP ELSE lsp[k]]
      /\ crs' = [k \in Keys |-> IF k \in doomed THEN DeletedCR(crs[k]) ELSE crs[k]]
      /\ ipam' = [k \in Keys |->
                    IF k \in doomed /\ crs[k] # NoCR THEN NoIP ELSE ipam[k]]
      /\ UNCHANGED <<pods, uids, podCache, crCache, addQ, delQ, updQ, add, del,
                     upd>>
  BY Zenon DEF markAndCleanLSP
<1>2. Exclusive'
  BY <1>1, Zenon DEF PodInv, Exclusive
<1>3. ASSUME NEW j \in Keys PROVE KeyInv(j)'
  <2>1. KeyInv(j)
    BY DEF PodInv
  <2>2. j \in doomed => lsp[j] # NoIP /\ j \notin PodPorts /\ j \in marked
    BY DEF Doomed
  <2>3. j \notin doomed =>
          lsp'[j] = lsp[j] /\ crs'[j] = crs[j] /\ ipam'[j] = ipam[j]
    BY <1>1, Zenon
  <2>4. ASSUME Unused(j) PROVE Unused(j)'
    <3>1. j \notin doomed /\ j \notin marked'
      BY <1>1, <2>2, <2>4, Zenon DEF Unused
    <3> QED
      BY <1>1, <2>3, <2>4, <3>1, Zenon DEF Unused
  <2>5. ASSUME Served(j) PROVE Served(j)'
    <3>1. j \in marked => j \in PodPorts
      BY <1>1, <2>5, Zenon
      DEF Served, Cached, Spared, PodPorts, ToDelete, IsSts, UsedOnce
    <3>2. j \notin doomed /\ (j \in marked' => j \in unsettled')
      BY <1>1, <2>2, <3>1, Zenon
    <3> QED
      BY <1>1, <2>3, <2>5, <3>2, Zenon DEF Served, Cached, Spared, Underway, Holds
  <2> QED
    BY <1>1, <2>1, <2>4, <2>5, Zenon DEF KeyInv
<1> QED
  BY <1>2, <1>3

LEMMA InvGcIP ==
  ASSUME UsedOnce, PodInv, gcIP
  PROVE  Exclusive' /\ \A j \in Keys : KeyInv(j)'
<1> USE DEF caches, queues, workers
<1>1. Exclusive'
  BY Zenon DEF gcIP, PodInv, Exclusive
<1>2. ASSUME NEW j \in Keys PROVE KeyInv(j)'
  <2>1. KeyInv(j)
    BY DEF PodInv
  <2>2. crCache[j] = NoCR \/ podCache[j] # NoPod => crs'[j] = crs[j]
    BY Zenon DEF gcIP, OwnerExists, IsSts, UsedOnce
  <2>3. Unused(j) => Unused(j)'
    BY <2>2, Zenon DEF gcIP, Unused
  <2>4. Served(j) => Served(j)'
    <3>1. Served(j) => podCache[j] # NoPod
      BY EmptyFields, Zenon DEF Served, Cached
    <3> QED
      BY <2>2, <3>1, Zenon DEF gcIP, Served, Cached, Spared, Underway, Holds
  <2> QED
    BY <2>1, <2>3, <2>4, Zenon DEF gcIP, KeyInv
<1> QED
  BY <1>1, <1>2

\* Only live allocated pods claim addresses at the start-up, and each claims
\* the one it holds.
LEMMA Claims ==
  ASSUME UsedOnce, PodInv, NEW k \in Keys
  PROVE  /\ CRClaim(k) = NoIP /\ Claim(k) = PodClaim(k)
         /\ Claim(k) # NoIP => pods[k].alive /\ pods[k].alloc
         /\ pods[k].alive /\ pods[k].alloc =>
               /\ Claim(k) = pods[k].ip /\ Claim(k) = ipam[k]
               /\ lsp[k] = ipam[k] /\ Claim(k) # NoIP
<1>1. CRClaim(k) = NoIP /\ Claim(k) = PodClaim(k)
  BY Zenon DEF CRClaim, Claim, IsSts, UsedOnce
<1>2. PodClaim(k) = IF pods[k].alloc /\ pods[k].alive THEN pods[k].ip ELSE NoIP
  BY Zenon DEF PodClaim, IsSts, UsedOnce
<1>3. ASSUME pods[k].alive, pods[k].alloc
      PROVE  pods[k].ip = ipam[k] /\ lsp[k] = ipam[k] /\ ipam[k] # NoIP
  BY <1>3, Zenon DEF PodInv, KeyInv, Served, Holds
<1> QED
  BY <1>1, <1>2, <1>3, Zenon

\* So no live allocated pod finds its address taken.
LEMMA ClaimsGranted ==
  ASSUME UsedOnce, PodInv, NEW leases, InitIPAM(leases), NEW k \in Keys
  PROVE  leases[k] = Claim(k)
<1>1. leases[k] \in {Claim(k), NoIP}
  BY DEF InitIPAM
<1>2. ASSUME leases[k] = NoIP, Claim(k) # NoIP PROVE FALSE
  <2>1. PICK j \in Keys : leases[j] = Claim(k)
    BY <1>2, Zenon DEF InitIPAM
  <2>2. leases[j] = Claim(j) /\ Claim(j) # NoIP
    BY <1>2, <2>1 DEF InitIPAM
  <2>3. Claim(j) = ipam[j] /\ Claim(k) = ipam[k]
    BY <1>2, <2>2, Claims
  <2>4. j = k
    BY <1>2, <2>1, <2>2, <2>3, Zenon DEF PodInv, Exclusive
  <2> QED
    BY <1>2, <2>1, <2>4
<1> QED
  BY <1>1, <1>2

LEMMA InvRestart ==
  ASSUME UsedOnce, PodInv, Restart
  PROVE  Exclusive' /\ \A j \in Keys : KeyInv(j)'
<1>1. PICK leases \in [Keys -> Addresses \cup {NoIP}] :
        /\ InitIPAM(leases) /\ ipam' = leases
        /\ crs' = [k \in Keys |-> RestoredCR(k, leases)]
  BY Zenon DEF Restart
<1>2. Exclusive'
  BY <1>1 DEF InitIPAM, Exclusive
<1>3. /\ UNCHANGED <<pods, uids, lsp>> /\ podCache' = pods /\ crCache' = crs
      /\ addQ' = {k \in Keys : pods[k].alive /\ ~pods[k].alloc}
      /\ \A k \in delQ' : pods[k] # NoPod /\ ~pods[k].alive
      /\ updQ' = {k \in Keys : crs[k].state = "deleting"}
      /\ \A k \in Keys : add'[k] = IdleAdd /\ del'[k] = IdleDel /\ upd'[k] = "idle"
      /\ marked' = {}
  BY Zenon DEF Restart
<1>4. IdleAdd.at = "idle" /\ IdleDel.at = "idle"
  BY DEF IdleAdd, IdleDel
<1>5. ASSUME NEW j \in Keys PROVE KeyInv(j)'
  <2>1. KeyInv(j) /\ NoPod.alive = FALSE /\ NoCR.state = "none"
    BY Zenon DEF PodInv, NoPod, NoCR
  <2>2. ipam'[j] = Claim(j)
    BY <1>1, ClaimsGranted
  <2>3. crs'[j] = crs[j] \/ (crs'[j] = LiveCR(ipam'[j]) /\ Claim(j) # NoIP)
    BY <1>1, Claims, Zenon DEF RestoredCR
  <2>4. ASSUME pods[j] = NoPod, Unused(j) PROVE Unused(j)'
    <3>1. Claim(j) = NoIP
      BY <2>1, <2>4, Claims
    <3> QED
      BY <1>3, <1>4, <2>1, <2>2, <2>3, <2>4, <3>1, Zenon DEF Unused
  <2>5. ASSUME pods[j].alive PROVE Served(j)'
    <3>1. crs[j].state \in {"none", "live"}
      BY <2>1, <2>5, Zenon DEF KeyInv, Unused, Served, Spared
    <3>2. crs'[j].state \in {"none", "live"}
      BY <2>3, <3>1, EmptyFields, Zenon
    <3>3. Cached(j)' /\ Spared(j)'
      BY <1>3, <1>4, <2>5, <3>1, <3>2, Zenon DEF Cached, Spared
    <3>4. Underway(j)'
      BY <1>3, <1>4, <2>5, Zenon DEF Underway
    <3>5. Holds(j)'
      BY <1>3, <2>2, <2>5, Claims, Zenon DEF Holds
    <3> QED
      BY <3>3, <3>4, <3>5 DEF Served
  <2> QED
    BY <1>3, <2>1, <2>4, <2>5, Zenon DEF KeyInv
<1> QED
  BY <1>2, <1>5

-----------------------------------------------------------------------------
(* What follows *)

LEMMA PodInvStep == ASSUME UsedOnce PROVE PodInv /\ [Next]_vars => PodInv'
<1> SUFFICES ASSUME PodInv, [Next]_vars PROVE PodInv'
  OBVIOUS
<1>1. TypeOK'
  BY TypeStep DEF PodInv
<1>2. CASE UNCHANGED vars
  <2>1. Exclusive' /\ \A k \in Keys : Same(k)
    BY <1>2, Zenon
    DEF vars, api, caches, queues, workers, loops, PodInv, Exclusive, Same
  <2> QED
    BY <1>1, <2>1, Frame DEF PodInv
<1>3. CASE Next
  <2>1. Exclusive' /\ \A j \in Keys : KeyInv(j)'
    BY <1>3, InvUsers, InvEvents, InvAcquire, InvAdd, InvDel, InvUpd,
       InvInspect, InvMarkAndClean, InvGcIP, InvRestart, Zenon
    DEF Next, Controller
  <2> QED
    BY <1>1, <2>1 DEF PodInv
<1> QED
  BY <1>2, <1>3

LEMMA PodInvImplies ==
  PodInv => AllocatedConnected /\ LiveExclusive
<1> SUFFICES ASSUME PodInv PROVE AllocatedConnected /\ LiveExclusive
  OBVIOUS
<1>1. ASSUME NEW k \in Keys, Allocated(pods[k])
      PROVE  pods[k].ip = ipam[k] /\ lsp[k] = ipam[k] /\ ipam[k] # NoIP
             /\ pods[k].alloc
  BY <1>1, Zenon DEF Allocated, PodInv, KeyInv, Served, Holds
<1>2. AllocatedConnected
  BY <1>1 DEF AllocatedConnected, Connected
<1>3. LiveExclusive
  BY <1>1 DEF LiveExclusive, PodInv, Exclusive
<1> QED
  BY <1>2, <1>3

LEMMA PodInvAlways == ASSUME UsedOnce PROVE Spec => []PodInv
BY PodInvInit, PodInvStep, PTL DEF Spec

\* A live pod whose name is used once and that is told its address has its
\* lease and its port, whatever crashes, failed calls and stale caches the
\* handlers meet, and with the port GC running or not.
THEOREM AlwaysConnected == ASSUME UsedOnce PROVE Spec => []AllocatedConnected
<1>1. PodInv => AllocatedConnected
  BY PodInvImplies
<1> QED
  BY <1>1, PodInvAlways, PTL

\* No two such pods are told the same address: the start-up restores every
\* lease from the annotations before it hands out another.
THEOREM AlwaysExclusive == ASSUME UsedOnce PROVE Spec => []LiveExclusive
<1>1. PodInv => LiveExclusive
  BY PodInvImplies
<1> QED
  BY <1>1, PodInvAlways, PTL

-----------------------------------------------------------------------------
(* The address of a StatefulSet pod *)

\* No two StatefulSet pods' live IP CRs record one address.  Start-up restores
\* the leases of StatefulSets from these records before all others.
RecordsApart ==
    \A j, k \in StsKeys :
       j # k /\ Live(crs[j]) /\ Live(crs[k]) => crs[j].ip # crs[k].ip

\* The lease of k is what its CR records, and no pod, cached pod or handler
\* says otherwise; the CR is there before a pod is told the address.
Agreed(k) ==
    /\ Live(crs[k]) => crs[k].ip = ipam[k] /\ ipam[k] # NoIP
    /\ Live(crCache[k]) => Live(crs[k])
    /\ add[k].at # "idle" => add[k].ip = ipam[k] /\ ipam[k] # NoIP
    /\ add[k].at \in {"patch", "get"} => Live(crs[k])
    /\ pods[k].ip # NoIP => Live(crs[k]) /\ pods[k].ip = ipam[k]
    /\ podCache[k].ip # NoIP => Live(crs[k]) /\ podCache[k].ip = ipam[k]

\* No handler that takes an address back gets further than the check of the
\* StatefulSet.
Undisturbed(k) ==
    /\ crs[k].state \in {"none", "live"} /\ crCache[k].state \in {"none", "live"}
    /\ del[k].at \in {"idle", "locking"} /\ upd[k] = "idle"

\* What holds of a name while its StatefulSet exists.
StsInv(k) == Agreed(k) /\ Undisturbed(k)

\* What a step owes to such a name.
Retains(k) ==
    StsInv(k)' /\ (Live(crs[k]) /\ ipam[k] # NoIP => ipam'[k] = ipam[k])

\* A step leaves alone all that StsInv is about.
Still(k) ==
    /\ crs'[k] = crs[k] /\ crCache'[k] = crCache[k] /\ ipam'[k] = ipam[k]
    /\ pods'[k].ip = pods[k].ip /\ podCache'[k].ip = podCache[k].ip
    /\ add'[k] = add[k] /\ del'[k].at = del[k].at /\ upd'[k] = upd[k]

LEMMA StillRetains ==
  ASSUME NEW k, StsInv(k), Still(k)
  PROVE  Retains(k)
BY Zenon DEF StsInv, Agreed, Undisturbed, Still, Retains, Live

\* What a step needs of the types.
LEMMA VariableTypes ==
  ASSUME TypeOK
  PROVE  /\ pods \in [Keys -> Pod] /\ podCache \in [Keys -> Pod]
         /\ crs \in [Keys -> CR] /\ crCache \in [Keys -> CR]
         /\ ipam \in [Keys -> Addresses \cup {NoIP}]
         /\ add \in [Keys -> AddWork] /\ del \in [Keys -> DelWork]
         /\ upd \in [Keys -> {"idle", "release", "finalizer"}]
<1>1. add \in [Keys -> AddWork] /\ del \in [Keys -> DelWork]
  BY WorkTypes
<1> QED
  BY <1>1, Zenon DEF TypeOK

\* A step of one name leaves the others alone.
LEMMA OthersStill ==
  ASSUME TypeOK, NEW j \in Keys, NEW k \in Keys \ {j},
         \/ CreatePod(j) \/ StopPod(j) \/ RemovePod(j) \/ DeleteStatefulSet(j)
         \/ Controller(j) \/ AddFails(j) \/ DelFails(j) \/ UpdFails(j)
  PROVE  Still(k)
<1> USE DEF api, caches, queues, workers, loops
<1>0. /\ pods \in [Keys -> Pod] /\ podCache \in [Keys -> Pod]
      /\ crs \in [Keys -> CR] /\ crCache \in [Keys -> CR]
      /\ ipam \in [Keys -> Addresses \cup {NoIP}]
      /\ add \in [Keys -> AddWork] /\ del \in [Keys -> DelWork]
      /\ upd \in [Keys -> {"idle", "release", "finalizer"}]
  BY VariableTypes, Zenon
<1>1. CASE CreatePod(j) \/ StopPod(j) \/ RemovePod(j) \/ DeleteStatefulSet(j)
  BY <1>0, <1>1, Zenon DEF CreatePod, StopPod, RemovePod, DeleteStatefulSet, Still
<1>2. CASE PodEvent(j) \/ CREvent(j) \/ Settle(j) \/ inspectPod(j)
  BY <1>0, <1>2, Zenon DEF PodEvent, CREvent, Settle, inspectPod, Still
<1>3. CASE AddAcquire(j) \/ AddPort(j) \/ AddPatch(j) \/ AddGet(j) \/ AddFails(j)
  BY <1>0, <1>3, Zenon
  DEF AddAcquire, AddPort, AddPatch, AddGet, AddFails, Requeued, Still
<1>4. CASE AddCR(j)
  BY <1>0, <1>4, Zenon DEF AddCR, Requeued, Still
<1>5. CASE DelLoad(j) \/ DelPort(j) \/ DelCR(j) \/ DelRelease(j) \/ DelFails(j)
  BY <1>0, <1>5, Zenon
  DEF DelLoad, DelPort, DelCR, DelRelease, DelFails, DelDone, Still
<1>6. CASE UpdPort(j) \/ UpdRelease(j) \/ UpdFinalizer(j) \/ UpdFails(j)
  BY <1>0, <1>6, Zenon DEF UpdPort, UpdRelease, UpdFinalizer, UpdFails, Still
<1> QED
  BY <1>1, <1>2, <1>3, <1>4, <1>5, <1>6, Zenon DEF Controller


\* The users of k itself: a new pod asks for no address.
LEMMA StsUsers ==
  ASSUME TypeOK, Requests \subseteq {NoIP}, NEW k \in StsKeys, StsInv(k),
         CreatePod(k) \/ StopPod(k) \/ RemovePod(k) \/ DeleteStatefulSet(k)
  PROVE  Retains(k)
<1> USE DEF caches, queues, workers, loops
<1>0. k \in Keys /\ pods \in [Keys -> Pod] /\ NoPod.ip = NoIP
  BY VariableTypes, ConstantsAssumption, Zenon DEF NoPod
<1>1. ~StopPod(k)
  BY Zenon DEF StopPod, IsSts
<1>2. pods'[k].ip \in {NoIP, pods[k].ip}
  <2>1. CASE CreatePod(k)
    <3>1. PICK r \in Requests :
            pods' = [pods EXCEPT ![k] = [uid |-> uids[k] + 1, alive |-> TRUE,
                                         ip |-> r, alloc |-> FALSE]]
      BY <2>1, Zenon DEF CreatePod
    <3> QED
      BY <1>0, <3>1
  <2>2. CASE RemovePod(k)
    BY <1>0, <2>2 DEF RemovePod
  <2>3. CASE DeleteStatefulSet(k)
    BY <2>3, Zenon DEF DeleteStatefulSet
  <2> QED
    BY <1>1, <2>1, <2>2, <2>3
<1>3. UNCHANGED <<crs, crCache, podCache, ipam, add, del, upd>>
  BY <1>1, Zenon DEF CreatePod, RemovePod, DeleteStatefulSet
<1> QED
  BY <1>2, <1>3, Zenon DEF StsInv, Agreed, Undisturbed, Retains, Live

LEMMA StsEvents ==
  ASSUME TypeOK, NEW k \in StsKeys, StsInv(k),
         PodEvent(k) \/ CREvent(k) \/ Settle(k) \/ inspectPod(k)
  PROVE  Retains(k)
<1> USE DEF api, caches, queues, workers, loops
<1>0. /\ k \in Keys /\ NoPod.ip = NoIP
      /\ pods \in [Keys -> Pod] /\ podCache \in [Keys -> Pod]
      /\ crCache \in [Keys -> CR]
  BY VariableTypes, ConstantsAssumption, Zenon DEF NoPod
<1>1. CASE PodEvent(k)
  <2>1. podCache'[k] = pods[k] \/ podCache'[k] = NoPod
    BY <1>0, <1>1, Zenon DEF PodEvent
  <2>2. UNCHANGED <<crs, crCache, pods, ipam, add, del, upd>>
    BY <1>1, Zenon DEF PodEvent
  <2> QED
    BY <1>0, <2>1, <2>2, Zenon DEF StsInv, Agreed, Undisturbed, Retains, Live
<1>2. CASE CREvent(k)
  <2>1. crCache'[k] = crs[k]
    BY <1>0, <1>2, Zenon DEF CREvent
  <2>2. UNCHANGED <<crs, podCache, pods, ipam, add, del, upd>>
    BY <1>2, Zenon DEF CREvent
  <2> QED
    BY <2>1, <2>2, Zenon DEF StsInv, Agreed, Undisturbed, Retains, Live
<1>3. CASE Settle(k)
  <2>1. Still(k)
    BY <1>3, Zenon DEF Settle, Still
  <2> QED
    BY <2>1, StillRetains, Zenon
<1>4. CASE inspectPod(k)
  <2>1. pods'[k].ip = pods[k].ip
    BY <1>0, <1>4 DEF inspectPod, Pod
  <2>2. Still(k)
    BY <1>4, <2>1, Zenon DEF inspectPod, Still
  <2> QED
    BY <2>2, StillRetains, Zenon
<1> QED
  BY <1>1, <1>2, <1>3, <1>4

\* What k acquires is the lease it has.
LEMMA StsAcquired ==
  ASSUME TypeOK, NEW k \in StsKeys, StsInv(k), NEW a \in Acquirable(k, podCache[k])
  PROVE  a # NoIP /\ (ipam[k] # NoIP => a = ipam[k])
<1>1. CASE podCache[k].ip # NoIP
  BY <1>1 DEF Acquirable, StsInv, Agreed
<1>2. CASE podCache[k].ip = NoIP /\ ipam[k] # NoIP
  BY <1>2 DEF Acquirable
<1>3. CASE podCache[k].ip = NoIP /\ ipam[k] = NoIP
  BY <1>3, ConstantsAssumption DEF Acquirable
<1> QED
  BY <1>1, <1>2, <1>3

LEMMA StsAdd ==
  ASSUME TypeOK, NEW k \in StsKeys, StsInv(k),
         \/ AddAcquire(k) \/ AddPort(k) \/ AddCR(k) \/ AddPatch(k) \/ AddGet(k)
         \/ AddFails(k)
  PROVE  Retains(k)
<1> USE DEF api, caches, queues, loops
<1>0. /\ k \in Keys /\ add \in [Keys -> AddWork] /\ IdleAdd.at = "idle"
      /\ pods \in [Keys -> Pod] /\ crs \in [Keys -> CR]
      /\ ipam \in [Keys -> Addresses \cup {NoIP}]
  BY VariableTypes, EmptyFields, ConstantsAssumption, Zenon
<1>1. CASE AddAcquire(k)
  <2>1. CASE ~podCache[k].alive \/ podCache[k].alloc
    <3>1. Still(k)
      BY <1>1, <2>1, Zenon DEF AddAcquire, Still
    <3> QED
      BY <3>1, StillRetains, Zenon
  <2>2. CASE ~(~podCache[k].alive \/ podCache[k].alloc)
    <3>1. PICK a \in Acquirable(k, podCache[k]) :
            /\ ipam' = [ipam EXCEPT ![k] = a]
            /\ add' = [add EXCEPT ![k] =
                         [at |-> "port", uid |-> podCache[k].uid, ip |-> a]]
      BY <1>1, <2>2, Zenon DEF AddAcquire
    <3>2. ipam'[k] = a /\ add'[k].at = "port" /\ add'[k].ip = a
      BY <1>0, <3>1
    <3>3. a # NoIP /\ (ipam[k] # NoIP => a = ipam[k])
      BY StsAcquired
    <3>4. UNCHANGED <<crs, crCache, podCache, pods, del, upd>>
      BY <1>1, Zenon DEF AddAcquire
    <3> QED
      BY <1>0, <3>2, <3>3, <3>4, Zenon
      DEF StsInv, Agreed, Undisturbed, Retains, Live
  <2> QED
    BY <2>1, <2>2
<1>2. CASE AddPort(k)
  <2>1. add'[k].at = "cr" /\ add'[k].ip = add[k].ip /\ add[k].at = "port"
    BY <1>0, <1>2, AddMoves DEF AddPort
  <2>2. UNCHANGED <<crs, crCache, podCache, pods, ipam, del, upd>>
    BY <1>2, Zenon DEF AddPort
  <2> QED
    BY <2>1, <2>2, Zenon DEF StsInv, Agreed, Undisturbed, Retains, Live
<1>3. CASE AddCR(k)
  <2>1. UNCHANGED <<pods, podCache, crCache, ipam, del, upd>> /\ add[k].at = "cr"
    BY <1>3, Zenon DEF AddCR
  <2>2. \/ crs' = crs /\ Requeued(k)
        \/ /\ add' = [add EXCEPT ![k].at = "patch"]
           /\ crs' = crs /\ Live(crCache[k])
        \/ /\ add' = [add EXCEPT ![k].at = "patch"]
           /\ crs' = [crs EXCEPT ![k] = LiveCR(add[k].ip)]
    BY <1>3, Zenon DEF AddCR, StsInv, Undisturbed
  <2>3. CASE crs' = crs /\ Requeued(k)
    <3>1. add'[k].at = "idle"
      BY <1>0, <2>3, Zenon DEF Requeued
    <3> QED
      BY <2>1, <2>3, <3>1, Zenon DEF StsInv, Agreed, Undisturbed, Retains, Live
  <2>4. CASE add' = [add EXCEPT ![k].at = "patch"] /\ crs' = crs /\ Live(crCache[k])
    <3>1. add'[k].at = "patch" /\ add'[k].ip = add[k].ip
      BY <1>0, <2>4, AddMoves
    <3> QED
      BY <2>1, <2>4, <3>1, Zenon DEF StsInv, Agreed, Undisturbed, Retains, Live
  <2>5. CASE /\ add' = [add EXCEPT ![k].at = "patch"]
             /\ crs' = [crs EXCEPT ![k] = LiveCR(add[k].ip)]
    <3>1. add'[k].at = "patch" /\ add'[k].ip = add[k].ip
      BY <1>0, <2>5, AddMoves
    <3>2. crs'[k].state = "live" /\ crs'[k].ip = add[k].ip
      BY <1>0, <2>5 DEF LiveCR
    <3> QED
      BY <2>1, <3>1, <3>2, Zenon DEF StsInv, Agreed, Undisturbed, Retains, Live
  <2> QED
    BY <2>2, <2>3, <2>4, <2>5
<1>4. CASE AddPatch(k)
  <2>1. /\ add[k].at = "patch"
        /\ UNCHANGED <<crs, podCache, crCache, ipam, del, upd>>
    BY <1>4, Zenon DEF AddPatch
  <2>2. CASE pods[k] = NoPod
    <3>1. pods' = pods /\ add'[k].at = "idle"
      BY <1>0, <1>4, <2>2, Zenon DEF AddPatch
    <3> QED
      BY <2>1, <3>1, Zenon DEF StsInv, Agreed, Undisturbed, Retains, Live
  <2>3. CASE pods[k] # NoPod
    <3>1. add'[k].at = "get" /\ add'[k].ip = add[k].ip
      BY <1>0, <1>4, <2>3, AddMoves DEF AddPatch
    <3>2. pods'[k] = [pods[k] EXCEPT !.ip = add[k].ip, !.alloc = TRUE]
      BY <1>0, <1>4, <2>3, Zenon DEF AddPatch
    <3>3. pods'[k].ip = add[k].ip
      <4>1. pods[k] \in Pod
        BY <1>0
      <4> QED
        BY <3>2, <4>1, PodFields
    <3> QED
      BY <2>1, <3>1, <3>3, Zenon DEF StsInv, Agreed, Undisturbed, Retains, Live
  <2> QED
    BY <2>2, <2>3
<1>5. CASE AddGet(k) \/ AddFails(k)
  <2>1. add'[k].at = "idle"
    BY <1>0, <1>5, Zenon DEF AddGet, AddFails, Requeued
  <2>2. UNCHANGED <<crs, crCache, podCache, pods, ipam, del, upd>>
    BY <1>5, Zenon DEF AddGet, AddFails
  <2> QED
    BY <2>1, <2>2, Zenon DEF StsInv, Agreed, Undisturbed, Retains, Live
<1> QED
  BY <1>1, <1>2, <1>3, <1>4, <1>5


\* The handlers that take back what k has find its StatefulSet and stop.
LEMMA StsDel ==
  ASSUME TypeOK, NEW k \in StsKeys, k \in owners, StsInv(k),
         DelLoad(k) \/ DelPort(k) \/ DelCR(k) \/ DelRelease(k) \/ DelFails(k)
  PROVE  Retains(k)
<1> USE DEF api, caches, loops
<1>0. /\ k \in Keys /\ del \in [Keys -> DelWork] /\ IdleDel.at = "idle"
  BY VariableTypes, EmptyFields, ConstantsAssumption, Zenon
<1>1. DelLoad(k) \/ DelPort(k) \/ DelFails(k)
  BY Zenon DEF DelCR, DelRelease, StsInv, Undisturbed
<1>2. del'[k].at \in {"idle", "locking"}
  <2>1. CASE DelLoad(k)
    BY <1>0, <2>1 DEF DelLoad, StsInv, Undisturbed
  <2>2. CASE DelPort(k)
    <3>1. SameNameExists(k, del[k].obj) \/ KeepIPCR(k, del[k].obj)
            \/ SkipCR(k, del[k].obj)
      BY Zenon DEF KeepIPCR, SkipCR, IsSts, IsStsToDel
    <3>2. DelDone(k)
      BY <2>2, <3>1, Zenon DEF DelPort
    <3> QED
      BY <1>0, <3>2, Zenon DEF DelDone
  <2>3. CASE DelFails(k)
    BY <1>0, <2>3, Zenon DEF DelFails
  <2> QED
    BY <1>1, <2>1, <2>2, <2>3
<1>3. UNCHANGED <<crs, crCache, podCache, pods, ipam, add, upd>>
  BY <1>1, Zenon DEF DelLoad, DelPort, DelFails
<1> QED
  BY <1>2, <1>3, Zenon DEF StsInv, Agreed, Undisturbed, Retains, Live

LEMMA StsUpd ==
  ASSUME NEW k \in StsKeys, StsInv(k),
         UpdPort(k) \/ UpdRelease(k) \/ UpdFinalizer(k) \/ UpdFails(k)
  PROVE  Retains(k)
<1> USE DEF api, caches, queues, loops
<1>1. UpdPort(k) /\ crCache[k].state # "deleting"
  BY Zenon DEF UpdRelease, UpdFinalizer, UpdFails, StsInv, Undisturbed
<1>2. Still(k)
  BY <1>1, Zenon DEF UpdPort, Still
<1> QED
  BY <1>2, StillRetains, Zenon

\* A pass of gcIP asks for the StatefulSet.
LEMMA StsGcIP ==
  ASSUME NEW k \in StsKeys, k \in owners, StsInv(k), gcIP
  PROVE  Retains(k)
<1>1. k \in Keys /\ OwnerExists(k)
  BY ConstantsAssumption, Zenon DEF OwnerExists, IsSts
<1>2. crs'[k] = crs[k]
  BY <1>1 DEF gcIP
<1>3. Still(k)
  BY <1>2, Zenon DEF gcIP, Still, caches, workers
<1> QED
  BY <1>3, StillRetains, Zenon

\* Start-up leases to k what its CR records.
LEMMA StsRestart ==
  ASSUME TypeOK, NEW k \in StsKeys, StsInv(k), RecordsApart, Restart
  PROVE  Retains(k)
<1>0. k \in Keys /\ IdleAdd.at = "idle" /\ IdleDel.at = "idle"
  BY EmptyFields, ConstantsAssumption, Zenon
<1>1. PICK leases \in [Keys -> Addresses \cup {NoIP}] :
        /\ InitIPAM(leases) /\ ipam' = leases
        /\ crs' = [j \in Keys |-> RestoredCR(j, leases)]
  BY Zenon DEF Restart
<1>2. /\ UNCHANGED pods /\ podCache' = pods /\ crCache' = crs
      /\ add'[k] = IdleAdd /\ del'[k] = IdleDel /\ upd'[k] = "idle"
  BY <1>0, Zenon DEF Restart
<1>3. CASE Live(crs[k])
  <2>1. crs[k].ip = ipam[k] /\ ipam[k] # NoIP
    BY <1>3, Zenon DEF StsInv, Agreed
  <2>2. CRClaim(k) = ipam[k] /\ Claim(k) = ipam[k]
    BY <1>3, <2>1, Zenon DEF CRClaim, Claim, PodClaim, IsSts, StsInv, Agreed
  <2>3. leases[k] = ipam[k]
    <3> SUFFICES ASSUME leases[k] # ipam[k] PROVE FALSE
      OBVIOUS
    <3>1. leases[k] = NoIP
      BY <1>0, <1>1, <2>2, Zenon DEF InitIPAM
    <3>2. PICK j \in Keys : leases[j] = ipam[k] /\ CRClaim(j) = ipam[k]
      BY <1>0, <1>1, <2>1, <2>2, <3>1, Zenon DEF InitIPAM
    <3>3. j # k
      BY <2>1, <3>1, <3>2, Zenon
    <3>4. j \in StsKeys /\ Live(crs[j]) /\ crs[j].ip = ipam[k]
      BY <2>1, <3>2, Zenon DEF CRClaim, IsSts
    <3> QED
      BY <1>3, <2>1, <3>3, <3>4, Zenon DEF RecordsApart
  <2>4. crs'[k] = crs[k]
    BY <1>0, <1>1, <2>1, <2>3 DEF RestoredCR
  <2> QED
    BY <1>0, <1>1, <1>2, <2>1, <2>3, <2>4, Zenon
    DEF StsInv, Agreed, Undisturbed, Retains, Live
<1>4. CASE ~Live(crs[k])
  <2>1. pods[k].ip = NoIP
    BY <1>4, Zenon DEF StsInv, Agreed
  <2>2. crs'[k] = crs[k]
    BY <1>0, <1>1, <2>1 DEF RestoredCR, PodClaim
  <2> QED
    BY <1>0, <1>2, <1>4, <2>1, <2>2, Zenon
    DEF StsInv, Agreed, Undisturbed, Retains, Live
<1> QED
  BY <1>3, <1>4

\* The names whose StatefulSets exist.
OwnedInv == TypeOK /\ \A k \in owners : StsInv(k)

\* A step owes to every name what it has, as long as its StatefulSet exists.
LEMMA StsStep ==
  ASSUME GCInterval = 0, Requests \subseteq {NoIP},
         OwnedInv, [Next]_vars, [Restart => RecordsApart]_vars
  PROVE  owners' \subseteq owners /\ \A k \in owners' : Retains(k)
<1>1. owners' \subseteq owners
  <2> USE DEF api
  <2>1. ASSUME NEW j \in Keys,
               CreatePod(j) \/ StopPod(j) \/ RemovePod(j) \/ DeleteStatefulSet(j)
        PROVE  owners' \subseteq owners
    BY <2>1 DEF CreatePod, StopPod, RemovePod, DeleteStatefulSet
  <2>2. ASSUME NEW j \in Keys,
               Controller(j) \/ AddFails(j) \/ DelFails(j) \/ UpdFails(j)
        PROVE  owners' = owners
    BY <2>2, Zenon
    DEF Controller, PodEvent, CREvent, AddAcquire, AddPort, AddCR, AddPatch, AddGet,
        AddFails, DelLoad, DelPort, DelCR, DelRelease, DelFails, UpdPort, UpdRelease,
        UpdFinalizer, UpdFails, Settle, inspectPod
  <2>3. markAndCleanLSP \/ Restart \/ gcIP \/ UNCHANGED vars => owners' = owners
    BY Zenon DEF markAndCleanLSP, Restart, gcIP, vars
  <2> QED
    BY <2>1, <2>2, <2>3 DEF Next
<1>2. ASSUME NEW k \in owners' PROVE Retains(k)
  <2>1. k \in owners /\ k \in StsKeys /\ k \in Keys /\ StsInv(k) /\ TypeOK
    BY <1>1, <1>2, ConstantsAssumption, Zenon DEF OwnedInv, TypeOK
  <2>2. CASE UNCHANGED vars
    <3>1. Still(k)
      BY <2>2, Zenon DEF vars, api, caches, workers, Still
    <3> QED
      BY <2>1, <3>1, StillRetains, Zenon
  <2>3. ASSUME NEW j \in Keys,
               \/ CreatePod(j) \/ StopPod(j) \/ RemovePod(j) \/ DeleteStatefulSet(j)
               \/ Controller(j) \/ AddFails(j) \/ DelFails(j) \/ UpdFails(j)
        PROVE  Retains(k)
    <3>1. CASE j = k
      BY <2>1, <2>3, <3>1, StsUsers, StsEvents, StsAdd, StsDel, StsUpd, Zenon
      DEF Controller
    <3>2. CASE j # k
      <4>1. k \in Keys \ {j}
        BY <2>1, <3>2
      <4>2. Still(k)
        BY <2>1, <2>3, <4>1, OthersStill, Zenon
      <4> QED
        BY <2>1, <4>2, StillRetains, Zenon
    <3> QED
      BY <3>1, <3>2
  <2>4. ~markAndCleanLSP
    BY DEF markAndCleanLSP
  <2>5. CASE gcIP
    BY <2>1, <2>5, StsGcIP, Zenon
  <2>6. CASE Restart /\ ~(UNCHANGED vars)
    <3>1. RecordsApart
      BY <2>6
    <3> QED
      BY <2>1, <2>6, <3>1, StsRestart, Zenon
  <2> QED
    BY <2>2, <2>3, <2>4, <2>5, <2>6, Zenon DEF Next
<1> QED
  BY <1>1, <1>2

\* While its StatefulSet exists, a name keeps the lease that its IP CR records:
\* when its pod is removed and created again, through crashes, failed calls and
\* stale caches, for any number of names and addresses.  This is without the
\* port GC, for pods that ask for no address, and unless the controller crashes
\* while another StatefulSet pod's CR records the same address.
THEOREM StsAddressAlwaysKept ==
  ASSUME GCInterval = 0, Requests \subseteq {NoIP}
  PROVE  Spec /\ [][Restart => RecordsApart]_vars => StsAddressKept
<1> DEFINE Keep == \A k \in StsKeys : k \in owners' /\ Live(crs[k]) /\ ipam[k] # NoIP
                                      => ipam'[k] = ipam[k]
<1>1. Init => OwnedInv
  <2> SUFFICES ASSUME Init PROVE OwnedInv
    OBVIOUS
  <2>1. TypeOK
    BY TypeInit
  <2>2. ASSUME NEW k \in owners PROVE StsInv(k)
    <3>1. k \in Keys
      BY <2>1, <2>2, ConstantsAssumption, Zenon DEF TypeOK
    <3>2. /\ pods[k] = NoPod /\ podCache[k] = NoPod /\ crs[k] = NoCR /\ crCache[k] = NoCR
          /\ add[k] = IdleAdd /\ del[k] = IdleDel /\ upd[k] = "idle"
      BY <3>1, Zenon DEF Init
    <3>3. NoPod.ip = NoIP
      BY DEF NoPod
    <3> QED
      BY <3>2, <3>3, EmptyFields DEF StsInv, Agreed, Undisturbed, Live
  <2> QED
    BY <2>1, <2>2 DEF OwnedInv
<1>2. OwnedInv /\ [Next]_vars /\ [Restart => RecordsApart]_vars => OwnedInv'
  <2> SUFFICES ASSUME OwnedInv, [Next]_vars, [Restart => RecordsApart]_vars
               PROVE  OwnedInv'
    OBVIOUS
  <2>1. TypeOK'
    BY TypeStep DEF OwnedInv
  <2> QED
    BY <2>1, StsStep, Zenon DEF OwnedInv, Retains
<1>3. OwnedInv /\ [Next]_vars /\ [Restart => RecordsApart]_vars => [Keep]_vars
  BY StsStep, Zenon DEF Retains
<1> QED
  BY <1>1, <1>2, <1>3, PTL DEF Spec, StsAddressKept
=============================================================================
