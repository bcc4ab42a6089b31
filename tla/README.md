# Kube-OVN: TLA+ models, checks and proofs

Kube-OVN gives every pod of a Kubernetes cluster an address, a MAC and a port of
an OVN logical switch, and gives workloads external addresses through OVN or
through NAT gateway pods.  This directory models the parts of it that decide who
has which address and which NAT rule is in force:

* the in-memory address manager of `pkg/ipam` and the range lists it is built on;
* the controller code that keeps the address manager, the OVN database, the IP
  custom resources (IP CRs) and the pods' annotations in line while pods come and
  go, calls fail and the controller restarts;
* external addresses (EIPs) and NAT rules, once as rows of the OVN database and
  once as rules in the pod of a VPC NAT gateway;
* the supervisor that keeps the BFD daemon of an egress gateway going.

## The system

| Component | State | Operations | Talks to | Hard behaviours | Correct when |
|---|---|---|---|---|---|
| IPAM (`pkg/ipam/ipam.go`, `subnet.go`, `ippool.go`) | per subnet and family: free, available, used and reserved lists, named pools, NIC-to-IP, IP-to-pod, MAC and pod-to-NIC maps | random and static allocation, release by pod or NIC, subnet and pool reconfiguration | called by every controller under one mutex | long sequences of calls, half-failed dual-stack requests, reconfiguration under use | an address has one pod; every address is free, used or reserved and in one pool; nothing leaks; what is available is served |
| Range lists (`ip_range_list.go`, `ip_range.go`, `ip.go`) | sorted disjoint ranges | add, remove, allocate, separate, merge, intersect, to CIDRs | IPAM | boundaries, adjacency | they behave as sets; CIDRs are exact and minimal |
| Pod controller (`controller/pod.go`) | queues, `deletingPodObjMap`, per-key mutex | `handleAddOrUpdatePod`, `handleDeletePod`, event handlers | IPAM, OVN, API server, listers | stale caches, names reused by new pods, crash between two stores | an annotated live pod has its lease and port; two live pods never share; a dead pod's resources come back |
| IP CR controller (`controller/ip.go`) | IP CRs with a finalizer | `createOrUpdateIPCR`, `handleUpdateIP`, `handleDelIPFinalizer` | the same stores, without the pod's mutex | races with the pod workers | cleaning up after one pod spares the next |
| Port GC and IP GC (`controller/gc.go`) | ports marked by the last pass | `markAndCleanLSP`, `gcIP` | OVN, IP CRs, IPAM | decisions two passes apart, by name | it takes no port of a live pod and leaves none of a dead one |
| Inspection (`controller/inspection.go`) | none | `inspectPod` | OVN, annotations | repairs what races broke | a live pod ends up with a port |
| Start-up (`controller/init.go`, `controller.go`) | none survives | `InitIPAM`, worker start | all stores | crash recovery | leases are rebuilt before any is given out |
| OVN EIPs and rules (`controller/ovn_eip.go`, `ovn_fip.go`, `ovn_snat.go`, `ovn_dnat.go`) | CRs with finalizers, labels and status, IPAM leases, NAT rows and load balancer VIPs | add, update, reset and delete handlers | IPAM, OVN, API server | handlers of one object side by side on stale caches, finalizer order | a ready rule has its row; an EIP keeps its lease; deletions end and leave nothing |
| NAT gateway EIPs and rules (`controller/vpc_nat_gw_eip.go`, `vpc_nat_gw_nat.go`, `nft_dnat.go`, `vpc_nat_gateway.go`, `nat-gateway.sh`) | the same CRs, rules in the gateway's pod | handlers, replay after the pod restarts | API server, the pod | a rule lives in four places, written one by one; the pod starts empty | a ready rule is in the pod; no row without a rule; deletions end |
| VIPs, IP pools, subnets, QoS | CRs with finalizers, IPAM leases | one reconcile handler per event | IPAM, OVN, each other | finalizer order, shared addresses | a VIP's address has one user |
| KubeVirt VMs | VM-keyed leases | migration handler, VM deletion | pod controller | two pods on one lease | the VM keeps one address across migration |
| BFD supervisor (`pkg/bfddsupervisor`) | episodes, restart budget, circuit, state file | start, reconciliation, recovery | the daemon, its peers, the kubelet | crash between plan and action, failed writes, probes against backoffs | restarts are rationed across containers; sessions are never given up |
| Policies, services, security groups | OVN rows | stateless reconcile | OVN | string translation | rows match the objects |
| Node daemon, CNI | kernel and OVS configuration | CNI add and del, loops | annotations | waiting, retries | a pod's interface matches its annotations |
| Leader checker, IC controller, speaker | process and election state | loops with timeouts | OVN, BGP | timeouts, restarts | one leader is labelled |
| Webhook, pinger, monitors, metrics, generated clients | none | validation, measurement | API server | none | out of scope |

`PROJECT.json` lists all components with their sources and what is left out of
each, and the hazards of the code at the line where they bite.

## Modules

```
AddressLease <--implements-- Subnet <--EXTENDS-- MCSubnet
                               ^---EXTENDS------ SubnetProofs <----- SubnetLeaseProofs
IPSet        <--implements-- IPRangeList <------ MCIPRangeList
                             PodLifecycle <----- MCPodLifecycle
                               ^---EXTENDS------ PodProofs
                             OvnNat <----------- MCOvnNat
                               ^---EXTENDS------ OvnNatProofs
                             NatGateway <------- MCNatGateway
                               ^---EXTENDS------ NatGatewayTypeProofs <----- NatGatewayReadyProofs
                                                                      ^----- NatGatewayRowProofs
                             BfddSupervisor <--- MCBfddSupervisor
                               ^---EXTENDS------ BfddProofs
```

**AddressLease** is what an address manager promises: an address or a MAC is held
by one client or by none, and a step takes or gives up addresses of one client,
or drops all holders that a reconfiguration puts out of range.

**Subnet** is one subnet of `ipam.Subnets` (`s`) and whether it exists
(`present`).  The IPv4 and IPv6 fields of the Go struct are the two members of
`s.fam`; a range list is a set of naturals; `IPPools` is `F.pool` with the names in
`s.pools`.  Every exported operation of `ipam.go` that changes a subnet is one
action, since each runs under `ipam.mutex` from start to end; the functions of
`subnet.go` are operators from a subnet to a new subnet, an error and an address.
They keep the order of the code, with its early returns and what it has changed
before an error.  Lists are sets because `IPRangeList` shows that they behave as
sets.  `Allocate` takes the lowest address, as the code does.

**IPRangeList** is the list of ranges as a sequence, with arithmetic modulo
`2^Width`: binary search, add and remove with splitting and joining, the two-list
walks of `Separate` and `Merge`, and `ToCIDRs`.  **IPSet** is the same interface on
a set; `ImplementsSet` says that each operation does to the list what it does to
the set.

**PodLifecycle** has the API server (`pods`, `crs`, `owners`), the informer caches
(`podCache`, `crCache`), IPAM (`ipam`), the OVN ports (`lsp`), the queues and the
position of each handler as variables.  IPAM is used through what Subnet
guarantees: one lease per name, no address leased twice.  A handler is cut into
actions at the calls to another store, where other workers can run:

| Code | Actions |
|---|---|
| pod and IP CR informers, `enqueueAddPod`, `enqueueUpdatePod`, `enqueueDeletePod`, `enqueueUpdateIP` | `PodEvent`, `CREvent` |
| `handleAddOrUpdatePod`, `reconcileAllocateSubnets` | `AddAcquire`, `AddPort`, `AddCR`, `AddPatch`, `AddGet` |
| `handleDeletePod` | `DelLoad`, `DelPort`, `DelCR`, `DelRelease` |
| `handleUpdateIP`, `handleDelIPFinalizer` | `UpdPort`, `UpdRelease`, `UpdFinalizer` |
| an error return and its `AddRateLimited` | `AddFails`, `DelFails`, `UpdFails` |
| `markAndCleanLSP`, `inspectPod`, `gcIP` | the actions of these names |
| crash, `Run` up to `startWorkers` | `Restart` |
| users of the cluster (external) | `CreatePod`, `StopPod`, `RemovePod`, `DeleteStatefulSet` |

`handleUpdateIP` does not take the mutex of the pod's key, the other two handlers
do (`Unlocked`).  Patches go by name, as in the code: `AddPatch` annotates whichever
pod has the name by then, and `UpdFinalizer` may strip the finalizer of a CR made
again since (`"bare"`).

**OvnNat** has the EIPs and the rules at the API server (`eip`, `rule`) and in the
informer caches (`ceip`, `crule`), the leases of IPAM, the rows of the northbound
database, the queues and the position of each handler that is cut.  Every queue has
a worker of its own, so the add, update, reset and delete handlers of one object
interleave.  The handlers keep their names; the ones that write several stores are
cut between the writes (`handleAddOvnEip`, `createOrUpdateOvnEipCR`,
`createOrUpdateOvnEipCRStatus`, `handleAddOvnEipReady`).  The three kinds of rules
share their shape (`AddRule`, `AddNat`, `UpdateRule`) and keep their differences:
what they check, what they write to OVN and which labels they set.  `Fail` is an
error half-way, `Crash` a restart with `InitIPAM`.

**NatGateway** has the same kinds of objects and, in place of OVN, the pod of each
gateway with its EIPs and rules, changed by the functions of `nat-gateway.sh`
(`Refuses`, `WithRow`, `WithoutRows`).  A handler reads its rule, then locks the
rule's name: `wait` is what it read, `work` who has the lock and where it is.  When a
pod is replaced (`Restart`, `StartPod`), `handleInitVpcNatGw` sets it up and queues
four sweeps, which mark EIPs and rules with the time of the new pod, and the update
handlers install what is marked.  A DNAT rule of type share is one backend of a map
that is rebuilt from the labels of all rules on the port.

**BfddSupervisor** is the supervisor's goroutine (`pc`), its episodes (`ep`), the
budget of child restarts, the state file (`disk`), the daemon as its child with its
sessions, and the kubelet's count of failed liveness probes (`strikes`).

| Code | Actions |
|---|---|
| `NewSupervisor`, `StartChild` up to the start | `NewSupervisor` |
| `StartChild` after the start | `StartChild` |
| `Reconcile` up to the first `saveState` | `Reconcile`, `ReconcileControlFailure` |
| `executeRecoveryAction`, `recordRecoveryResult` | `SessionAction`, `RestartChild` |
| `ChildProcess.wait` | `ChildExits` |
| container crash, liveness probe, peers, clock | `Crash`, `Kill`, `SessionTurns`, `Tick` |

Time is discrete; a tick is the 5 s of the ticker and of the probe.  A deadline is
kept as the time left, so that the states are finite.  `StartChild` reads the clock
once, starts the child and then uses that reading, so `After` and `Before` take the
age of the reading into account (`Reading`).  Three things of the code are by
design and visible in the model: a session that has used up its attempts is only
replayed; a control channel that fails while the child runs restarts nothing; and a
child that died is brought back only by a new container.

## Model checking

All runs are listed in `PROJECT.json` with their properties; each property of a
passing run has a mutant there, an operator `XBug` that is `X` with a mistake a
programmer could make and under which TLC finds the property violated.

| Run | Instance | Shows |
|---|---|---|
| `subnet_pools` | IPv4, 4 addresses, 2 pods, 3 NICs, one named pool with two definitions, 2 subnet configurations | leases are exclusive; the lists and pools account for every address; what is available is served |
| `subnet_dual` | mac-only, IPv4 and dual configurations, IPv6 scarcer than IPv4, MACs chosen, drawn and absent | no address or MAC leaks; a failed random request changes no lease; release by pod name releases everything; Subnet implements AddressLease |
| `range_lists` | 4 bit addresses; lists built from single addresses and from ranges that touch, overlap and nest | lists stay sorted, disjoint and joined; they behave as sets; CIDRs are exact and fewest |
| `pod_crash` | 2 names used once, 2 addresses, 1 fault | an allocated live pod has its lease and port; two live pods never share an address |
| `pod_recover` | 1 name used by two pods in turn, or by one with 2 faults; GC, fairness | live pods end up with ports, vacant names without |
| `pod_sts` | 1 StatefulSet name used twice, 2 addresses, 1 fault | its address is kept |
| `nat_rules` | 1 EIP; it and a rule of any kind are made and deleted with 1 fault, a FIP and an SNAT rule share it, or a rule's name is used twice; fairness | a ready rule has its row; a shown address is leased; rules are served; deletions end and leave no row |
| `natgw_rules` | 1 gateway, 2 EIPs, 2 rules in 19 scenarios: set up from nothing, rules made, changed and deleted, the pod replaced, calls failing, crashes; fairness | a ready rule is in the pod, a row belongs to a rule that will remove it; rules are served; deletions end |
| `bfd_recovery` | 1 session with 2 failures, or 2 sessions with none; fairness | the restart budget outlives the container; restarts are paced; an inherited circuit does not condemn the container; a dead child comes back; a failing session is tried again; stable sessions clear all counters |
| `pod_samename`, `nat_port`, `natgw_share` | 1 name; 1 EIP and 2 rules | violated, see below |

**Bounds.**  Four addresses in a family are the least with a gateway, two pool
definitions that overlap in one address and an address outside both; two pods and
three NICs give a conflict between pods and two NICs of one pod.  Named pools are
left out of the dual-stack run and dual stack out of the pool run; the families
share no list, so pools and a second family meet only in `getDualRandomAddress`,
which uses one pool name for both.  In `subnet_dual` each NIC always asks the same
way for its MAC (drawn, none, or its own): a NIC that first wants none and then a
drawn one does lose its address, and one that changes its MAC keeps the old one
recorded, but no caller does either without a release in between.  Range lists
cover the addresses 4 to 11 of 16: up to four ranges, enough for the first, a
middle and the last one to be hit, and two aligned blocks of four, so that a range
can need one CIDR or several.  The all-zero and the all-one address, where the Go
arithmetic wraps, are left out.  In PodLifecycle `MaxUid` bounds the pods
made under a name, `MaxFaults` crashes and failed calls together; two addresses
for two names let an address move between names.  Subnet and IPRangeList need no
bound on the number of steps.

PodLifecycle, OvnNat, NatGateway and BfddSupervisor start in one of several
situations (`Starts`, `Scenarios`), so that one run asks its question of several
instances, each with the faults and user actions that matter to it.  In
BfddSupervisor three backoffs are the fewest with which every branch of
`selectRecoveryAction` but `RecoveryNone` is taken (the code reaches that one only
with four), a circuit of three ticks is longer than the two failed probes that end a
container, and `MaxLag` bounds a start or an action to one tick.  The code allows
half a minute for a start against a circuit of an hour; `StillTried` needs
an action to be shorter than the circuit.

**Symmetry** is used for names, addresses and MACs that no request mentions, only
in runs of safety properties.

**Deadlock** is not checked in PodLifecycle, OvnNat and NatGateway, where users may
stop and the controller then has nothing to do; the other modules are always able to
step.

**Fairness** (`FairSpec`): informers deliver (`PodEvent`, `CREvent`), workers go on
with what they began, the loops of `startWorkers` tick, and `gcIP` runs after
start-up.  These are weakly fair.  Taking the key mutex is strongly fair, since a
Go mutex hands itself to a waiter that has starved for a millisecond.  Nothing is
assumed of users, nor that faults happen.  `Settle` expresses the one use of real
time: the passes of the GC are six minutes apart by default, which is longer than
events take and than the 20 s of the inspection, so a name that one pass marks
comes to rest before the next pass.

In OvnNat and NatGateway informers deliver and every worker goes on with what it has
read or locked, each weakly fair for each object, since a queue hands out its keys in
order and requeues the failed ones.  In BfddSupervisor the supervisor's goroutine
goes on, time passes, and the kubelet restarts a container that failed its probes;
a reconciliation happens in every tick in which the supervisor is idle.

**Time in NatGateway.**  `handleResetIptablesEip` runs 3 s after it is queued, so its
guard waits for the caches to catch up.  A pod restarts (`Restart`) when no handler is
at work on a rule and the caches have caught up: a restart takes far longer than a
handler.  Users are patient in the runs (`Patient`): they change or delete a rule
when no handler is at work on it, as the code asks them to.

**Disagreements** between the code and its comments, each a run with a violated
property and an entry under `findings`:

1. `LivePodsConnect` (`pod_samename`).  `handleUpdateIP` deletes a port and releases a
   lease by name and without the mutex; a new pod of the name, allocated between the
   two calls, stays without a lease.
2. `DnatPortsExclusive` (`nat_port`).  `checkEipPortConflict` looks for other DNAT
   rules by a label that no handler sets, so two of them take one port of an EIP.
3. `ShareMapHeals` (`natgw_share`).  A share rule added before the label of its
   sibling is in the cache rebuilds the map without it, and nothing rebuilds it again.

**Known behaviour** that the models show and no property forbids:

* Without the conflict check two pods may share an address; the release of one of
  them leaves its NIC's address and MAC in the maps of the subnet.
* A static dual-stack request whose second address fails because the drawn MAC is the
  router port's takes the NIC out of `PodToNicList` while it keeps its first address.
* A pod removed while it is being allocated: the delete handler finds no IP CR in its
  cache and skips the release; the lease stays until the controller restarts.
* A StatefulSet is deleted while its pod is being allocated again: `handleUpdateIP`
  releases the new lease with the old CR, and `createOrUpdateIPCR` then records the
  address in a new CR.  Another StatefulSet pod can get the address meanwhile, and
  `InitIPAM` after a crash gives it to either.
* The port GC asks `isStatefulSetPodToGC` only about pods that exist; a StatefulSet
  pod away for two passes loses its port, and its address with the IP CR.
* The delete handlers of OVN EIPs and rules work by name: a late one takes the rows
  and the finalizer of the next object of that name.  So the properties of OvnNat are
  about the first object of a name.  An EIP in deletion is let go while a rule that
  has its rows is not labelled yet.
* `isOvnFipDuplicated` looks for another FIP on the address by cached labels.  Two FIPs
  added before the label of either is in the cache both get the EIP, and the row of the
  second takes the place of the first one's, which stays ready.
* `handleUpdateOvnEip` releases the address of an EIP in deletion before it takes the
  finalizer off.  If another EIP gets the address and the controller crashes in between,
  `InitIPAM` may lease it to the one in deletion; the other shows an address that it
  does not have.
* A NAT gateway rule deleted before its add handler has patched the finalizer: the
  handler takes NotFound for success and installs the row of a rule that no longer
  exists.  With `Patient = FALSE` and the scenario `Hasty` of `MCNatGateway`, TLC
  finds `NoUnmanagedRows` violated.
* A ready NAT gateway rule changed while the controller is down is not installed again
  at start.  If the controller crashes after it has marked the changed rule as not
  ready, the add handler installs the new row without deleting the old one and
  overwrites the status, and no handler knows of the old row any more.
* A failed step of an edit followed by a crash can leave a ready SNAT rule that is not in
  the pod.
* Share rules on one port rebuild one map from cached labels: after a stale read or a
  crash a ready one can be missing from it (the third disagreement above).
* `natGwCreatedAT` is one variable for all gateways; the instances have one gateway.
* The half-open restart of the BFD child skips the loop over the sessions, so the time
  since which they are stable stays from before the restart.  If they are Up at the
  next poll, the circuit is cleared at once and not after the stable window.

## Proofs

`SubnetProofs` proves, for any sets of addresses, pods, NICs, pools, MACs and
configurations that satisfy the assumptions of Subnet, and for callers that keep
the conflict check on (`CheckConflicts \subseteq {TRUE}`; without it sharing is
intended):

| Theorem | States |
|---|---|
| `Invariance` | `Spec => []Inv` |
| `TypeCorrect` | `Spec => []TypeOK` |
| `Exclusive` | `Spec => []ExclusiveLeases` |
| `Accounted` | `Spec => []AddressesAccounted` |
| `Partitioned` | `Spec => []PoolsPartition` |

None of the four properties is inductive alone.  A random allocation keeps leases
exclusive because it takes an address from a pool's free list; that such an
address is nobody's follows from the pool accounting (free is part of available,
available excludes used) and from `HeldFamily`, that a NIC's address counts as
used.  The accounting in turn survives a release because a NIC's address has one
pod (`ExclusiveFamily`).  A pool can be created without losing track because a
pool that is not in the map is empty.  `Inv` is the conjunction of these per
family.  The proof has a lemma per operation on a family (release, lease, refill,
static allocation, reconfiguration, pool creation and removal), a lemma per
function on the subnet, and one step per action.  The lowest address of a
non-empty list exists by the well-foundedness of `<` on the naturals.

`SubnetLeaseProofs` goes on from there.  What it proves depends on the MACs that the
NICs ask for, so besides the conflict check it takes hypotheses on the requests, all
of them true of the instance of `subnet_dual`:

* `OwnMacs`: a NIC does not name a MAC that another NIC of its pod may have.  The code
  looks for conflicts between pods only.
* `KeptMacs`: a NIC that is to have no MAC never asks for one.
* `SteadyMacs`: a NIC always asks for the same MAC.
* `GatewayApart`: a router port has no MAC that may be drawn for a NIC.

| Theorem | States | Beyond `OwnMacs` and `KeptMacs` |
|---|---|---|
| `LeaseInvariance` | `Spec => []LeaseInvariant` | |
| `NothingLeaked` | `Spec => []NoLeakedAddress` | |
| `MacsAlwaysExclusive` | `Spec => []MacsExclusive` | |
| `NoMacLeaked` | `Spec => []NoLeakedMac` | `SteadyMacs` |
| `ReleaseFindsAll` | `Spec => []ReleasedPodHasNothing` | `GatewayApart` |
| `FailureKeepsLeases` | `Spec => []FailedRandomKeepsLeases` | |
| `RandomAlwaysServes` | `Spec => []RandomServesAvailable` | |
| `LeaseRefinement` | `Spec => ImplementsLease` | |

`LeaseInvariant` has two layers.  `Sound` is what every function of `subnet.go` finds
and leaves: the invariant of SubnetProofs, every used address is some NIC's, a NIC's
MAC is recorded as its pod's, two NICs never have the same MAC.  `Whole` adds what
holds only between whole calls: a NIC with an address has a MAC, unless it wants none
(`MacWithIP`), and is in its pod's `PodToNicList` (`Listed`).  The first of the two is
why nothing leaks: random allocation recognises a NIC that has its addresses by the
MAC, so without it a second request would take a second address and forget the first.
Each function has a lemma that it keeps `Sound` and that it touches, of all owners
and NICs, only those of its own call (`Touch`); a call that undoes a half-made
allocation composes two of them.  `Touch` is also the refinement: a call changes
holders between one pod and nobody, which is a step of AddressLease, and
`AddOrUpdateSubnet`, `DeleteSubnet` and the pool operations only take away
(`Revoked`).  The properties that evaluate a call in a state follow from the lemma on
that call.

`PodProofs` proves four properties of PodLifecycle, for any number of names, addresses,
crashes and failed calls; the first three with the port GC or without and for any
requested addresses:

| Theorem | States |
|---|---|
| `TypeCorrect` | `Spec => []TypeOK` |
| `AlwaysConnected` | `UsedOnce` gives `Spec => []AllocatedConnected` |
| `AlwaysExclusive` | `UsedOnce` gives `Spec => []LiveExclusive` |
| `StsAddressAlwaysKept` | without the port GC and without requested addresses, `Spec /\ [][Restart => RecordsApart]_vars => StsAddressKept` |

`UsedOnce` says that there are no StatefulSets and that at most one more pod is
created under each name, as in `pod_crash`; the first disagreement above shows what
happens when a name is used again.  The inductive invariant `PodInv` has three parts.
No address is leased twice (`Exclusive`).  A name is untouched until its pod is
cached (`Unused`).  From then on, while the pod is alive (`Served`), its cached copy
is the pod before or after the patch, the delete and IP handlers and the port GC have
nothing to do with it, and what `handleAddOrUpdatePod` has got done agrees with the
lease.  The last part needs the order of calls in the handler (lease, port, CR,
annotation) and that a second run on a stale cache acquires the address the name
already has.  A restart keeps it because every claim is an address its pod held
before, and those differ (`ClaimsGranted`).  The GC keeps it because a marked name
that has come to rest is known to be allocated in the cache as well.  `OneKey`
reduces a step of a handler to the name it is about.

`StsAddressAlwaysKept` is about names used any number of times.  Its invariant
(`StsInv`, for names whose StatefulSet exists) says that the lease is what the IP CR
records, that a pod, a cached pod or a handler knows no other address, that a pod is told
the address only after the CR has it, and that the delete and IP handlers never get past
their check of the StatefulSet.  A restart keeps it because the records of StatefulSets
are claimed before all annotations; that they differ is the hypothesis `RecordsApart`,
since the record of a StatefulSet that was deleted can linger (see Known behaviour).  The
other two hypotheses are those of the run: the port GC takes the address of a pod away
for two passes, and a pod that asks for another address gets that one.

`BfddProofs` proves four properties of the BFD supervisor, for any number of
sessions and failures, any backoffs and periods, and any duration of a start:

| Theorem | States |
|---|---|
| `BudgetAlwaysKept` | `Spec => []BudgetKept` |
| `RestartsAlwaysPaced` | `Spec => RestartsPaced` |
| `InheritedAlwaysSpared` | `Spec => []InheritedSpared` |
| `TypeCorrect` | `Spec => []TypeOK` |

`BudgetKept` is inductive with the types of the budget (`BudgetInv`): a plan is
saved before it is executed, a failed write leaves a file that covered what was
executed so far, and a reservation is made only when the last wait is over
(`PlanReserves`).  `RestartsPaced` follows, since a planned restart has passed that
same test.  `InheritedSpared` needs more (`SparedInv`): an open circuit is always the
wait for the next restart, so while it is open no other one can replace it; an
inherited circuit that is open is therefore the circuit of the budget, for which a
probe does not fail; and at most one probe can have failed before the container knew
of it, which is why the theorem assumes that the kubelet needs two failures
(`FailureThreshold`, three by default).  `TypeCorrect` rests on `BudgetInv`: the retry
of an episode stays a natural number because the one it takes over from the budget is
still to come whenever a restart is refused.

`OvnNatProofs` proves of OvnNat, for any number of EIPs, addresses, rules, failed calls
and crashes:

| Theorem | States |
|---|---|
| `TypeCorrect` | `Spec => []TypeOK` |
| `ReadyAlwaysWired` | `Spec /\ []RulesApart => []ReadyRuleWired` |
| `OwnRowsStay` | `Spec /\ RowsOwn => []ReadyRuleWired` |
| `LeasesExclusive` | `Spec => []LeasesApart` |
| `ShownAlwaysLeased` | `Spec /\ [][Crash => NoLingeringAddress]_vars => []ShownAddressLeased` |
| `ShownAddressesDiffer` | the same hypothesis gives `[]ShownApart`: no two EIPs show one address |

A ready rule can lose its row only to another rule, so the hypothesis is about pairs of
rules of one kind.  `RulesApart` says of the current state that a FIP which waits for
an address in use finds the label of its user in the cache, and that no two SNAT rules on
one address have the same internal address; the two FIPs under Known behaviour are what
happens without it.  `RowsOwn` is a condition on the rules alone that implies it: one FIP,
SNAT rules of different internal addresses, any DNAT rules.  `RulesInv` is inductive:
while the first rule of a name is kept, the cache knows no older one and none in deletion,
no delete handler is due, and the row is there from the moment the add handler has made
it, before the status says so.

`EipsInv` relates for each EIP the address in the spec, in the status, in the cached copy
and in the hands of `handleAddOvnEip` to the lease, and says that rules use it only once
the cache shows its address; that is why the refresh of a status on behalf of a rule
writes the same address again.  A crash keeps it if no EIP in deletion still shows the
address of another one (`NoLingeringAddress`): the release before the finalizer, under
Known behaviour, is what happens otherwise.  That leases are exclusive (`LeasesApart`)
needs no hypothesis.

`NatGatewayTypeProofs`, `NatGatewayReadyProofs` and `NatGatewayRowProofs` prove of
NatGateway, for any number of gateways, EIPs, rules, replaced pods, failed calls and
crashes:

| Theorem | States |
|---|---|
| `TypeCorrect` | `Spec => []TypeOK` |
| `ReadyAlwaysInstalled` | `Spec /\ Unedited /\ RulesApart => []ReadyRuleInstalled` |
| `RowsAlwaysManaged` | `Patient` gives `Spec /\ Unedited => []NoUnmanagedRows` |

`Unedited` (no user edits a rule) and `RulesApart` (no two rules want the same row, one
share rule per port) are conditions on the scenario.  Neither can be dropped: the items
on edits and on share rules under Known behaviour violate the conclusions.  `Patient` is
needed because of the rule deleted before its finalizer.  `RowsAlwaysManaged` covers
share rules on one port.

A rule exists in up to four versions at a time: at the API server, in the cache, in the
hands of the handler that has the lock and of one that waits for it.  `HistoryInv` says
what a version may contain (a status only with a finalizer, a label only with a status),
that a later version takes back neither finalizer nor status nor deletion (`Follows`), and
what has been written by the point the handler with the lock is at (`Position`).  Both
other proofs build on it.  `ReadyInv` says that a kept rule that is ready for the pod that
runs, or whose handler has just installed it, is in that pod.  It survives the replay because a mark carries the time of the pod it asks for and no mark is
ahead of all pods (`Past`).  `OwnedInv` says that each address of each row has an owner: a
rule with its finalizer, whose deletion is not done, and that knows its row by its status
or is still being added.  A share map is rebuilt from the labels in the cache, so each
backend put there needs an owner among the siblings (`HasSibling`), which is why the
invariant also says how far behind the cache of a deleted rule can be (`Waited`).

Only model-checked: everything about IPRangeList, which is recursive; PodLifecycle for
ordinary names used again; rules of NatGateway that are edited; and all liveness,
which is out of the prover's reach.

## Not modelled

In Subnet: several subnets (they share no state), parsing of addresses and
ranges, statistics and queries, `force` allocation (no caller sets it).  In
PodLifecycle: VM pods and migration, several NICs and attachment networks,
down-scaling of a StatefulSet and `appendCheckPodNetToDel`, reserved IP CRs
(`handleAddReservedIP`, also for a CR that lost its finalizer), VIPs, port groups,
policy routes, security groups, DHCP options and the routed annotation,
interleavings inside one pass of the GC and inside `Restart`.  The delay before a
terminating pod is queued for deletion is part of `StopPod`.  Requests for a given
address are in the model and empty in the runs.  In OvnNat: QoS, LSP-type
EIPs of node gateways, changes of a rule's spec (the handlers reject them), IPv6.  In
NatGateway: leases, QoS, IPv6, deletion of gateways, several ports per EIP, names used
again.  In BfddSupervisor: metrics, what is only reported, parsing of the daemon's
output, the socket protocol, and a state file that is unreadable or was written for
other sessions.

The map covers about 8% of the lines of the implementation.  Most of the rest is
generated code, API types, the OVS and kernel plumbing of the node daemon, the
translation of policies and services into OVN rows, and tools without state of their
own.  Of the stateful controllers, VIPs, IP pools, VPCs, the subnet controller,
KubeVirt migration and the egress gateway are not modelled yet.  Components not
modelled at all are in `PROJECT.json` with the reason.
