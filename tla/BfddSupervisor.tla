---------------------------- MODULE BfddSupervisor ----------------------------
(***************************************************************************)
(* The supervisor of the OpenBFDD daemon in a VPC egress gateway's pod     *)
(* (pkg/bfddsupervisor, cmd/bfdd_supervisor): one process that starts the  *)
(* daemon as its child, asks it every few seconds for the state of the BFD *)
(* sessions, and repairs a failing session by replaying the configuration, *)
(* resetting the session or restarting the child.  Restarts of the child   *)
(* are rationed by a budget with growing backoffs and a circuit, kept in a *)
(* file so that a new container continues where the last one stopped.  The *)
(* kubelet restarts the container when the liveness probe keeps failing.   *)
(*                                                                         *)
(* Time is discrete.  A tick is the period of the reconciliation ticker    *)
(* and of the liveness probe, both 5 s.  A deadline is kept as the time    *)
(* that remains until it, a start of an interval as the time since it, so  *)
(* Tick lowers the former and raises the latter.  StartChild reads the     *)
(* clock before it starts the child and uses that reading afterwards;      *)
(* Reading is how old it is.                                               *)
(*                                                                         *)
(* Left out: what is only reported (Phase, LastAction, LastResult, the     *)
(* counters of control failures and of child restarts), and the state file *)
(* found unreadable or corrupt, which only someone outside can cause.      *)
(***************************************************************************)
EXTENDS Integers, Sequences

CONSTANTS
  Starts,            \* the pairs <<n, f>> a behaviour may begin with: n
                     \* expected sessions, at most f failures of any kind
  GracePeriod,       \* ticks a session may fail before it is acted on
  StablePeriod,      \* ticks a session must be Up to clear its episode
  Backoffs,          \* waits after the actions on a session
  ChildBackoffs,     \* waits after the restarts of the child
  CircuitOpen,       \* wait once either list is used up
  FailureThreshold,  \* failing liveness probes that restart the container
  MaxLag             \* bound: ticks a start or an action may take

ASSUME SupervisorAssumption ==
  /\ Starts \subseteq (Nat \ {0}) \X Nat
  /\ GracePeriod \in Nat \ {0}
  /\ StablePeriod \in Nat \ {0}
  /\ Backoffs \in Seq(Nat \ {0}) /\ Len(Backoffs) > 0
  /\ ChildBackoffs \in Seq(Nat \ {0}) /\ Len(ChildBackoffs) > 0
  /\ CircuitOpen \in Nat \ {0}
  /\ FailureThreshold \in Nat \ {0, 1}
  /\ MaxLag \in Nat

VARIABLES
  pc,         \* "boot", "starting", "idle" or "acting"
  ep,         \* episodes: one record for each pair
  budget,     \* childRecoveryAttempts, childNextRetry, childCircuitUntil
  inherited,  \* inheritedCircuitUntil
  halfOpen,   \* bootstrapHalfOpen of the StartChild under way
  pending,    \* the action planned and not yet executed
  status,     \* Live and Ready
  disk,       \* the state file: episodes and budget
  child,      \* the child process runs
  sess,       \* the daemon's sessions, in the child's memory
  lag,        \* ticks since the start or the action under way began
  polled,     \* a reconciliation has run since the last tick
  strikes,    \* liveness probes failed in a row
  faults,     \* failures that may still happen
  owed        \* history: restarts planned since the budget was last cleared,
              \* and the wait the last of them promised

vars == <<pc, ep, budget, inherited, halfOpen, pending, status, disk, child,
          sess, lag, polled, strikes, faults, owed>>

-----------------------------------------------------------------------------
(* Times.  Zero is the zero time.Time; a deadline long past is kept as it. *)

\* The expected pairs, numbered in their sorted order.
Pairs == DOMAIN ep
Zero == -MaxLag
Never == -1

Soonest(a, b) == IF a < b THEN a ELSE b

\* The age of the reading of the clock in use; now.Before(t); now.Add(d).
Reading == IF pc = "starting" THEN lag ELSE 0
Before(t) == t + Reading > 0
After(d) == d - Reading

Aged(t) == IF t > Zero THEN t - 1 ELSE t
Older(t, most) == IF t # Never /\ t < most THEN t + 1 ELSE t

Episodes ==
  [attempts : 0 .. Len(Backoffs) + 1, next : Nat,
   failing : Never .. GracePeriod, stable : Never .. StablePeriod]
Times == {t \in Int : t >= Zero}
Budgets ==
  [tries : 0 .. Len(ChildBackoffs) + 1, next : Times, circuit : Times]

NewEpisode == [attempts |-> 0, next |-> 0, failing |-> Never, stable |-> Never]
NoBudgetUsed == [tries |-> 0, next |-> Zero, circuit |-> Zero]
NoAction == [action |-> "None", pair |-> 0]
NothingOwed == [spent |-> 0, quiet |-> Zero]

\* A step in which something fails uses up one of the failures allowed.
Failure(fine) ==
  \/ fine /\ UNCHANGED faults
  \/ ~fine /\ faults > 0 /\ faults' = faults - 1

-----------------------------------------------------------------------------
(* The budget of child restarts. *)

childCircuitOpen(b) == Before(b.circuit)

\* Once tries exceeds the list, childNextRetry has been set and not cleared.
childHalfOpenDue(b) == b.tries > Len(ChildBackoffs) /\ ~Before(b.next)

CanReserve(b) == ~Before(b.next)

reserveChildRestart(b) ==
  LET n == Soonest(b.tries + 1, Len(ChildBackoffs) + 1)
  IN  IF n > Len(ChildBackoffs)
        THEN [tries |-> n, next |-> After(CircuitOpen),
              circuit |-> After(CircuitOpen)]
        ELSE [tries |-> n, next |-> After(ChildBackoffs[n]), circuit |-> Zero]

childCircuitFailsLivenessBug(b, inh) == childCircuitOpen(b)
childCircuitFailsLiveness(b, inh) == childCircuitOpen(b) /\ b.circuit # inh

updateLiveness(b, inh) == ~childCircuitFailsLiveness(b, inh)

updateChildRunningLiveness(b, inh, running) ==
  running /\ ~childCircuitFailsLiveness(b, inh)

updateControlFailureLivenessBug(b, inh) ==
  IF child THEN updateLiveness(b, inh) ELSE TRUE
updateControlFailureLiveness(b, inh) ==
  IF child
    THEN updateLiveness(b, inh)
    ELSE ~childCircuitFailsLiveness(b, inh) /\ Before(b.next)

-----------------------------------------------------------------------------
(* Planning: what one reconciliation makes of the sessions it observed. *)

exists(p) == sess[p] # "Absent"
isUp(p) == sess[p] = "Up"
allUnhealthy == \A p \in Pairs : ~isUp(p)

selectRecoveryActionBug(attempts, present, unhealthy) ==
  IF attempts = 0 THEN "Replay"
  ELSE IF attempts = 1
    THEN IF present THEN "Reset"
         ELSE IF unhealthy THEN "RestartChild" ELSE "Replay"
  ELSE IF attempts = 2
    THEN IF unhealthy THEN "RestartChild"
         ELSE IF present THEN "Reset" ELSE "Replay"
  ELSE "None"
selectRecoveryAction(attempts, present, unhealthy) ==
  IF attempts = 0 \/ attempts >= Len(Backoffs) THEN "Replay"
  ELSE IF attempts = 1
    THEN IF present THEN "Reset"
         ELSE IF unhealthy THEN "RestartChild" ELSE "Replay"
  ELSE IF attempts = 2
    THEN IF unhealthy THEN "RestartChild"
         ELSE IF present THEN "Reset" ELSE "Replay"
  ELSE "None"

\* The action the episode of a failing pair calls for now, if any.
Due(p) ==
  /\ ep[p].failing >= GracePeriod
  /\ ~Before(ep[p].next)
Action(p) == selectRecoveryAction(ep[p].attempts, exists(p), allUnhealthy)
Refused(p) == Action(p) = "RestartChild" /\ ~CanReserve(budget)
Acts(p) == ~isUp(p) /\ Due(p) /\ Action(p) # "None" /\ ~Refused(p)

markEpisodeUpBug(e) ==
  IF e.stable # Never /\ e.stable >= StablePeriod
    THEN [NewEpisode EXCEPT !.attempts = e.attempts, !.stable = e.stable]
    ELSE [e EXCEPT !.stable = IF @ = Never THEN 0 ELSE @]
markEpisodeUp(e) ==
  IF e.stable # Never /\ e.stable >= StablePeriod
    THEN [NewEpisode EXCEPT !.stable = e.stable]
    ELSE [e EXCEPT !.stable = IF @ = Never THEN 0 ELSE @]

scheduleEpisodeAction(e) ==
  LET n == Soonest(e.attempts + 1, Len(Backoffs) + 1)
  IN  [e EXCEPT !.attempts = n,
                !.next = IF n > Len(Backoffs) THEN CircuitOpen
                                              ELSE Backoffs[n]]

planEpisodeRecoveryBug(p) ==
  LET e == [ep[p] EXCEPT !.stable = Never,
                         !.failing = IF @ = Never THEN 0 ELSE @]
  IN  IF isUp(p) THEN markEpisodeUp(ep[p])
      ELSE IF Acts(p) THEN scheduleEpisodeAction(e)
      ELSE [e EXCEPT !.next = budget.next]
planEpisodeRecovery(p) ==
  LET e == [ep[p] EXCEPT !.stable = Never,
                         !.failing = IF @ = Never THEN 0 ELSE @]
  IN  IF isUp(p) THEN markEpisodeUp(ep[p])
      ELSE IF Acts(p) THEN scheduleEpisodeAction(e)
      ELSE IF Due(p) /\ Refused(p) THEN [e EXCEPT !.next = budget.next]
      ELSE e

\* The loop over the pairs stops at the first one that is acted on.
Visited(p) == \A q \in 1 .. (p - 1) : ~Acts(q)
First(p) == Visited(p) /\ Acts(p)

allExpectedSessionsStable(eps) ==
  \A p \in Pairs : eps[p].stable # Never /\ eps[p].stable >= StablePeriod

\* What planSessionRecovery decides: the action, the episodes, whether the
\* budget is cleared, and the budget.
HalfOpen == allUnhealthy /\ childHalfOpenDue(budget)
PlannedAction ==
  IF HalfOpen THEN [action |-> "RestartChild", pair |-> 0]
  ELSE IF \E p \in Pairs : First(p)
         THEN LET p == CHOOSE q \in Pairs : First(q)
              IN  [action |-> Action(p), pair |-> p]
         ELSE NoAction
PlannedEpisodes ==
  IF HalfOpen THEN ep
  ELSE [p \in Pairs |-> IF Visited(p) THEN planEpisodeRecovery(p) ELSE ep[p]]
Cleared(eps) == ~allUnhealthy /\ allExpectedSessionsStable(eps)
PlannedBudget(action, cleared) ==
  IF cleared THEN NoBudgetUsed
  ELSE IF action = "RestartChild" THEN reserveChildRestart(budget)
  ELSE budget

-----------------------------------------------------------------------------
(* Initial state: a new pod, no state file. *)

Init ==
  /\ pc = "boot"
  /\ \E s \in Starts :
       /\ ep = [p \in 1 .. s[1] |-> NewEpisode]
       /\ faults = s[2]
  /\ budget = NoBudgetUsed
  /\ inherited = Zero
  /\ halfOpen = FALSE
  /\ pending = NoAction
  /\ status = [live |-> FALSE, ready |-> FALSE]
  /\ disk = [ep |-> ep, budget |-> NoBudgetUsed]
  /\ child = FALSE
  /\ sess = [p \in Pairs |-> "Absent"]
  /\ lag = 0
  /\ polled = FALSE
  /\ strikes = 0
  /\ owed = NothingOwed

\* AtomicWriteFile: the file is the new state or still the old one.
saveState(saved, eps, b) ==
  disk' = IF saved THEN [ep |-> eps, budget |-> b] ELSE disk

-----------------------------------------------------------------------------
(* A container starts: NewSupervisor, then StartChild. *)

loadStateBug ==
  /\ ep' = disk.ep
  /\ budget' = NoBudgetUsed
loadState ==
  /\ ep' = disk.ep
  /\ budget' = disk.budget

\* NewSupervisor, and StartChild up to the start of the child: the state it
\* saves first is the state just loaded.  When that fails the child is not
\* started, and runSupervisor goes on without it.
NewSupervisor ==
  /\ pc = "boot"
  /\ loadState
  /\ inherited' = IF childCircuitOpen(disk.budget)
                    THEN disk.budget.circuit ELSE Zero
  /\ \E saved \in BOOLEAN :
       /\ Failure(saved)
       /\ pc' = IF saved THEN "starting" ELSE "idle"
       /\ halfOpen' = (saved /\ childHalfOpenDue(disk.budget))
  /\ polled' = FALSE
  /\ UNCHANGED <<pending, status, disk, child, sess, lag, strikes, owed>>

\* Restart and the readiness of the daemon's control channel (ManagedChild):
\* the child runs, configured and without sessions, or it does not run.
ChildStarts(ok) ==
  /\ child' = ok
  /\ sess' = [p \in Pairs |-> "Absent"]

StartChild ==
  /\ pc = "starting"
  /\ pc' = "idle"
  /\ lag' = 0
  /\ halfOpen' = FALSE
  /\ UNCHANGED <<ep, pending, polled, strikes, owed>>
  /\ \E ok, saved \in BOOLEAN :
       LET reserve == /\ IF ok THEN halfOpen ELSE ~childCircuitOpen(budget)
                      /\ CanReserve(budget)
           b == IF reserve THEN reserveChildRestart(budget) ELSE budget
           inh == IF ok /\ halfOpen THEN b.circuit ELSE inherited
       IN  /\ Failure(ok /\ saved)
           /\ ChildStarts(ok)
           /\ budget' = b
           /\ inherited' = inh
           /\ status' = [live |-> updateLiveness(b, inh), ready |-> FALSE]
           /\ saveState(saved, ep, b)

-----------------------------------------------------------------------------
(* Reconcile: at the end of the start and on every tick. *)

\* The status query fails: always without the child, sometimes with it.
ReconcileControlFailure ==
  /\ pc = "idle"
  /\ Failure(~child)
  /\ status' = [live |-> updateControlFailureLiveness(budget, inherited),
                ready |-> FALSE]
  /\ polled' = TRUE
  /\ UNCHANGED <<pc, ep, budget, inherited, halfOpen, pending, disk, child,
                 sess, lag, strikes, owed>>

\* The query succeeds: plan, save the plan, and only then act.
ReconcileBug ==
  /\ pc = "idle" /\ child
  /\ polled' = TRUE
  /\ UNCHANGED <<halfOpen, child, sess, lag, strikes>>
  /\ \E saved \in BOOLEAN, act \in {PlannedAction}, eps \in {PlannedEpisodes} :
     \E cleared \in {Cleared(eps)} :
     \E b \in {PlannedBudget(act.action, cleared)} :
       LET inh == IF cleared THEN Zero ELSE inherited
       IN  /\ Failure(saved)
           /\ ep' = eps
           /\ budget' = b
           /\ inherited' = inh
           /\ status' = [live |-> updateChildRunningLiveness(b, inh, child),
                         ready |-> \A p \in Pairs : isUp(p)]
           /\ saveState(saved, eps, b)
           /\ pending' = act
           /\ pc' = IF act # NoAction THEN "acting" ELSE "idle"
           /\ owed' = IF cleared THEN NothingOwed
                      ELSE IF act.action = "RestartChild"
                             THEN [spent |-> Soonest(owed.spent + 1,
                                                     Len(ChildBackoffs) + 1),
                                   quiet |-> b.next]
                             ELSE owed
Reconcile ==
  /\ pc = "idle" /\ child
  /\ polled' = TRUE
  /\ UNCHANGED <<halfOpen, child, sess, lag, strikes>>
  /\ \E saved \in BOOLEAN, act \in {PlannedAction}, eps \in {PlannedEpisodes} :
     \E cleared \in {Cleared(eps)} :
     \E b \in {PlannedBudget(act.action, cleared)} :
       LET inh == IF cleared THEN Zero ELSE inherited
       IN  /\ Failure(saved)
           /\ ep' = eps
           /\ budget' = b
           /\ inherited' = inh
           /\ status' = [live |-> updateChildRunningLiveness(b, inh, child),
                         ready |-> \A p \in Pairs : isUp(p)]
           /\ saveState(saved, eps, b)
           /\ pending' = IF saved THEN act ELSE NoAction
           /\ pc' = IF saved /\ act # NoAction THEN "acting" ELSE "idle"
           /\ owed' = IF cleared THEN NothingOwed
                      ELSE IF saved /\ act.action = "RestartChild"
                             THEN [spent |-> Soonest(owed.spent + 1,
                                                     Len(ChildBackoffs) + 1),
                                   quiet |-> b.next]
                             ELSE owed

\* executeRecoveryAction and recordRecoveryResult.  Whether a replay or a
\* reset succeeds changes nothing that is modelled but the session it resets.
\* A restart that fails leaves no child, or the one it could not stop.  The
\* state saved at the end differs from the file in what is reported only.
SessionAction ==
  /\ pc = "acting" /\ pending.action \in {"Replay", "Reset"}
  /\ sess' = IF pending.action = "Reset" /\ child /\ exists(pending.pair)
               THEN [sess EXCEPT ![pending.pair] = "Down"] ELSE sess
  /\ status' = [live |-> updateChildRunningLiveness(budget, inherited, child),
                ready |-> status.ready]
  /\ pc' = "idle"
  /\ pending' = NoAction
  /\ lag' = 0
  /\ UNCHANGED <<ep, budget, inherited, halfOpen, disk, child, polled, strikes,
                 faults, owed>>

RestartChild ==
  /\ pc = "acting" /\ pending.action = "RestartChild"
  /\ \/ ChildStarts(TRUE) /\ Failure(TRUE)
     \/ ChildStarts(FALSE) /\ Failure(FALSE)
     \/ Failure(FALSE) /\ UNCHANGED <<child, sess>>
  /\ status' = [live |-> updateLiveness(budget, inherited),
                ready |-> status.ready]
  /\ pc' = "idle"
  /\ pending' = NoAction
  /\ lag' = 0
  /\ UNCHANGED <<ep, budget, inherited, halfOpen, disk, polled, strikes, owed>>

-----------------------------------------------------------------------------
(* The environment: the daemon, its peers, the container, the clock. *)

\* A session appears, changes state or goes away: peers and the network.
SessionTurns ==
  /\ child
  /\ \E p \in Pairs : \E s \in {"Up", "Down", "Absent"} \ {sess[p]} :
       sess' = [sess EXCEPT ![p] = s]
  /\ UNCHANGED <<pc, ep, budget, inherited, halfOpen, pending, status, disk,
                 child, lag, polled, strikes, faults, owed>>

ChildExits ==
  /\ child
  /\ ChildStarts(FALSE)
  /\ Failure(FALSE)
  /\ UNCHANGED <<pc, ep, budget, inherited, halfOpen, pending, status, disk,
                 lag, polled, strikes, owed>>

\* The container ends and the kubelet starts the next one: the memory of the
\* supervisor and the child are gone, the volume with the state file stays.
ContainerEnds ==
  /\ pc' = "boot"
  /\ ep' = [p \in Pairs |-> NewEpisode]
  /\ budget' = NoBudgetUsed
  /\ inherited' = Zero
  /\ halfOpen' = FALSE
  /\ pending' = NoAction
  /\ status' = [live |-> FALSE, ready |-> FALSE]
  /\ ChildStarts(FALSE)
  /\ lag' = 0
  /\ polled' = FALSE
  /\ strikes' = 0
  /\ UNCHANGED <<disk, owed>>

Crash == pc # "boot" /\ Failure(FALSE) /\ ContainerEnds

Kill == strikes = FailureThreshold /\ Failure(TRUE) /\ ContainerEnds

\* Time passes.  The ticker runs a reconciliation in every period in which
\* the supervisor is idle, and the kubelet probes once the container is up.
AgedEpisodes(eps) ==
  [p \in Pairs |->
     [eps[p] EXCEPT !.next = IF @ > 0 THEN @ - 1 ELSE 0,
                    !.failing = Older(@, GracePeriod),
                    !.stable = Older(@, StablePeriod)]]
AgedBudget(b) ==
  [tries |-> b.tries, next |-> Aged(b.next), circuit |-> Aged(b.circuit)]

Tick ==
  /\ pc = "idle" => polled
  /\ pc \in {"starting", "acting"} => lag < MaxLag
  /\ polled' = FALSE
  /\ UNCHANGED <<pc, halfOpen, pending, status, child, sess, faults>>
  /\ ep' = AgedEpisodes(ep)
  /\ budget' = AgedBudget(budget)
  /\ inherited' = Aged(inherited)
  /\ disk' = [ep |-> AgedEpisodes(disk.ep), budget |-> AgedBudget(disk.budget)]
  /\ owed' = [spent |-> owed.spent, quiet |-> Aged(owed.quiet)]
  /\ lag' = IF pc \in {"starting", "acting"} THEN lag + 1 ELSE 0
  /\ strikes' = IF pc \notin {"idle", "acting"} THEN 0
                ELSE IF strikes = FailureThreshold THEN strikes
                ELSE IF status.live THEN 0 ELSE strikes + 1

-----------------------------------------------------------------------------

\* The steps of the one goroutine that does the work, runSupervisor.
Supervisor ==
  \/ NewSupervisor
  \/ StartChild
  \/ ReconcileControlFailure
  \/ Reconcile
  \/ SessionAction
  \/ RestartChild

Next ==
  \/ Supervisor
  \/ SessionTurns
  \/ ChildExits
  \/ Crash
  \/ Kill
  \/ Tick

Spec == Init /\ [][Next]_vars

\* The supervisor takes its next step, time passes, and the kubelet acts on
\* the probes.  Failures and the peers owe nothing.
Fairness == WF_vars(Supervisor) /\ WF_vars(Kill) /\ WF_vars(Tick)

FairSpec == Spec /\ Fairness

-----------------------------------------------------------------------------
(* Properties. *)

\* Every variable has its type, and only a start or an action under way takes
\* time.
TypeOK ==
  /\ pc \in {"boot", "starting", "idle", "acting"}
  /\ \E s \in Starts : Pairs = 1 .. s[1]
  /\ ep \in [Pairs -> Episodes]
  /\ budget \in Budgets
  /\ inherited \in Times
  /\ halfOpen \in BOOLEAN
  /\ pending \in [action : {"None", "Replay", "Reset", "RestartChild"},
                  pair : Pairs \union {0}]
  /\ status \in [live : BOOLEAN, ready : BOOLEAN]
  /\ disk \in [ep : [Pairs -> Episodes], budget : Budgets]
  /\ child \in BOOLEAN
  /\ sess \in [Pairs -> {"Up", "Down", "Absent"}]
  /\ lag \in 0 .. MaxLag
  /\ pc \in {"boot", "idle"} => lag = 0
  /\ polled \in BOOLEAN
  /\ strikes \in 0 .. FailureThreshold
  /\ faults \in Nat
  /\ owed \in [spent : 0 .. Len(ChildBackoffs) + 1, quiet : Times]

\* The budget outlives the container.  The state file, and the memory of a
\* running supervisor, count at least the restarts of the child that were
\* handed to execution since the budget was last cleared, and hold back the
\* next one at least as long as the last of them promised, whatever crashes,
\* failed writes and failed starts come between ("container restart must not
\* reset the per-pod child recovery budget", recovery_test.go:679).
BudgetCovers(b) == owed.spent <= b.tries /\ owed.quiet <= b.next
BudgetKept ==
  /\ BudgetCovers(disk.budget)
  /\ pc # "boot" => BudgetCovers(budget)

\* Recovery restarts the child no sooner after its last restart than the wait
\* that one was planned with, unless every session was stable in between,
\* even when the container is replaced meanwhile ("internal start backoff must
\* not trigger kubelet recovery early", recovery_test.go:700).
RestartsPaced ==
  [][ /\ pc = "idle" /\ pc' = "acting" /\ pending'.action = "RestartChild"
      => owed.quiet <= 0 ]_vars

\* A container that came up under an open circuit, or opened it with the one
\* restart it owes after it ran out, is not condemned by the liveness probe
\* while that circuit is open ("generation inheriting the same circuit must
\* not enter a kubelet restart loop", recovery_test.go:754).
InheritedSpared ==
  strikes = FailureThreshold =>
    ~(budget.circuit > 0 /\ budget.circuit = inherited)

\* When failures cease, a child that has gone comes back: either the kubelet
\* is told, or the supervisor starts it itself.
ChildComesBack == []<>child

\* A session that stays away while the child runs is never given up: it is
\* replayed, reset or the child restarted for it again and again.
StillTried ==
  \A p \in UNION {1 .. s[1] : s \in Starts} :
    <>[](child /\ p \in Pairs /\ ~isUp(p)) =>
      []<>(pc = "acting" /\ pending.pair = p)

\* Once every session stays Up, all that was counted against the sessions and
\* the child is forgotten, and the container is live and ready.
BudgetRestored ==
  <>[](child /\ \A p \in Pairs : isUp(p)) =>
    <>[](/\ budget = NoBudgetUsed
         /\ \A p \in Pairs : ep[p].attempts = 0
         /\ status.live /\ status.ready)
=============================================================================
