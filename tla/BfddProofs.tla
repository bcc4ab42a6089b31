------------------------------ MODULE BfddProofs ------------------------------
(***************************************************************************)
(* Proofs about BfddSupervisor, for any number of sessions, any periods    *)
(* and backoffs and any number of failures: the budget of child restarts   *)
(* survives crashes, failed writes and new containers, restarts are paced  *)
(* by it, and a container that inherits an open circuit is spared.         *)
(***************************************************************************)
EXTENDS BfddSupervisor, TLAPS

\* What the two budgets, the history and the clock reading are, which is all
\* the argument about the budget needs of the types.
BudgetTypes ==
  /\ budget \in Budgets
  /\ disk.budget \in Budgets
  /\ owed \in [spent : 0 .. Len(ChildBackoffs) + 1, quiet : Times]
  /\ lag \in 0 .. MaxLag

\* The zero time is the least, and ageing keeps times and their order.
LEMMA AgedTimes ==
  /\ Zero \in Times
  /\ \A t \in Times : Aged(t) \in Times
  /\ \A s, t \in Times : s <= t => Aged(s) <= Aged(t)
BY SupervisorAssumption DEF Times, Zero, Aged

LEMMA NoBudgetType == NoBudgetUsed \in Budgets
BY SupervisorAssumption, AgedTimes DEF NoBudgetUsed, Budgets

LEMMA AgedBudgetType ==
  ASSUME NEW b \in Budgets
  PROVE  /\ AgedBudget(b) \in Budgets
         /\ AgedBudget(b).tries = b.tries
         /\ AgedBudget(b).next = Aged(b.next)
BY AgedTimes DEF AgedBudget, Budgets

\* A wait counted from the clock reading in use is a time, and one of at least
\* a tick lies after every deadline that reading has passed.
LEMMA AfterTimes ==
  ASSUME lag \in 0 .. MaxLag, NEW d \in Nat \ {0}
  PROVE  /\ After(d) \in Times
         /\ \A t \in Times : ~Before(t) => t <= After(d)
BY SupervisorAssumption DEF After, Before, Reading, Times, Zero

\* reserveChildRestart counts one restart more, up to the cap, and moves the
\* next one back.
LEMMA ReserveGrows ==
  ASSUME lag \in 0 .. MaxLag, NEW b \in Budgets, CanReserve(b)
  PROVE  /\ reserveChildRestart(b) \in Budgets
         /\ reserveChildRestart(b).tries
              = Soonest(b.tries + 1, Len(ChildBackoffs) + 1)
         /\ b.next <= reserveChildRestart(b).next
<1> DEFINE n == Soonest(b.tries + 1, Len(ChildBackoffs) + 1)
<1>1. Len(ChildBackoffs) \in Nat
  BY SupervisorAssumption
<1>2. b.tries \in 0 .. Len(ChildBackoffs) + 1 /\ b.next \in Times
  BY DEF Budgets
<1>3. n \in 1 .. Len(ChildBackoffs) + 1
  BY <1>1, <1>2 DEF Soonest
<1>4. CASE n > Len(ChildBackoffs)
  <2>1. reserveChildRestart(b) = [tries |-> n, next |-> After(CircuitOpen),
                                  circuit |-> After(CircuitOpen)]
    BY <1>4 DEF reserveChildRestart
  <2>2. After(CircuitOpen) \in Times /\ b.next <= After(CircuitOpen)
    BY SupervisorAssumption, AfterTimes, <1>2 DEF CanReserve
  <2> HIDE DEF n
  <2> QED
    BY <1>1, <1>3, <2>1, <2>2 DEF Budgets, n
<1>5. CASE ~(n > Len(ChildBackoffs))
  <2>1. reserveChildRestart(b) = [tries |-> n, next |-> After(ChildBackoffs[n]),
                                  circuit |-> Zero]
    BY <1>5 DEF reserveChildRestart
  <2>2. ChildBackoffs[n] \in Nat \ {0}
    <3>1. n \in 1 .. Len(ChildBackoffs)
      BY <1>1, <1>3, <1>5
    <3> HIDE DEF n
    <3> QED
      BY <3>1, SupervisorAssumption
  <2>3. /\ After(ChildBackoffs[n]) \in Times
        /\ b.next <= After(ChildBackoffs[n])
    BY AfterTimes, <1>2, <2>2 DEF CanReserve
  <2> HIDE DEF n
  <2> QED
    BY <1>1, <1>3, <2>1, <2>3, AgedTimes DEF Budgets, n
<1> QED
  BY <1>4, <1>5

\* A restart is planned only when the budget lets one be reserved: by the half-
\* open circuit, or by the first pair that is acted on.
LEMMA PlanReserves ==
  ASSUME PlannedAction.action = "RestartChild"
  PROVE  CanReserve(budget)
<1>1. CASE HalfOpen
  BY <1>1 DEF HalfOpen, childHalfOpenDue, CanReserve
<1>2. CASE ~HalfOpen /\ \E p \in Pairs : First(p)
  <2> DEFINE q == CHOOSE r \in Pairs : First(r)
  <2>1. First(q)
    BY <1>2
  <2>2. PlannedAction.action = Action(q)
    BY <1>2 DEF PlannedAction
  <2> HIDE DEF q
  <2> QED
    BY <2>1, <2>2 DEF First, Acts, Refused
<1>3. CASE ~HalfOpen /\ ~\E p \in Pairs : First(p)
  BY <1>3 DEF PlannedAction, NoAction
<1> QED
  BY <1>1, <1>2, <1>3

BudgetInv == BudgetTypes /\ BudgetKept

LEMMA BudgetInit == Init => BudgetInv
<1> SUFFICES ASSUME Init PROVE BudgetInv
  OBVIOUS
<1>1. Len(ChildBackoffs) \in Nat /\ MaxLag \in Nat
  BY SupervisorAssumption
<1>2. BudgetTypes
  BY <1>1, NoBudgetType, AgedTimes DEF Init, BudgetTypes, NothingOwed
<1>3. BudgetKept
  BY <1>1 DEF Init, BudgetKept, BudgetCovers, NothingOwed, NoBudgetUsed, Zero
<1> QED
  BY <1>2, <1>3 DEF BudgetInv

\* Reconciliation writes the reservation to the file before it is owed; when
\* the write fails nothing new is owed, and clearing owes nothing.
LEMMA BudgetReconcile == BudgetInv /\ Reconcile => BudgetInv'
<1> SUFFICES ASSUME BudgetInv, Reconcile PROVE BudgetInv'
  OBVIOUS
<1> USE DEF BudgetInv
<1>0. Len(ChildBackoffs) \in Nat /\ MaxLag \in Nat /\ pc = "idle"
  BY SupervisorAssumption DEF Reconcile
<1>1. PICK saved \in BOOLEAN, act \in {PlannedAction}, eps \in {PlannedEpisodes} :
        \E cleared \in {Cleared(eps)} :
        \E b \in {PlannedBudget(act.action, cleared)} :
          /\ budget' = b
          /\ saveState(saved, eps, b)
          /\ owed' = IF cleared THEN NothingOwed
                     ELSE IF saved /\ act.action = "RestartChild"
                            THEN [spent |-> Soonest(owed.spent + 1,
                                                    Len(ChildBackoffs) + 1),
                                  quiet |-> b.next]
                            ELSE owed
  BY DEF Reconcile
<1> DEFINE cl == Cleared(eps)
           nb == PlannedBudget(act.action, cl)
<1>2. /\ budget' = nb
      /\ disk' = IF saved THEN [ep |-> eps, budget |-> nb] ELSE disk
      /\ owed' = IF cl THEN NothingOwed
                 ELSE IF saved /\ act.action = "RestartChild"
                        THEN [spent |-> Soonest(owed.spent + 1,
                                                Len(ChildBackoffs) + 1),
                              quiet |-> nb.next]
                        ELSE owed
  BY <1>1 DEF saveState
<1>3. lag' = lag
  BY DEF Reconcile
<1>4. CASE cl
  <2>1. nb = NoBudgetUsed /\ owed' = NothingOwed
    BY <1>4, <1>2 DEF PlannedBudget
  <2>2. \A b \in Budgets : BudgetCovers(b)'
    BY <1>0, <2>1 DEF BudgetCovers, NothingOwed, Budgets, Times
  <2>3. owed' \in [spent : 0 .. Len(ChildBackoffs) + 1, quiet : Times]
    BY <1>0, <2>1, AgedTimes DEF NothingOwed
  <2>4. budget' \in Budgets /\ disk'.budget \in Budgets
    <3> HIDE DEF nb
    <3> QED
      BY <1>2, <2>1, NoBudgetType DEF BudgetTypes
  <2> QED
    BY <1>3, <2>2, <2>3, <2>4 DEF BudgetTypes, BudgetKept
<1>5. CASE ~cl /\ act.action = "RestartChild"
  <2>1. nb = reserveChildRestart(budget)
    BY <1>5 DEF PlannedBudget
  <2>2. CanReserve(budget)
    BY <1>5, PlanReserves
  <2>3. /\ nb \in Budgets
        /\ nb.tries = Soonest(budget.tries + 1, Len(ChildBackoffs) + 1)
        /\ budget.next <= nb.next
    BY <2>1, <2>2, ReserveGrows DEF BudgetTypes
  <2> HIDE DEF nb
  <2>4. CASE saved
    <3>1. budget' = nb /\ disk'.budget = nb
      BY <1>2, <2>4
    <3>2. owed' = [spent |-> Soonest(owed.spent + 1, Len(ChildBackoffs) + 1),
                   quiet |-> nb.next]
      BY <1>2, <1>5, <2>4
    <3>3. /\ owed.spent \in 0 .. Len(ChildBackoffs) + 1
          /\ budget.tries \in 0 .. Len(ChildBackoffs) + 1
          /\ owed.spent <= budget.tries
          /\ nb.next \in Times
      BY <1>0, <2>3 DEF BudgetTypes, BudgetKept, BudgetCovers, Budgets
    <3>4. owed' \in [spent : 0 .. Len(ChildBackoffs) + 1, quiet : Times]
      BY <1>0, <3>2, <3>3 DEF Soonest
    <3>5. owed'.spent <= nb.tries /\ owed'.quiet <= nb.next
      BY <1>0, <2>3, <3>2, <3>3 DEF Soonest, Times
    <3> QED
      BY <1>3, <2>3, <3>1, <3>4, <3>5
      DEF BudgetTypes, BudgetKept, BudgetCovers
  <2>5. CASE ~saved
    BY <1>0, <1>2, <1>3, <1>5, <2>3, <2>5
    DEF BudgetTypes, BudgetKept, BudgetCovers, Budgets, Times, Soonest
  <2> QED
    BY <2>4, <2>5
<1>6. CASE ~cl /\ act.action # "RestartChild"
  <2>1. nb = budget
    BY <1>6 DEF PlannedBudget
  <2> HIDE DEF nb
  <2> QED
    BY <1>0, <1>2, <1>3, <1>6, <2>1 DEF BudgetTypes, BudgetKept, BudgetCovers
<1> QED
  BY <1>4, <1>5, <1>6

\* StartChild may reserve, which only raises what the budget counts.
LEMMA BudgetStartChild == BudgetInv /\ StartChild => BudgetInv'
<1> SUFFICES ASSUME BudgetInv, StartChild PROVE BudgetInv'
  OBVIOUS
<1> USE DEF BudgetInv
<1>0. Len(ChildBackoffs) \in Nat /\ MaxLag \in Nat /\ pc = "starting"
  BY SupervisorAssumption DEF StartChild
<1> DEFINE b == budget'
<1>1. PICK saved \in BOOLEAN :
        /\ \/ b = budget
           \/ CanReserve(budget) /\ b = reserveChildRestart(budget)
        /\ saveState(saved, ep, b)
  BY DEF StartChild
<1>2. b \in Budgets /\ budget.tries <= b.tries /\ budget.next <= b.next
  <2>1. CASE b = budget
    BY <2>1 DEF BudgetTypes, Budgets, Times
  <2>2. CASE CanReserve(budget) /\ b = reserveChildRestart(budget)
    BY <1>0, <2>2, ReserveGrows DEF BudgetTypes, Budgets, Soonest
  <2> QED
    BY <1>1, <2>1, <2>2
<1>3. lag' = 0 /\ owed' = owed
  BY DEF StartChild
<1>4. disk'.budget = b \/ disk'.budget = disk.budget
  BY <1>1 DEF saveState
<1>5. BudgetTypes'
  BY <1>0, <1>2, <1>3, <1>4 DEF BudgetTypes
<1>6. BudgetCovers(budget) /\ BudgetCovers(disk.budget)
  BY <1>0 DEF BudgetKept
<1>7. BudgetCovers(budget)'
  BY <1>2, <1>3, <1>6 DEF BudgetCovers, BudgetTypes, Budgets, Times
<1>8. BudgetCovers(disk.budget)'
  BY <1>3, <1>4, <1>6, <1>7 DEF BudgetCovers
<1> QED
  BY <1>5, <1>7, <1>8, Zenon DEF BudgetKept

LEMMA BudgetTick == BudgetInv /\ Tick => BudgetInv'
<1> SUFFICES ASSUME BudgetInv, Tick PROVE BudgetInv'
  OBVIOUS
<1> USE DEF BudgetInv
<1>0. Len(ChildBackoffs) \in Nat /\ MaxLag \in Nat
  BY SupervisorAssumption
<1>1. /\ budget' = AgedBudget(budget)
      /\ disk'.budget = AgedBudget(disk.budget)
      /\ pc' = pc
      /\ lag' \in 0 .. MaxLag
  BY <1>0 DEF Tick, BudgetTypes
<1>2. owed' \in [spent : 0 .. Len(ChildBackoffs) + 1, quiet : Times]
      /\ owed'.spent = owed.spent /\ owed'.quiet = Aged(owed.quiet)
  BY <1>0, AgedTimes DEF Tick, BudgetTypes
<1>3. \A b \in Budgets : BudgetCovers(b) => BudgetCovers(AgedBudget(b))'
  BY <1>2, AgedBudgetType, AgedTimes DEF BudgetCovers, BudgetTypes, Budgets
<1> QED
  BY <1>1, <1>2, <1>3, AgedBudgetType DEF BudgetTypes, BudgetKept

\* The steps that load the file, lose the memory, or leave both budgets alone.
LEMMA BudgetOther ==
  ASSUME BudgetInv,
         \/ NewSupervisor \/ ReconcileControlFailure \/ SessionAction
         \/ RestartChild \/ SessionTurns \/ ChildExits \/ Crash \/ Kill
  PROVE  BudgetInv'
<1> USE SupervisorAssumption DEF BudgetInv
<1>1. CASE NewSupervisor
  BY <1>1 DEF NewSupervisor, loadState, BudgetTypes, BudgetKept, BudgetCovers
<1>2. CASE ReconcileControlFailure
  BY <1>2 DEF ReconcileControlFailure, BudgetTypes, BudgetKept, BudgetCovers
<1>3. CASE SessionAction
  BY <1>3 DEF SessionAction, BudgetTypes, BudgetKept, BudgetCovers
<1>4. CASE RestartChild
  BY <1>4 DEF RestartChild, BudgetTypes, BudgetKept, BudgetCovers
<1>5. CASE SessionTurns
  BY <1>5 DEF SessionTurns, BudgetTypes, BudgetKept, BudgetCovers
<1>6. CASE ChildExits
  BY <1>6 DEF ChildExits, BudgetTypes, BudgetKept, BudgetCovers
<1>7. CASE Crash \/ Kill
  <2>1. ContainerEnds
    BY <1>7, Zenon DEF Crash, Kill
  <2> QED
    BY <2>1, NoBudgetType
    DEF ContainerEnds, BudgetTypes, BudgetKept, BudgetCovers
<1> QED
  BY <1>1, <1>2, <1>3, <1>4, <1>5, <1>6, <1>7

LEMMA BudgetStep == BudgetInv /\ [Next]_vars => BudgetInv'
<1> SUFFICES ASSUME BudgetInv, [Next]_vars PROVE BudgetInv'
  OBVIOUS
<1>1. CASE Reconcile
  BY <1>1, BudgetReconcile
<1>2. CASE StartChild
  BY <1>2, BudgetStartChild
<1>3. CASE Tick
  BY <1>3, BudgetTick
<1>4. CASE \/ NewSupervisor \/ ReconcileControlFailure \/ SessionAction
           \/ RestartChild \/ SessionTurns \/ ChildExits \/ Crash \/ Kill
  BY <1>4, BudgetOther
<1>5. CASE UNCHANGED vars
  BY <1>5 DEF vars, BudgetInv, BudgetTypes, BudgetKept, BudgetCovers
<1> QED
  BY <1>1, <1>2, <1>3, <1>4, <1>5 DEF Next, Supervisor

\* The budget of child restarts outlives the container, for any periods,
\* backoffs, number of sessions and failures: the file and a running
\* supervisor never count fewer restarts, nor promise an earlier one, than
\* reconciliation has handed out since the budget was last cleared.
THEOREM BudgetAlwaysKept == Spec => []BudgetKept
<1>1. Spec => []BudgetInv
  BY BudgetInit, BudgetStep, PTL DEF Spec
<1>2. BudgetInv => BudgetKept
  BY DEF BudgetInv
<1> QED
  BY <1>1, <1>2, PTL

\* Restarts of the child for recovery are paced, across containers: one is
\* planned only when the wait of the last has passed.
THEOREM RestartsAlwaysPaced == Spec => RestartsPaced
<1> DEFINE Planned == /\ pc = "idle" /\ pc' = "acting"
                      /\ pending'.action = "RestartChild"
<1>1. BudgetInv /\ [Next]_vars => (Planned => owed.quiet <= 0)
  <2> SUFFICES ASSUME BudgetInv, [Next]_vars, Planned PROVE owed.quiet <= 0
    OBVIOUS
  <2>1. Reconcile
    <3>1. ~(NewSupervisor \/ StartChild \/ SessionAction \/ RestartChild)
      BY DEF NewSupervisor, StartChild, SessionAction, RestartChild
    <3>2. ~(ReconcileControlFailure \/ SessionTurns \/ ChildExits \/ Tick)
      BY DEF ReconcileControlFailure, SessionTurns, ChildExits, Tick
    <3>3. ~(Crash \/ Kill \/ UNCHANGED vars)
      BY DEF Crash, Kill, ContainerEnds, vars
    <3> QED
      BY <3>1, <3>2, <3>3, Zenon DEF Next, Supervisor
  <2>2. PlannedAction.action = "RestartChild"
    BY <2>1 DEF Reconcile, NoAction
  <2>3. ~Before(budget.next)
    BY <2>2, PlanReserves DEF CanReserve
  <2> QED
    BY <2>3 DEF BudgetInv, BudgetTypes, Budgets, Times, BudgetKept,
                BudgetCovers, Before, Reading
<1>2. Spec => []BudgetInv
  BY BudgetInit, BudgetStep, PTL DEF Spec
<1> QED
  BY <1>1, <1>2, PTL DEF Spec, RestartsPaced

-----------------------------------------------------------------------------
(***************************************************************************)
(* InheritedSpared.  Its inductive strengthening says of an open circuit   *)
(* that the next restart is due when it ends, that an inherited circuit    *)
(* still running is the circuit, and how a probe can fail while it runs:   *)
(* only once, because the child died under an action, and the next         *)
(* reconciliation makes the container live again.                          *)
(***************************************************************************)

CircuitIsNext(b) == b.circuit > 0 => b.next = b.circuit
Inherits == budget.circuit > 0 /\ budget.circuit = inherited

Spared ==
  Inherits =>
    \/ /\ strikes = 0
       /\ pc = "acting" => status.live
       /\ pc = "idle" /\ polled => status.live \/ ~child
    \/ /\ strikes = 1 /\ pc = "idle" /\ ~child
       /\ polled => status.live

SparedInv ==
  /\ BudgetTypes
  /\ inherited \in Times
  /\ strikes \in Nat
  /\ pc \in {"boot", "idle"} => lag = 0
  /\ CircuitIsNext(budget) /\ CircuitIsNext(disk.budget)
  /\ inherited > 0 => inherited = budget.circuit
  /\ pc \in {"boot", "starting"} => strikes = 0
  /\ Spared

LEMMA SparedInit == Init => SparedInv
<1> SUFFICES ASSUME Init PROVE SparedInv
  OBVIOUS
<1>1. BudgetTypes
  BY BudgetInit DEF BudgetInv
<1>2. Zero <= 0 /\ MaxLag \in Nat
  BY SupervisorAssumption DEF Zero
<1> QED
  BY <1>1, <1>2, AgedTimes
  DEF Init, SparedInv, Spared, CircuitIsNext, Inherits, NoBudgetUsed

\* A reservation is possible only when the circuit is over, and opens one
\* that differs from any inherited, or none.
LEMMA ReserveCircuit ==
  ASSUME lag \in 0 .. MaxLag, NEW b \in Budgets, CanReserve(b)
  PROVE  /\ CircuitIsNext(reserveChildRestart(b))
         /\ reserveChildRestart(b).circuit = Zero
              \/ reserveChildRestart(b).circuit = After(CircuitOpen)
BY SupervisorAssumption DEF reserveChildRestart, CircuitIsNext, Zero

LEMMA SparedReconcile == SparedInv /\ BudgetInv' /\ Reconcile => SparedInv'
<1> SUFFICES ASSUME SparedInv, BudgetInv', Reconcile PROVE SparedInv'
  BY Zenon
<1>0. /\ MaxLag \in Nat /\ pc = "idle" /\ child /\ child' = child /\ lag = 0
      /\ lag' = 0 /\ strikes' = strikes /\ pc' \in {"idle", "acting"}
      /\ CircuitOpen \in Nat \ {0} /\ Zero <= 0 /\ Zero \in Int
  BY SupervisorAssumption DEF Reconcile, SparedInv, Zero
<1>1. PICK saved, cl, act :
        /\ saved \in BOOLEAN
        /\ cl \/ act # "RestartChild" \/ act = PlannedAction.action
        /\ budget' = PlannedBudget(act, cl)
        /\ inherited' = (IF cl THEN Zero ELSE inherited)
        /\ status'.live = updateChildRunningLiveness(budget', inherited', child)
        /\ disk'.budget = IF saved THEN budget' ELSE disk.budget
  BY DEF Reconcile, saveState
<1>2. CircuitIsNext(budget')
  <2>1. CASE cl
    BY <2>1, <1>0, <1>1 DEF PlannedBudget, NoBudgetUsed, CircuitIsNext
  <2>2. CASE ~cl /\ act = "RestartChild"
    BY <2>2, <1>1, PlanReserves, ReserveCircuit
    DEF PlannedBudget, SparedInv, BudgetTypes
  <2>3. CASE ~cl /\ act # "RestartChild"
    BY <2>3, <1>1 DEF PlannedBudget, SparedInv
  <2> QED
    BY <2>1, <2>2, <2>3
<1>3. /\ inherited' \in Times
      /\ inherited' > 0 => inherited' = budget'.circuit
      /\ Inherits' => Inherits
  <2>1. CASE cl
    BY <2>1, <1>0, <1>1, AgedTimes
    DEF PlannedBudget, NoBudgetUsed, Inherits
  <2>2. CASE ~cl /\ act = "RestartChild"
    <3>1. ~Before(budget.next)
      BY <2>2, <1>1, PlanReserves DEF CanReserve
    <3>2. budget.circuit <= 0 /\ inherited <= 0
      BY <3>1, <1>0
      DEF SparedInv, CircuitIsNext, Before, Reading, BudgetTypes, Budgets, Times
    <3> QED
      BY <3>2, <2>2, <1>0, <1>1 DEF Inherits, SparedInv, Times
  <2>3. CASE ~cl /\ act # "RestartChild"
    BY <2>3, <1>1 DEF PlannedBudget, SparedInv, Inherits
  <2> QED
    BY <2>1, <2>2, <2>3
<1>4. Inherits' => strikes = 0 /\ status'.live
  <2>1. Inherits' => strikes = 0
    BY <1>0, <1>3 DEF SparedInv, Spared
  <2>2. Inherits' => status'.live
    BY <1>0, <1>1, Zenon
    DEF Inherits, updateChildRunningLiveness, childCircuitFailsLiveness
  <2> QED
    BY <2>1, <2>2
<1>5. CircuitIsNext(disk.budget)'
  BY <1>1, <1>2 DEF SparedInv, CircuitIsNext
<1>6. strikes' \in Nat /\ pc' \notin {"boot", "starting"}
  BY <1>0 DEF SparedInv
<1>7. Spared'
  BY <1>0, <1>4 DEF Spared
<1> QED
  BY <1>0, <1>2, <1>3, <1>5, <1>6, <1>7, Zenon DEF SparedInv, BudgetInv

LEMMA SparedStartChild == SparedInv /\ BudgetInv' /\ StartChild => SparedInv'
<1> SUFFICES ASSUME SparedInv, BudgetInv', StartChild PROVE SparedInv'
  BY Zenon
<1>0. /\ MaxLag \in Nat /\ pc = "starting" /\ pc' = "idle" /\ lag' = 0
      /\ strikes = 0 /\ strikes' = 0 /\ Zero <= 0
  BY SupervisorAssumption DEF StartChild, SparedInv, Zero
<1>1. PICK ok, saved \in BOOLEAN :
        /\ \/ budget' = budget
           \/ CanReserve(budget) /\ budget' = reserveChildRestart(budget)
        /\ inherited' = IF ok /\ halfOpen THEN budget'.circuit ELSE inherited
        /\ status'.live = updateLiveness(budget', inherited')
        /\ disk'.budget = IF saved THEN budget' ELSE disk.budget
  BY DEF StartChild, saveState
<1>2. CircuitIsNext(budget')
  BY <1>1, ReserveCircuit DEF SparedInv, BudgetTypes
<1>3. inherited' \in Times /\ (inherited' > 0 => inherited' = budget'.circuit)
  <2>1. CASE ok /\ halfOpen
    BY <2>1, <1>1 DEF BudgetInv, BudgetTypes, Budgets
  <2>2. CASE ~(ok /\ halfOpen) /\ budget' = budget
    BY <2>2, <1>1 DEF SparedInv
  <2>3. CASE ~(ok /\ halfOpen) /\ CanReserve(budget)
    <3>1. budget.circuit <= 0
      BY <2>3, <1>0
      DEF CanReserve, Before, Reading, SparedInv, CircuitIsNext, BudgetTypes,
          Budgets, Times
    <3>2. inherited <= 0
      BY <3>1 DEF SparedInv, Times
    <3> QED
      BY <2>3, <3>2, <1>1 DEF SparedInv, Times
  <2> QED
    BY <1>1, <2>1, <2>2, <2>3
<1>4. Inherits' => status'.live
  BY <1>1, Zenon DEF Inherits, updateLiveness, childCircuitFailsLiveness
<1>5. CircuitIsNext(disk.budget)'
  BY <1>1, <1>2 DEF SparedInv, CircuitIsNext
<1>6. strikes' \in Nat
  BY <1>0
<1>7. Spared'
  BY <1>0, <1>4 DEF Spared
<1> QED
  BY <1>0, <1>2, <1>3, <1>5, <1>6, <1>7, Zenon DEF SparedInv, BudgetInv

\* The query fails.  Under an inherited circuit the next restart is still to
\* come, so the container is live whether the child runs or not.
LEMMA SparedControlFailure ==
  SparedInv /\ ReconcileControlFailure => SparedInv'
<1> SUFFICES ASSUME SparedInv, ReconcileControlFailure PROVE SparedInv'
  BY Zenon
<1>1. Inherits => status'.live
  <2>1. CASE child
    BY <2>1, Zenon DEF ReconcileControlFailure, updateControlFailureLiveness,
                updateLiveness, childCircuitFailsLiveness, Inherits
  <2>2. CASE ~child
    <3>1. Inherits => Before(budget.next)
      BY DEF Inherits, SparedInv, CircuitIsNext, Before, Reading, BudgetTypes,
          Budgets, Times, ReconcileControlFailure
    <3> QED
      BY <2>2, <3>1, Zenon
      DEF ReconcileControlFailure, updateControlFailureLiveness,
          childCircuitFailsLiveness, Inherits
  <2> QED
    BY <2>1, <2>2
<1>2. /\ pc = "idle" /\ pc' = pc /\ child' = child /\ strikes' = strikes
      /\ budget' = budget /\ disk' = disk /\ inherited' = inherited
      /\ owed' = owed /\ lag' = lag
  BY DEF ReconcileControlFailure
<1>3. Inherits' => Inherits
  BY <1>2 DEF Inherits
<1>4. Spared'
  BY <1>1, <1>2, <1>3 DEF SparedInv, Spared
<1> QED
  BY <1>2, <1>4, Zenon DEF SparedInv, BudgetTypes, CircuitIsNext

\* An action that ends leaves the budget alone.
LEMMA IdleSpared ==
  ASSUME SparedInv, pc' = "idle", lag' = 0, strikes' = strikes, budget' = budget,
         disk' = disk, inherited' = inherited, owed' = owed, Spared'
  PROVE  SparedInv'
<1>1. lag' \in 0 .. MaxLag
  BY SupervisorAssumption
<1>2. BudgetTypes'
  BY <1>1, Zenon DEF SparedInv, BudgetTypes
<1> QED
  BY <1>2, Zenon DEF SparedInv, CircuitIsNext

LEMMA SparedAction == SparedInv /\ (SessionAction \/ RestartChild) => SparedInv'
<1>1. ASSUME SparedInv, SessionAction PROVE SparedInv'
  <2>1. Inherits /\ child => status'.live
    BY <1>1, Zenon DEF SessionAction, updateChildRunningLiveness,
                childCircuitFailsLiveness, Inherits
  <2>2. /\ pc = "acting" /\ child' = child
        /\ pc' = "idle" /\ lag' = 0 /\ strikes' = strikes
        /\ budget' = budget /\ disk' = disk /\ inherited' = inherited
        /\ owed' = owed
    BY <1>1 DEF SessionAction
  <2>3. Spared'
    <3>1. Inherits' => Inherits /\ strikes = 0
      BY <1>1, <2>2 DEF Inherits, SparedInv, Spared
    <3> QED
      BY <2>1, <2>2, <3>1 DEF Spared
  <2> QED
    BY <1>1, <2>2, <2>3, IdleSpared, Zenon
<1>2. ASSUME SparedInv, RestartChild PROVE SparedInv'
  <2>1. Inherits => status'.live
    BY <1>2, Zenon DEF RestartChild, updateLiveness, childCircuitFailsLiveness,
                Inherits
  <2>2. /\ pc = "acting"
        /\ pc' = "idle" /\ lag' = 0 /\ strikes' = strikes
        /\ budget' = budget /\ disk' = disk /\ inherited' = inherited
        /\ owed' = owed
    BY <1>2 DEF RestartChild
  <2>3. Spared'
    <3>1. Inherits' => Inherits /\ strikes = 0
      BY <1>2, <2>2 DEF Inherits, SparedInv, Spared
    <3> QED
      BY <2>1, <2>2, <3>1 DEF Spared
  <2> QED
    BY <1>2, <2>2, <2>3, IdleSpared, Zenon
<1> QED
  BY <1>1, <1>2

\* Ageing keeps what the circuit and the next restart have to do with each
\* other.
LEMMA AgedCircuit ==
  ASSUME NEW b \in Budgets, CircuitIsNext(b)
  PROVE  /\ CircuitIsNext(AgedBudget(b))
         /\ AgedBudget(b).circuit = Aged(b.circuit)
         /\ AgedBudget(b).circuit > 0 => AgedBudget(b).circuit = b.circuit - 1
<1>1. MaxLag \in Nat /\ b.circuit \in Int /\ b.next \in Int
  BY SupervisorAssumption DEF Budgets, Times
<1>2. AgedBudget(b).circuit = Aged(b.circuit) /\ AgedBudget(b).next = Aged(b.next)
  BY DEF AgedBudget
<1>3. Aged(b.circuit) > 0 => Aged(b.circuit) = b.circuit - 1 /\ b.circuit > 0
  BY <1>1 DEF Aged, Zero
<1>4. b.circuit > 0 => Aged(b.next) = Aged(b.circuit)
  BY Zenon DEF CircuitIsNext
<1> QED
  BY <1>2, <1>3, <1>4 DEF CircuitIsNext

\* So does the inherited circuit, and a probe fails only in the one case left.
LEMMA SparedTick == SparedInv /\ BudgetInv' /\ Tick => SparedInv'
<1> SUFFICES ASSUME SparedInv, BudgetInv', Tick PROVE SparedInv'
  BY Zenon
<1>0. MaxLag \in Nat /\ Zero <= 0 /\ Zero \in Int /\ FailureThreshold \in Nat
  BY SupervisorAssumption DEF Zero
<1>1. /\ budget' = AgedBudget(budget)
      /\ disk'.budget = AgedBudget(disk.budget)
      /\ inherited' = Aged(inherited)
      /\ pc' = pc /\ status' = status /\ child' = child /\ polled' = FALSE
      /\ pc = "idle" => polled
      /\ strikes' = IF pc \notin {"idle", "acting"} THEN 0
                    ELSE IF strikes = FailureThreshold THEN strikes
                    ELSE IF status.live THEN 0 ELSE strikes + 1
  BY DEF Tick
<1>2. /\ CircuitIsNext(budget') /\ CircuitIsNext(disk.budget)'
      /\ inherited' \in Times
      /\ inherited' > 0 => inherited' = budget'.circuit
      /\ Inherits' => Inherits
  <2>1. CircuitIsNext(budget') /\ CircuitIsNext(disk.budget)'
    BY <1>1, AgedCircuit DEF SparedInv, BudgetTypes, CircuitIsNext
  <2>2. /\ budget'.circuit = Aged(budget.circuit)
        /\ budget'.circuit > 0 => budget'.circuit = budget.circuit - 1
        /\ budget.circuit \in Times
    BY <1>1, AgedCircuit DEF SparedInv, BudgetTypes, Budgets
  <2>3. inherited' \in Times /\ (inherited' > 0 => inherited > 0)
    BY <1>0, <1>1 DEF SparedInv, Aged, Times
  <2>4. inherited' > 0 => inherited' = budget'.circuit
    BY <1>1, <2>2, <2>3 DEF SparedInv
  <2>5. Inherits' => Inherits
    BY <1>0, <1>1, <2>2, <2>3 DEF SparedInv, Inherits, Times
  <2> QED
    BY <2>1, <2>3, <2>4, <2>5
<1>3. strikes' \in Nat /\ (pc \in {"boot", "starting"} => strikes' = 0)
  BY <1>0, <1>1 DEF SparedInv
<1>4. pc \in {"boot", "idle"} => lag' = 0
  BY DEF Tick
<1>5. Inherits' => \/ strikes' = 0 /\ (pc = "acting" => status.live)
                   \/ strikes' = 1 /\ pc = "idle" /\ ~child
  <2>1. Inherits' => Inherits
    BY <1>2, Zenon
  <2>2. FailureThreshold # 0 /\ FailureThreshold # 1
    BY SupervisorAssumption
  <2> QED
    BY <1>0, <1>1, <2>1, <2>2 DEF SparedInv, Spared
<1>6. Spared'
  BY <1>1, <1>5 DEF Spared
<1> QED
  BY <1>1, <1>2, <1>3, <1>4, <1>6, Zenon DEF SparedInv, BudgetInv

LEMMA SparedOther ==
  ASSUME SparedInv, BudgetInv',
         NewSupervisor \/ SessionTurns \/ ChildExits \/ Crash \/ Kill
  PROVE  SparedInv'
<1> USE SupervisorAssumption
<1>1. CASE NewSupervisor
  <2>1. inherited' \in Times
        /\ (inherited' > 0 => inherited' = disk.budget.circuit)
    <3>1. disk.budget.circuit \in Times /\ Zero \in Times /\ ~(Zero > 0)
      BY DEF SparedInv, BudgetTypes, Budgets, Times, Zero
    <3>2. inherited' = disk.budget.circuit \/ inherited' = Zero
      BY <1>1, Zenon DEF NewSupervisor
    <3> QED
      BY <3>1, <3>2
  <2>2. /\ pc = "boot" /\ pc' \in {"starting", "idle"} /\ budget' = disk.budget
        /\ disk' = disk /\ lag' = lag /\ strikes' = strikes /\ polled' = FALSE
    BY <1>1 DEF NewSupervisor, loadState
  <2>3. strikes = 0 /\ lag = 0
    BY <2>2 DEF SparedInv
  <2>4. Spared'
    BY <2>2, <2>3 DEF Spared
  <2>5. CircuitIsNext(budget') /\ CircuitIsNext(disk.budget)'
    BY <2>2, Zenon DEF SparedInv, CircuitIsNext
  <2>6. strikes' \in Nat /\ strikes' = 0 /\ lag' = 0
    BY <2>2, <2>3
  <2> QED
    BY <2>1, <2>2, <2>4, <2>5, <2>6, Zenon DEF SparedInv, BudgetInv
<1>2. CASE SessionTurns
  <2>1. /\ pc' = pc /\ child' = child /\ strikes' = strikes /\ status' = status
        /\ budget' = budget /\ disk' = disk /\ inherited' = inherited
        /\ owed' = owed /\ lag' = lag /\ polled' = polled
    BY <1>2 DEF SessionTurns
  <2> QED
    BY <2>1, Zenon DEF SparedInv, Spared, Inherits, BudgetTypes, CircuitIsNext
<1>3. CASE ChildExits
  <2>1. /\ pc' = pc /\ ~child' /\ strikes' = strikes /\ status' = status
        /\ budget' = budget /\ disk' = disk /\ inherited' = inherited
        /\ owed' = owed /\ lag' = lag /\ polled' = polled
    BY <1>3, Zenon DEF ChildExits, ChildStarts
  <2>2. Spared'
    BY <2>1, Zenon DEF SparedInv, Spared, Inherits
  <2> QED
    BY <2>1, <2>2, Zenon DEF SparedInv, BudgetTypes, CircuitIsNext
<1>4. CASE Crash \/ Kill
  <2>1. ContainerEnds
    BY <1>4, Zenon DEF Crash, Kill
  <2>2. Zero <= 0
    BY DEF Zero
  <2>3. /\ pc' = "boot" /\ lag' = 0 /\ strikes' = 0 /\ inherited' = Zero
        /\ budget' = NoBudgetUsed /\ disk' = disk
    BY <2>1 DEF ContainerEnds
  <2>4. ~(Zero > 0) /\ Zero \in Times /\ budget'.circuit = Zero
    BY <2>2, <2>3, AgedTimes DEF NoBudgetUsed, Zero
  <2>5. CircuitIsNext(budget') /\ CircuitIsNext(disk.budget)' /\ Spared'
    BY <2>3, <2>4, Zenon DEF SparedInv, CircuitIsNext, Spared, Inherits
  <2> QED
    BY <2>3, <2>4, <2>5, Zenon DEF SparedInv, BudgetInv
<1> QED
  BY <1>1, <1>2, <1>3, <1>4

LEMMA SparedStep == BudgetInv /\ SparedInv /\ [Next]_vars => SparedInv'
<1> SUFFICES ASSUME BudgetInv, SparedInv, [Next]_vars PROVE SparedInv'
  BY Zenon
<1>0. BudgetInv'
  BY BudgetStep
<1>1. CASE Reconcile
  BY <1>0, <1>1, SparedReconcile
<1>2. CASE StartChild
  BY <1>0, <1>2, SparedStartChild
<1>3. CASE ReconcileControlFailure
  BY <1>3, SparedControlFailure
<1>4. CASE SessionAction \/ RestartChild
  BY <1>4, SparedAction
<1>5. CASE Tick
  BY <1>0, <1>5, SparedTick
<1>6. CASE NewSupervisor \/ SessionTurns \/ ChildExits \/ Crash \/ Kill
  BY <1>0, <1>6, SparedOther
<1>7. CASE UNCHANGED vars
  BY <1>7, Zenon DEF vars, SparedInv, Spared, BudgetTypes, CircuitIsNext, Inherits
<1> QED
  BY <1>1, <1>2, <1>3, <1>4, <1>5, <1>6, <1>7 DEF Next, Supervisor

\* No restart loop: for any periods, backoffs and failures, and any threshold
\* above one, the liveness probe never condemns a container whose inherited
\* circuit is still open.
THEOREM InheritedAlwaysSpared == Spec => []InheritedSpared
<1>1. Spec => [](BudgetInv /\ SparedInv)
  BY BudgetInit, BudgetStep, SparedInit, SparedStep, PTL DEF Spec
<1>2. SparedInv => InheritedSpared
  BY SupervisorAssumption DEF SparedInv, Spared, Inherits, InheritedSpared
<1> QED
  BY <1>1, <1>2, PTL

-----------------------------------------------------------------------------
(***************************************************************************)
(* TypeOK.  What is not plain is that an episode's retry is never set to a *)
(* time in the past: one that is refused a restart takes the budget's next *)
(* retry, which is then still to come.                                     *)
(***************************************************************************)

LEMMA NewEpisodeType == NewEpisode \in Episodes
BY SupervisorAssumption DEF NewEpisode, Episodes, Never

LEMMA UpType ==
  ASSUME NEW e \in Episodes
  PROVE  markEpisodeUp(e) \in Episodes
<1>1. e.stable \in Never .. StablePeriod /\ 0 \in Never .. StablePeriod
  BY SupervisorAssumption DEF Episodes, Never
<1>2. [NewEpisode EXCEPT !.stable = e.stable] \in Episodes
  BY <1>1, NewEpisodeType, Zenon DEF Episodes
<1>3. [e EXCEPT !.stable = IF e.stable = Never THEN 0 ELSE e.stable] \in Episodes
  BY <1>1, Zenon DEF Episodes
<1> QED
  BY <1>2, <1>3, Zenon DEF markEpisodeUp

LEMMA ScheduledType ==
  ASSUME NEW e \in Episodes
  PROVE  scheduleEpisodeAction(e) \in Episodes
<1> DEFINE n == Soonest(e.attempts + 1, Len(Backoffs) + 1)
           next == IF n > Len(Backoffs) THEN CircuitOpen ELSE Backoffs[n]
<1>1. e.attempts \in 0 .. Len(Backoffs) + 1 /\ Len(Backoffs) \in Nat
  BY SupervisorAssumption DEF Episodes
<1>2. n \in 1 .. Len(Backoffs) + 1
  BY <1>1 DEF Soonest
<1>3. scheduleEpisodeAction(e) = [e EXCEPT !.attempts = n, !.next = next]
  BY DEF scheduleEpisodeAction
<1> HIDE DEF n
<1>4. next \in Nat
  BY <1>1, <1>2, SupervisorAssumption
<1> HIDE DEF next
<1>5. n \in 0 .. Len(Backoffs) + 1
  BY <1>1, <1>2
<1> QED
  BY <1>3, <1>4, <1>5, Zenon DEF Episodes

\* The episodes and the action that a reconciliation plans.
Pending == [action : {"None", "Replay", "Reset", "RestartChild"}, pair : Pairs \union {0}]

LEMMA PlannedTypes ==
  ASSUME TypeOK, pc = "idle"
  PROVE  PlannedEpisodes \in [Pairs -> Episodes] /\ PlannedAction \in Pending
<1>1. ep \in [Pairs -> Episodes] /\ budget \in Budgets
  BY DEF TypeOK
<1>2. ASSUME NEW p \in Pairs
      PROVE  planEpisodeRecovery(p) \in Episodes
  <2> DEFINE e == [ep[p] EXCEPT !.stable = Never,
                     !.failing = IF ep[p].failing = Never THEN 0 ELSE ep[p].failing]
  <2>1. ep[p] \in Episodes
    BY <1>1
  <2>2. /\ Never \in Never .. StablePeriod /\ 0 \in Never .. GracePeriod
        /\ ep[p].failing \in Never .. GracePeriod
    BY <2>1, SupervisorAssumption DEF Episodes, Never
  <2>3. e \in Episodes
    BY <2>1, <2>2, Zenon DEF Episodes
  <2>4. planEpisodeRecovery(p) = IF isUp(p) THEN markEpisodeUp(ep[p])
                                 ELSE IF Acts(p) THEN scheduleEpisodeAction(e)
                                 ELSE IF Due(p) /\ Refused(p)
                                   THEN [e EXCEPT !.next = budget.next]
                                 ELSE e
    BY DEF planEpisodeRecovery
  <2> HIDE DEF e
  <2>5. Refused(p) => budget.next \in Nat
    BY <1>1 DEF Refused, CanReserve, Before, Reading, Budgets, Times
  <2>6. Refused(p) => [e EXCEPT !.next = budget.next] \in Episodes
    BY <2>3, <2>5, Zenon DEF Episodes
  <2> QED
    BY <2>1, <2>3, <2>4, <2>6, UpType, ScheduledType, Zenon
<1>3. PlannedEpisodes \in [Pairs -> Episodes]
  <2>1. ASSUME NEW p \in Pairs
        PROVE  (IF Visited(p) THEN planEpisodeRecovery(p) ELSE ep[p]) \in Episodes
    BY <1>1, <1>2, <2>1
  <2>2. [p \in Pairs |-> IF Visited(p) THEN planEpisodeRecovery(p) ELSE ep[p]]
          \in [Pairs -> Episodes]
    BY <2>1, Zenon
  <2> QED
    BY <1>1, <2>2, Zenon DEF PlannedEpisodes
<1>4. PlannedAction \in Pending
  <2>1. ASSUME NEW p \in Pairs
        PROVE  [action |-> Action(p), pair |-> p] \in Pending
    BY Zenon DEF Action, selectRecoveryAction, Pending
  <2>2. /\ NoAction \in Pending
        /\ [action |-> "RestartChild", pair |-> 0] \in Pending
    BY Zenon DEF NoAction, Pending
  <2>3. CASE ~HalfOpen /\ \E p \in Pairs : First(p)
    <3> DEFINE q == CHOOSE r \in Pairs : First(r)
    <3>1. q \in Pairs
      BY <2>3
    <3>2. PlannedAction = [action |-> Action(q), pair |-> q]
      BY <2>3 DEF PlannedAction
    <3> HIDE DEF q
    <3> QED
      BY <2>1, <3>1, <3>2, Zenon
  <2> QED
    BY <2>2, <2>3, Zenon DEF PlannedAction
<1> QED
  BY <1>3, <1>4

LEMMA FailureType ==
  ASSUME faults \in Nat, NEW fine, Failure(fine)
  PROVE  faults' \in Nat
BY DEF Failure

LEMMA TypesInit == Init => TypeOK
<1> SUFFICES ASSUME Init PROVE TypeOK
  BY Zenon
<1>1. PICK s \in Starts : /\ ep = [p \in 1 .. s[1] |-> NewEpisode]
                         /\ faults = s[2]
  BY Zenon DEF Init
<1>2. Pairs = 1 .. s[1] /\ faults \in Nat
  BY <1>1, SupervisorAssumption DEF Pairs
<1>3. ep \in [Pairs -> Episodes]
  BY <1>1, <1>2, NewEpisodeType
<1>4. disk \in [ep : [Pairs -> Episodes], budget : Budgets]
  BY <1>3, NoBudgetType, Zenon DEF Init
<1>5. sess \in [Pairs -> {"Up", "Down", "Absent"}]
  BY Zenon DEF Init
<1>6. /\ strikes \in 0 .. FailureThreshold /\ lag = 0 /\ lag \in 0 .. MaxLag
      /\ budget \in Budgets /\ inherited \in Times
      /\ owed \in [spent : 0 .. Len(ChildBackoffs) + 1, quiet : Times]
  BY SupervisorAssumption, NoBudgetType, AgedTimes DEF Init, NothingOwed
<1>7. /\ pending \in [action : {"None", "Replay", "Reset", "RestartChild"},
                      pair : Pairs \union {0}]
      /\ status \in [live : BOOLEAN, ready : BOOLEAN]
      /\ pc = "boot" /\ halfOpen \in BOOLEAN /\ child \in BOOLEAN
      /\ polled \in BOOLEAN
  BY Zenon DEF Init, NoAction
<1> QED
  BY <1>2, <1>3, <1>4, <1>5, <1>6, <1>7, Zenon DEF TypeOK

\* What a step owes to TypeOK besides the budgets, which BudgetInv covers.
NextTypes ==
  /\ pc' \in {"boot", "starting", "idle", "acting"}
  /\ ep' \in [Pairs -> Episodes]
  /\ inherited' \in Times
  /\ halfOpen' \in BOOLEAN
  /\ pending' \in Pending
  /\ status' \in [live : BOOLEAN, ready : BOOLEAN]
  /\ disk' \in [ep : [Pairs -> Episodes], budget : Budgets]
  /\ child' \in BOOLEAN
  /\ sess' \in [Pairs -> {"Up", "Down", "Absent"}]
  /\ pc' \in {"boot", "idle"} => lag' = 0
  /\ polled' \in BOOLEAN
  /\ strikes' \in 0 .. FailureThreshold
  /\ faults' \in Nat

LEMMA TypesFollow ==
  ASSUME TypeOK, BudgetInv', NextTypes
  PROVE  TypeOK'
<1>1. Pairs' = Pairs
  BY DEF NextTypes, Pairs
<1>2. \E s \in Starts : Pairs' = 1 .. s[1]
  BY <1>1, Zenon DEF TypeOK
<1> QED
  BY <1>1, <1>2, Zenon DEF NextTypes, Pending, TypeOK, BudgetInv, BudgetTypes

\* The types of the state before, for a step to use.
LEMMA TypesNow ==
  ASSUME TypeOK
  PROVE  /\ pc \in {"boot", "starting", "idle", "acting"}
         /\ ep \in [Pairs -> Episodes] /\ disk.ep \in [Pairs -> Episodes]
         /\ inherited \in Times /\ halfOpen \in BOOLEAN /\ pending \in Pending
         /\ status \in [live : BOOLEAN, ready : BOOLEAN]
         /\ disk \in [ep : [Pairs -> Episodes], budget : Budgets]
         /\ disk.budget.circuit \in Times /\ budget.circuit \in Times
         /\ child \in BOOLEAN /\ sess \in [Pairs -> {"Up", "Down", "Absent"}]
         /\ pc \in {"boot", "idle"} => lag = 0
         /\ polled \in BOOLEAN /\ strikes \in 0 .. FailureThreshold
         /\ faults \in Nat
<1>1. disk.ep \in [Pairs -> Episodes] /\ disk.budget \in Budgets
  BY DEF TypeOK
<1>2. disk.budget.circuit \in Times /\ budget.circuit \in Times
  BY <1>1 DEF TypeOK, Budgets
<1> QED
  BY <1>1, <1>2, Zenon DEF TypeOK, Pending

LEMMA NoActionType == NoAction \in Pending
BY Zenon DEF NoAction, Pending

LEMMA ChildStartsTypes ==
  ASSUME NEW ok \in BOOLEAN, ChildStarts(ok)
  PROVE  child' \in BOOLEAN /\ sess' \in [Pairs -> {"Up", "Down", "Absent"}]
BY Zenon DEF ChildStarts

LEMMA TypesStart ==
  ASSUME TypeOK, BudgetInv', NewSupervisor \/ StartChild
  PROVE  TypeOK'
<1>1. CASE NewSupervisor
  <2>1. PICK saved \in BOOLEAN :
          /\ Failure(saved) /\ pc' = IF saved THEN "starting" ELSE "idle"
          /\ halfOpen' = (saved /\ childHalfOpenDue(disk.budget))
    BY <1>1, Zenon DEF NewSupervisor
  <2>2. /\ pc = "boot" /\ pc' \in {"starting", "idle"} /\ ep' = disk.ep
        /\ inherited' \in {disk.budget.circuit, Zero} /\ polled' = FALSE
        /\ pending' = pending /\ status' = status /\ disk' = disk
        /\ child' = child /\ sess' = sess /\ lag' = lag /\ strikes' = strikes
    BY <1>1, <2>1 DEF NewSupervisor, loadState
  <2>3. halfOpen' \in BOOLEAN
    BY <2>1, Zenon
  <2>4. inherited' \in Times /\ faults' \in Nat
    BY <2>1, <2>2, TypesNow, AgedTimes, FailureType
  <2> QED
    BY <2>2, <2>3, <2>4, TypesNow, TypesFollow, Zenon DEF NextTypes
<1>2. CASE StartChild
  <2>1. PICK ok \in BOOLEAN, saved \in BOOLEAN :
          /\ Failure(ok /\ saved) /\ ChildStarts(ok)
          /\ inherited' = IF ok /\ halfOpen THEN budget'.circuit ELSE inherited
          /\ status' = [live |-> updateLiveness(budget', inherited'), ready |-> FALSE]
          /\ saveState(saved, ep, budget')
    BY <1>2 DEF StartChild
  <2>2. /\ pc' = "idle" /\ lag' = 0 /\ halfOpen' = FALSE /\ ep' = ep
        /\ pending' = pending /\ polled' = polled /\ strikes' = strikes
    BY <1>2 DEF StartChild
  <2>3. budget' \in Budgets /\ budget'.circuit \in Times
    BY DEF BudgetInv, BudgetTypes, Budgets
  <2>4. inherited' \in Times /\ status' \in [live : BOOLEAN, ready : BOOLEAN]
    BY <2>1, <2>3, TypesNow, Zenon DEF updateLiveness
  <2>5. disk' \in [ep : [Pairs -> Episodes], budget : Budgets]
    BY <2>1, <2>3, TypesNow, Zenon DEF saveState
  <2>6. /\ child' \in BOOLEAN /\ sess' \in [Pairs -> {"Up", "Down", "Absent"}]
        /\ faults' \in Nat
    BY <2>1, TypesNow, ChildStartsTypes, FailureType, Zenon
  <2> QED
    BY <2>2, <2>4, <2>5, <2>6, TypesNow, TypesFollow, Zenon DEF NextTypes
<1> QED
  BY <1>1, <1>2

LEMMA TypesReconcile ==
  ASSUME TypeOK, BudgetInv', Reconcile \/ ReconcileControlFailure
  PROVE  TypeOK'
<1>1. CASE Reconcile
  <2>1. PICK saved \in BOOLEAN :
          /\ Failure(saved) /\ ep' = PlannedEpisodes
          /\ \/ inherited' = Zero \/ inherited' = inherited
          /\ status' = [live |-> updateChildRunningLiveness(budget', inherited', child),
                        ready |-> \A p \in Pairs : isUp(p)]
          /\ saveState(saved, PlannedEpisodes, budget')
          /\ pending' = IF saved THEN PlannedAction ELSE NoAction
          /\ pc' \in {"acting", "idle"}
    BY <1>1, SMTT(20) DEF Reconcile
  <2>2. /\ pc = "idle" /\ polled' = TRUE /\ halfOpen' = halfOpen
        /\ child' = child /\ sess' = sess /\ lag' = lag /\ strikes' = strikes
    BY <1>1 DEF Reconcile
  <2>3. PlannedEpisodes \in [Pairs -> Episodes] /\ PlannedAction \in Pending
    BY <2>2, PlannedTypes, Zenon
  <2>4. budget' \in Budgets
    BY DEF BudgetInv, BudgetTypes
  <2>5. inherited' \in Times /\ faults' \in Nat /\ pending' \in Pending
    BY <2>1, <2>3, TypesNow, AgedTimes, NoActionType, FailureType, Zenon
  <2>6. status' \in [live : BOOLEAN, ready : BOOLEAN]
    BY <2>1, Zenon DEF updateChildRunningLiveness
  <2>7. disk' \in [ep : [Pairs -> Episodes], budget : Budgets]
    BY <2>1, <2>3, <2>4, TypesNow, Zenon DEF saveState
  <2> QED
    BY <2>1, <2>2, <2>3, <2>5, <2>6, <2>7, TypesNow, TypesFollow, Zenon
    DEF NextTypes
<1>2. CASE ReconcileControlFailure
  <2>1. status' \in [live : BOOLEAN, ready : BOOLEAN]
    BY <1>2, Zenon
    DEF ReconcileControlFailure, updateControlFailureLiveness, updateLiveness
  <2>2. faults' \in Nat
    BY <1>2, TypesNow, FailureType, Zenon DEF ReconcileControlFailure
  <2> QED
    BY <1>2, <2>1, <2>2, TypesNow, TypesFollow, Zenon
    DEF NextTypes, ReconcileControlFailure
<1> QED
  BY <1>1, <1>2

LEMMA TypesAction ==
  ASSUME TypeOK, BudgetInv', SessionAction \/ RestartChild
  PROVE  TypeOK'
<1>1. CASE SessionAction
  <2>1. sess' \in [Pairs -> {"Up", "Down", "Absent"}]
    BY <1>1, TypesNow, Zenon DEF SessionAction
  <2>2. status' \in [live : BOOLEAN, ready : BOOLEAN]
    BY <1>1, TypesNow, Zenon DEF SessionAction, updateChildRunningLiveness
  <2> QED
    BY <1>1, <2>1, <2>2, TypesNow, NoActionType, TypesFollow, Zenon
    DEF NextTypes, SessionAction
<1>2. CASE RestartChild
  <2>1. /\ child' \in BOOLEAN /\ sess' \in [Pairs -> {"Up", "Down", "Absent"}]
        /\ faults' \in Nat
    BY <1>2, TypesNow, ChildStartsTypes, FailureType, Zenon DEF RestartChild
  <2>2. status' \in [live : BOOLEAN, ready : BOOLEAN]
    BY <1>2, TypesNow, Zenon DEF RestartChild, updateLiveness
  <2> QED
    BY <1>2, <2>1, <2>2, TypesNow, NoActionType, TypesFollow, Zenon
    DEF NextTypes, RestartChild
<1> QED
  BY <1>1, <1>2

LEMMA TypesEnvironment ==
  ASSUME TypeOK, BudgetInv', SessionTurns \/ ChildExits \/ Crash \/ Kill
  PROVE  TypeOK'
<1>1. CASE SessionTurns
  <2>1. sess' \in [Pairs -> {"Up", "Down", "Absent"}]
    BY <1>1, TypesNow, Zenon DEF SessionTurns
  <2> QED
    BY <1>1, <2>1, TypesNow, TypesFollow, Zenon DEF NextTypes, SessionTurns
<1>2. CASE ChildExits
  <2>1. /\ child' \in BOOLEAN /\ sess' \in [Pairs -> {"Up", "Down", "Absent"}]
        /\ faults' \in Nat
    BY <1>2, TypesNow, ChildStartsTypes, FailureType, Zenon DEF ChildExits
  <2> QED
    BY <1>2, <2>1, TypesNow, TypesFollow, Zenon DEF NextTypes, ChildExits
<1>3. CASE Crash \/ Kill
  <2>1. ContainerEnds /\ faults' \in Nat
    BY <1>3, TypesNow, FailureType, Zenon DEF Crash, Kill
  <2>2. child' \in BOOLEAN /\ sess' \in [Pairs -> {"Up", "Down", "Absent"}]
    BY <2>1, ChildStartsTypes, Zenon DEF ContainerEnds
  <2>3. ep' \in [Pairs -> Episodes]
    BY <2>1, NewEpisodeType, Zenon DEF ContainerEnds
  <2>4. status' \in [live : BOOLEAN, ready : BOOLEAN]
    BY <2>1, Zenon DEF ContainerEnds
  <2>5. 0 \in 0 .. FailureThreshold
    BY SupervisorAssumption
  <2> QED
    BY <2>1, <2>2, <2>3, <2>4, <2>5, TypesNow, NoActionType, AgedTimes, TypesFollow, Zenon
    DEF NextTypes, ContainerEnds
<1> QED
  BY <1>1, <1>2, <1>3

LEMMA AgedEpisodesType ==
  ASSUME NEW eps \in [Pairs -> Episodes]
  PROVE  AgedEpisodes(eps) \in [Pairs -> Episodes]
<1> DEFINE next(e) == IF e.next > 0 THEN e.next - 1 ELSE 0
           aged(e) == [e EXCEPT !.next = next(e), !.failing = Older(e.failing, GracePeriod),
                                !.stable = Older(e.stable, StablePeriod)]
<1>1. ASSUME NEW e \in Episodes
      PROVE  aged(e) \in Episodes
  <2>1. /\ next(e) \in Nat
        /\ Older(e.failing, GracePeriod) \in Never .. GracePeriod
        /\ Older(e.stable, StablePeriod) \in Never .. StablePeriod
    <3>1. /\ e.next \in Nat /\ e.failing \in Never .. GracePeriod
          /\ e.stable \in Never .. StablePeriod
      BY DEF Episodes
    <3>2. ASSUME NEW most \in Nat, NEW t \in Never .. most
          PROVE  Older(t, most) \in Never .. most
      BY DEF Older, Never
    <3>3. next(e) \in Nat
      BY <3>1
    <3>4. GracePeriod \in Nat /\ StablePeriod \in Nat
      BY SupervisorAssumption
    <3> QED
      BY <3>1, <3>2, <3>3, <3>4, Zenon
  <2> HIDE DEF next
  <2> QED
    BY <2>1, Zenon DEF Episodes
<1>2. AgedEpisodes(eps) = [p \in Pairs |-> aged(eps[p])]
  BY Zenon DEF AgedEpisodes
<1> HIDE DEF aged
<1> QED
  BY <1>1, <1>2

LEMMA TypesTick ==
  ASSUME TypeOK, BudgetInv', Tick
  PROVE  TypeOK'
<1>1. /\ pc' = pc /\ halfOpen' = halfOpen /\ pending' = pending /\ status' = status
      /\ child' = child /\ sess' = sess /\ faults' = faults /\ polled' = FALSE
      /\ ep' = AgedEpisodes(ep) /\ inherited' = Aged(inherited)
      /\ disk' = [ep |-> AgedEpisodes(disk.ep), budget |-> AgedBudget(disk.budget)]
      /\ pc \in {"boot", "idle"} => lag' = 0
  BY DEF Tick
<1>2. ep' \in [Pairs -> Episodes] /\ inherited' \in Times
  BY <1>1, TypesNow, AgedEpisodesType, AgedTimes, Zenon
<1>3. disk' \in [ep : [Pairs -> Episodes], budget : Budgets]
  <2>1. disk.budget \in Budgets
    BY DEF TypeOK
  <2>2. AgedBudget(disk.budget) \in Budgets
    BY <2>1, AgedBudgetType, Zenon
  <2> QED
    BY <1>1, <2>2, TypesNow, AgedEpisodesType, Zenon
<1>4. strikes' \in 0 .. FailureThreshold
  <2>1. \/ strikes' = 0 \/ strikes' = strikes
        \/ strikes # FailureThreshold /\ strikes' = strikes + 1
    BY DEF Tick
  <2> QED
    <3>1. strikes \in 0 .. FailureThreshold /\ FailureThreshold \in Nat
      BY TypesNow, SupervisorAssumption
    <3> QED
      BY <2>1, <3>1
<1> QED
  BY <1>1, <1>2, <1>3, <1>4, TypesNow, TypesFollow, Zenon DEF NextTypes

\* Type correctness, for any number of sessions, any periods and backoffs: in
\* particular a retry of an episode is never put into the past.
THEOREM TypeCorrect == Spec => []TypeOK
<1>1. TypeOK /\ BudgetInv /\ [Next]_vars => TypeOK'
  <2> SUFFICES ASSUME TypeOK, BudgetInv, [Next]_vars PROVE TypeOK'
    BY Zenon
  <2>1. BudgetInv'
    BY BudgetStep
  <2>2. CASE UNCHANGED vars
    BY <2>1, <2>2, TypesNow, TypesFollow, Zenon DEF NextTypes, vars
  <2> QED
    BY <2>1, <2>2, TypesStart, TypesReconcile, TypesAction, TypesEnvironment,
       TypesTick, Zenon DEF Next, Supervisor
<1>2. Spec => []BudgetInv
  BY BudgetInit, BudgetStep, PTL DEF Spec
<1> QED
  BY <1>1, <1>2, TypesInit, PTL DEF Spec
=============================================================================
