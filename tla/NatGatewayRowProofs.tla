------------------------ MODULE NatGatewayRowProofs -------------------------
(***************************************************************************)
(* Proof about NatGateway: nothing in a pod is unmanaged.  What a step does *)
(* to the rules is taken from NatGatewayTypeProofs.                        *)
(***************************************************************************)
EXTENDS NatGatewayTypeProofs

-----------------------------------------------------------------------------
(* Who deletes what is in the pods *)

\* The add handler is at work on r, or will be.
Pending(r) ==
    r \in q["addRule"] \/ work[r].by = "addRule" \/ wait[r].by = "addRule"

\* A rule that is o, with handler h, will delete its row: it has not done so,
\* and it knows of it by its status or is still being added (p).
Owns(p, o, h) == o.fin /\ h.at # "gone" /\ (o.v4ip # None \/ p)

Owner(r) == Owns(Pending(r), rule[r], work[r])

OwnerOf(r, w, i) ==
    Owner(r) /\ env.kind[r] = w.type /\ env.at[r] = w.ext /\ env.inner[r] = i

RowsOwned ==
    \A g \in Gws : \A w \in pod[g].rows : \A i \in w.of :
       \E r \in Rules : OwnerOf(r, w, i)

\* What a version that is being deleted says of the status is final.
Final(c, o) == c.term /\ o.here /\ o.v4ip # None => c.v4ip # None

\* Users who wait do not delete a rule that is being added; and a rule that is
\* kept by what a handler sees of it is still there.
Awaits(p, o, c, w) ==
    /\ p => Kept(o) /\ c.here
    /\ Kept(c) /\ c.fin => o.here
    /\ w.by = "updRule" /\ Kept(w.obj) /\ w.obj.fin => o.here
    /\ Final(c, o) /\ Final(w.obj, o)

Waited(r) == Awaits(Pending(r), rule[r], crule[r], wait[r])

OwnedInv == RowsOwned /\ \A r \in Rules : Waited(r)

-----------------------------------------------------------------------------
(* What is in a pod has an owner *)

\* Whether r is pending after a step, from what becomes of it.
Asked(b, h, w) == b \/ h.by = "addRule" \/ w.by = "addRule"

LEMMA PendingIs ==
    ASSUME NEW r \in Rules
    PROVE  Pending(r) <=> Asked(r \in q["addRule"], work[r], wait[r])
BY Zenon DEF Pending, Asked

LEMMA PendingNext ==
    ASSUME NEW r \in Rules, NEW h, NEW w, work'[r] = h, wait'[r] = w
    PROVE  Pending(r)' <=> Asked(r \in q'["addRule"], h, w)
BY Zenon DEF Pending, Asked

LEMMA OwnedAt ==
    ASSUME OwnedInv, NEW r \in Rules
    PROVE  /\ Pending(r) => Kept(rule[r]) /\ crule[r].here
           /\ Kept(crule[r]) /\ crule[r].fin => rule[r].here
           /\ wait[r].by = "updRule" /\ Kept(wait[r].obj) /\ wait[r].obj.fin
              => rule[r].here
           /\ Final(crule[r], rule[r]) /\ Final(wait[r].obj, rule[r])
BY Zenon DEF OwnedInv, Waited, Awaits

\* A version that is being deleted was there.
LEMMA TermFollows ==
    ASSUME NEW r, NEW c, NEW o, Version(r, c), Follows(c, o), c.term
    PROVE  ~Kept(o)
BY Zenon DEF Version, Follows

\* What becomes of r (n, pending if p2, with w2 waiting) is no more than it was,
\* for those who wait.
Lasts(p, o, c, w, p2, n, w2) ==
    /\ p2 => p
    /\ Kept(o) => Kept(n)
    /\ o.here => n.here
    /\ n.here /\ n.v4ip # None => o.here /\ o.v4ip # None
    /\ \/ w2 = w
       \/ w2.by # "updRule" /\ ~w2.obj.term
       \/ w2.obj = c

LEMMA StillWaited ==
    ASSUME NEW p, NEW o, NEW c, NEW w, Awaits(p, o, c, w),
           NEW p2, NEW n, NEW w2, Lasts(p, o, c, w, p2, n, w2)
    PROVE  Awaits(p2, n, c, w2)
<1>1. /\ p2 => Kept(n) /\ c.here
      /\ Kept(c) /\ c.fin => n.here
  BY Zenon DEF Awaits, Lasts
<1>2. Final(c, n) /\ Final(w.obj, n)
  BY Zenon DEF Awaits, Final, Lasts
<1>3. /\ w2.by = "updRule" /\ Kept(w2.obj) /\ w2.obj.fin => n.here
      /\ Final(w2.obj, n)
  <2>1. CASE w2 = w
    BY <1>2, <2>1, Zenon DEF Awaits, Lasts
  <2>2. CASE w2.by # "updRule" /\ ~w2.obj.term
    BY <2>2, Zenon DEF Final
  <2>3. CASE w2.obj = c
    BY <1>1, <1>2, <2>3, Zenon
  <2> QED
    BY <2>1, <2>2, <2>3, Zenon DEF Lasts
<1> QED
  BY <1>1, <1>2, <1>3, Zenon DEF Awaits

LEMMA UntouchedOwner ==
    ASSUME NEW s \in Rules, Untouched(s)
    PROVE  /\ Owner(s) => Owner(s)'
           /\ Waited(s) => Waited(s)'
<1>1. Pending(s)' <=> Pending(s)
  BY Zenon DEF Untouched, Pending
<1>2. Owner(s)' <=> Owner(s)
  BY <1>1 DEF Untouched, Owner, Owns
<1>3. Waited(s)' <=> Waited(s)
  BY <1>1 DEF Untouched, Waited, Awaits, Final, Kept
<1> QED
  BY <1>2, <1>3

\* Whoever owned the rows that stay still does, and no row is new.
LEMMA RowsStayOwned ==
    ASSUME Static, RowsOwned, \A g \in Gws : pod'[g].rows \subseteq pod[g].rows,
           \A s \in Rules : Owner(s) => Owner(s)'
    PROVE  RowsOwned'
<1>1. env'.kind = env.kind /\ env'.at = env.at /\ env'.inner = env.inner
  BY DEF Static
<1>2. ASSUME NEW s \in Rules, NEW w, NEW i, OwnerOf(s, w, i)
      PROVE  OwnerOf(s, w, i)'
  BY <1>1, <1>2, Zenon DEF OwnerOf
<1>3. \A g \in Gws : \A w \in pod'[g].rows : \A i \in w.of :
         \E s \in Rules : OwnerOf(s, w, i)
  BY DEF RowsOwned
<1>4. \A g \in Gws : \A w \in pod'[g].rows : \A i \in w.of :
         \E s \in Rules : OwnerOf(s, w, i)'
  BY <1>2, <1>3, Zenon
<1> QED
  BY <1>4, Zenon DEF RowsOwned

\* A step about r alone that leaves the pods alone.
LEMMA OneOwned ==
    ASSUME TypeInv, Static, OwnedInv, UNCHANGED pod, NEW r \in Rules,
           NEW n, NEW c, NEW h, NEW w, OneRule(r, n, c, h, w),
           Awaits(Asked(r \in q'["addRule"], h, w), n, c, w),
           Owner(r) => Owns(Asked(r \in q'["addRule"], h, w), n, h)
    PROVE  OwnedInv'
<1>1. rule'[r] = n /\ crule'[r] = c /\ work'[r] = h /\ wait'[r] = w
  BY Zenon DEF OneRule
<1>2. Pending(r)' <=> Asked(r \in q'["addRule"], h, w)
  BY <1>1, PendingNext, Zenon
<1>3. Owner(r) => Owner(r)'
  BY <1>1, <1>2, Zenon DEF Owner, Owns
<1>4. Waited(r)'
  BY <1>1, <1>2, Zenon DEF Waited, Awaits, Final, Kept
<1>5. \A s \in Rules \ {r} : (Owner(s) => Owner(s)') /\ Waited(s)'
  BY UntouchedOwner, Zenon DEF OneRule, OwnedInv
<1>6. \A s \in Rules : (Owner(s) => Owner(s)') /\ Waited(s)'
  BY <1>3, <1>4, <1>5, Zenon
<1>7. \A g \in Gws : pod'[g].rows \subseteq pod[g].rows
  OBVIOUS
<1>8. RowsOwned'
  BY <1>6, <1>7, RowsStayOwned, Zenon DEF OwnedInv
<1> QED
  BY <1>6, <1>8, Zenon DEF OwnedInv

\* The queue of adds after a push or a pop.
LEMMA AddQueue ==
    ASSUME TypeInv, NEW r \in Rules, NEW by
    PROVE  /\ q' = q => (r \in q'["addRule"] <=> r \in q["addRule"])
           /\ q' = Push(by, r) =>
                (r \in q'["addRule"] <=> r \in q["addRule"] \/ by = "addRule")
           /\ q' = Pop(by, r) =>
                (r \in q'["addRule"] <=> r \in q["addRule"] /\ by # "addRule")
BY DEF TypeInv, QueueTypes, Push, Pop, Queues

\* A step that leaves r where it is: who was pending is, or has a status.
QuietStep(r, n, p, h, w) ==
    /\ p => Pending(r)
    /\ Kept(rule[r]) => Kept(n)
    /\ rule[r].here => n.here
    /\ n.here /\ n.v4ip # None => rule[r].here /\ rule[r].v4ip # None
    /\ Grows(rule[r], n)
    /\ w = wait[r] \/ w = Idle \/ w.obj = crule[r]
    /\ Owner(r) => h.at # "gone" /\ (Pending(r) /\ rule[r].v4ip = None => p)

LEMMA QuietAwaits ==
    ASSUME TypeInv, HistoryInv, OwnedInv, NEW r \in Rules,
           NEW n, NEW p, NEW h, NEW w, QuietStep(r, n, p, h, w)
    PROVE  /\ Awaits(p, n, crule[r], w)
           /\ Owner(r) => Owns(p, n, h)
<1>1. Awaits(Pending(r), rule[r], crule[r], wait[r])
  BY Zenon DEF OwnedInv, Waited
<1>2. Idle.by # "updRule" /\ ~Idle.obj.term
  BY IdleIs, NowLived, NoRuleType, Zenon
<1>3. /\ p => Pending(r)
      /\ Kept(rule[r]) => Kept(n)
      /\ rule[r].here => n.here
      /\ n.here /\ n.v4ip # None => rule[r].here /\ rule[r].v4ip # None
      /\ w = wait[r] \/ w = Idle \/ w.obj = crule[r]
  BY Zenon DEF QuietStep
<1>4. \/ w = wait[r]
      \/ w.by # "updRule" /\ ~w.obj.term
      \/ w.obj = crule[r]
  BY <1>2, <1>3
<1>5. Lasts(Pending(r), rule[r], crule[r], wait[r], p, n, w)
  BY <1>3, <1>4, Zenon DEF Lasts
<1>6. Awaits(p, n, crule[r], w)
  BY <1>1, <1>5, StillWaited, Zenon
<1>7. ASSUME Owner(r)
      PROVE  Owns(p, n, h)
  <2>1. rule[r].fin /\ (rule[r].v4ip # None \/ Pending(r))
    BY <1>7, Zenon DEF Owner, Owns
  <2>2. rule[r].here
    BY <2>1, NowLived, Zenon DEF Version
  <2>3. n.here /\ n.fin /\ (rule[r].v4ip # None => n.v4ip # None)
    BY <2>1, <2>2, Zenon DEF QuietStep, Grows
  <2> QED
    BY <1>7, <2>1, <2>3, Zenon DEF QuietStep, Owns
<1> QED
  BY <1>6, <1>7

LEMMA QuietOwned ==
    ASSUME TypeInv, HistoryInv, Static, OwnedInv, UNCHANGED pod, NEW r \in Rules,
           NEW n, NEW h, NEW w, OneRule(r, n, crule[r], h, w),
           NEW p, p <=> Asked(r \in q'["addRule"], h, w), p \in BOOLEAN,
           QuietStep(r, n, p, h, w)
    PROVE  OwnedInv'
<1>1. p = Asked(r \in q'["addRule"], h, w)
  BY DEF Asked
<1>2. /\ Awaits(Asked(r \in q'["addRule"], h, w), n, crule[r], w)
      /\ Owner(r) => Owns(Asked(r \in q'["addRule"], h, w), n, h)
  BY <1>1, QuietAwaits, Zenon
<1> QED
  BY <1>2, OneOwned, Zenon

\* Only the finalizer of r changes.
LEMMA BoundOwned ==
    ASSUME TypeInv, HistoryInv, Static, OwnedInv, UNCHANGED pod, NEW r \in Rules,
           NEW n \in {rule[r], Bound(r, rule[r])}, NEW h, NEW w,
           OneRule(r, n, crule[r], h, w),
           w = wait[r] \/ w = Idle \/ w.obj = crule[r],
           Asked(r \in q'["addRule"], h, w) => Pending(r),
           Owner(r) => /\ h.at # "gone"
                       /\ Pending(r) /\ rule[r].v4ip = None
                          => Asked(r \in q'["addRule"], h, w)
    PROVE  OwnedInv'
<1>1. rule[r] \in Rule
  BY RuleType
<1>2. SameButFin(rule[r], n)
  <2>1. SameButFin(rule[r], rule[r])
    BY DEF SameButFin
  <2> QED
    BY <1>1, <2>1, BoundFields, Zenon
<1>3. Grows(rule[r], n)
  BY <1>1, <1>2, NowLived, SameButFinGrows, Zenon
<1>4. /\ Kept(rule[r]) => Kept(n)
      /\ rule[r].here => n.here
      /\ n.here /\ n.v4ip # None => rule[r].here /\ rule[r].v4ip # None
  BY <1>2 DEF SameButFin, Kept
<1> DEFINE p == Asked(r \in q'["addRule"], h, w)
<1>5. QuietStep(r, n, p, h, w)
  BY <1>3, <1>4, Zenon DEF QuietStep
<1>6. p \in BOOLEAN
  BY DEF Asked
<1>7. p <=> Asked(r \in q'["addRule"], h, w)
  OBVIOUS
<1> HIDE DEF p
<1> QED
  BY <1>5, <1>6, <1>7, QuietOwned, Zenon

LEMMA RequeuedOwned ==
    ASSUME TypeInv, HistoryInv, Static, OwnedInv, NEW r \in Rules, Requeued(r)
    PROVE  OwnedInv'
<1>1. /\ OneRule(r, rule[r], crule[r], Idle, wait[r]) /\ UNCHANGED pod
      /\ q' = Push(work[r].by, r)
  BY Zenon DEF Requeued
<1>2. r \in q'["addRule"] <=> r \in q["addRule"] \/ work[r].by = "addRule"
  BY <1>1, AddQueue
<1>3. Asked(r \in q'["addRule"], Idle, wait[r]) <=> Pending(r)
  BY <1>2, IdleIs DEF Asked, Pending
<1>4. Idle.at # "gone" /\ rule[r] \in {rule[r], Bound(r, rule[r])}
  BY IdleIs
<1> QED
  BY <1>1, <1>3, <1>4, BoundOwned, Zenon

LEMMA LockOwned ==
    ASSUME TypeInv, HistoryInv, OwnedInv, NEW r \in Rules, LockStep(r)
    PROVE  OwnedInv'
<1>1. rule[r] \in {rule[r], Bound(r, rule[r])}
  OBVIOUS
<1>2. ASSUME NEW by \in {"addRule", "updRule"}, WaitForLock(r, by)
      PROVE  OwnedInv'
  <2> DEFINE w == Hand(by, "waiting", crule[r])
  <2>1. /\ Static /\ OneRule(r, rule[r], crule[r], work[r], w)
        /\ q' = Pop(by, r) /\ UNCHANGED pod
    BY <1>2, WaitStep
  <2>2. w.by = by /\ w.obj = crule[r]
    BY RuleType, HandType
  <2> HIDE DEF w
  <2>3. r \in q[by] /\ by # wait[r].by /\ by # work[r].by /\ work[r] # Idle
    <3>1. SameCrd(r, r)
      BY RuleType DEF SameCrd, IsFip, IsDnat, IsSnat, Kinds
    <3> QED
      BY <1>2, <3>1 DEF WaitForLock, WorkerFree
  <2>4. work[r].by \in {"addRule", "updRule"}
    BY <2>3, NowLived, Zenon DEF Position
  <2>5. wait[r].by # work[r].by
    BY <2>4 DEF TypeInv, LocksApart
  <2>6. wait[r].by # "addRule"
    BY <2>3, <2>4, <2>5
  <2>7. r \in q'["addRule"] <=> r \in q["addRule"] /\ by # "addRule"
    BY <2>1, AddQueue
  <2>8. Asked(r \in q'["addRule"], work[r], w) <=> Pending(r)
    BY <2>2, <2>3, <2>6, <2>7 DEF Asked, Pending
  <2>9. Owner(r) => work[r].at # "gone"
    BY Zenon DEF Owner, Owns
  <2> QED
    BY <1>1, <2>1, <2>2, <2>8, <2>9, BoundOwned, Zenon
<1>3. CASE LockedInVain(r)
  <2>1. /\ Static /\ OneRule(r, rule[r], crule[r], work[r], Idle)
        /\ q' = Push(wait[r].by, r) /\ UNCHANGED pod
    BY <1>3, InVainStep
  <2>2. r \in q'["addRule"] <=> r \in q["addRule"] \/ wait[r].by = "addRule"
    BY <2>1, AddQueue
  <2>3. Asked(r \in q'["addRule"], work[r], Idle) <=> Pending(r)
    BY <2>2, IdleIs DEF Asked, Pending
  <2>4. Owner(r) => work[r].at # "gone"
    BY Zenon DEF Owner, Owns
  <2> QED
    BY <1>1, <2>1, <2>3, <2>4, BoundOwned, Zenon
<1>4. CASE FailRule(r)
  BY <1>4, FailRuleStep, RequeuedOwned, Zenon
<1>5. "addRule" \in {"addRule", "updRule"} /\ "updRule" \in {"addRule", "updRule"}
  OBVIOUS
<1> QED
  BY <1>2, <1>3, <1>4, <1>5, Zenon DEF LockStep

\* Users who wait delete no rule that a handler is at work on.
LEMMA DeleteOwned ==
    ASSUME TypeInv, HistoryInv, OwnedInv, Patient, NEW r \in Rules, DeleteRule(r)
    PROVE  OwnedInv'
<1> DEFINE n == Deleted(rule[r], NoRule)
           p == Asked(r \in q'["addRule"], work[r], wait[r])
<1>1. /\ Static /\ OneRule(r, n, crule[r], work[r], wait[r]) /\ UNCHANGED <<pod, q>>
  BY DeleteRuleStep
<1>2. AtRest(r)
  BY DEF DeleteRule
<1>3. /\ ~p /\ ~Pending(r) /\ wait[r] = Idle
      /\ Idle.by = "none" /\ ~Idle.obj.term /\ ~Idle.obj.here
  <2>1. /\ work[r] = Idle /\ wait[r] = Idle /\ r \notin q["addRule"]
    BY <1>2 DEF AtRest
  <2>2. Idle.by = "none" /\ ~Idle.obj.term /\ ~Idle.obj.here
    BY NowLived, NoRuleType, IdleIs
  <2>3. q' = q
    BY <1>1
  <2> QED
    BY <2>1, <2>2, <2>3 DEF Asked, Pending
<1>4. rule[r] \in Rule /\ Version(r, rule[r]) /\ Follows(crule[r], rule[r])
  BY RuleType, NowLived, Zenon
<1>5. Final(crule[r], rule[r]) /\ (Kept(crule[r]) /\ crule[r].fin => rule[r].here)
  BY OwnedAt, Zenon
<1> HIDE DEF p
<1>6. CASE rule[r].fin
  <2>1. /\ n.here = rule[r].here /\ n.fin = rule[r].fin /\ n.v4ip = rule[r].v4ip
    BY <1>4, <1>6, Zenon DEF Deleted, Rule
  <2> HIDE DEF n
  <2>2. Awaits(p, n, crule[r], wait[r])
    BY <1>3, <1>5, <2>1, Zenon DEF Awaits, Final, Kept
  <2>3. Owner(r) => Owns(p, n, work[r])
    BY <1>3, <2>1, Zenon DEF Owner, Owns
  <2> QED
    BY <1>1, <2>2, <2>3, OneOwned, Zenon DEF p
<1>7. CASE ~rule[r].fin
  <2>1. n = NoRule /\ ~NoRule.here
    BY <1>7, NowLived, NoRuleType DEF Deleted
  <2> HIDE DEF n
  <2>2. ~(Kept(crule[r]) /\ crule[r].fin)
    BY <1>4, <1>5, <1>7, Zenon DEF Follows, Kept
  <2>3. Awaits(p, n, crule[r], wait[r])
    BY <1>3, <2>1, <2>2, Zenon DEF Awaits, Final, Kept
  <2>4. ~Owner(r)
    BY <1>7, Zenon DEF Owner, Owns
  <2> QED
    BY <1>1, <2>3, <2>4, OneOwned, Zenon DEF p
<1> QED
  BY <1>6, <1>7

LEMMA CreateOwned ==
    ASSUME TypeInv, HistoryInv, OwnedInv, NEW r \in Rules, CreateRule(r)
    PROVE  OwnedInv'
<1> DEFINE n == NewRule(env.at[r], env.inner[r])
           p == Asked(r \in q'["addRule"], work[r], wait[r])
<1>1. Static /\ OneRule(r, n, crule[r], work[r], wait[r]) /\ UNCHANGED <<pod, q>>
  BY CreateRuleStep
<1>2. NoneOf(rule[r], crule[r], work[r], wait[r])
  BY HistoryOf DEF CreateRule
<1>3. ~Pending(r) /\ ~Owner(r)
  <2>1. ~Pending(r)
    BY <1>2, OwnedAt, Zenon DEF NoneOf, Kept
  <2>2. ~rule[r].fin
    BY <1>2, NowLived, Zenon DEF NoneOf, Version
  <2> QED
    BY <2>1, <2>2, Zenon DEF Owner, Owns
<1>4. ~p
  <2>1. q' = q
    BY <1>1, Zenon
  <2> QED
    BY <1>3, <2>1, PendingIs
<1>5. n.here /\ n.v4ip = None
  BY DEF NewRule
<1> HIDE DEF n, p
<1>6. Awaits(p, n, crule[r], wait[r])
  BY <1>4, <1>5, Zenon DEF Awaits, Final
<1> QED
  BY <1>1, <1>3, <1>6, OneOwned, Zenon DEF p

LEMMA EventOwned ==
    ASSUME TypeInv, HistoryInv, OwnedInv, NEW r \in Rules,
           RuleAdded(r) \/ RuleUpdated(r) \/ RuleDeleted(r)
    PROVE  OwnedInv'
<1> DEFINE c == IF rule[r].here THEN rule[r] ELSE NoRule
           p == Asked(r \in q'["addRule"], work[r], wait[r])
<1>1. Static /\ OneRule(r, rule[r], c, work[r], wait[r]) /\ UNCHANGED pod
  BY RuleEventStep, Zenon
<1>2. /\ r \in q["addRule"] => r \in q'["addRule"]
      /\ r \in q'["addRule"] => r \in q["addRule"] \/ Kept(rule[r])
  <2>1. CASE RuleAdded(r)
    <3>1. \/ rule[r].term /\ q' = Push("updRule", r)
          \/ Kept(rule[r]) /\ q' = Push("addRule", r)
      BY <2>1 DEF RuleAdded, Kept
    <3> QED
      BY <3>1, AddQueue
  <2>2. CASE RuleUpdated(r)
    <3>1. q' = q \/ q' = Push("updRule", r)
      BY <2>2, Zenon DEF RuleUpdated
    <3> QED
      BY <3>1, AddQueue
  <2>3. CASE RuleDeleted(r)
    BY <2>3 DEF RuleDeleted
  <2> QED
    BY <2>1, <2>2, <2>3
<1>3. (Pending(r) => p) /\ (p => Kept(rule[r]))
  <2>1. Pending(r) => Kept(rule[r])
    BY OwnedAt, Zenon
  <2> QED
    BY <1>2, <2>1 DEF Pending, Asked
<1>4. ~NoRule.here /\ ~NoRule.term
  BY NowLived, NoRuleType, Zenon
<1>5. /\ rule[r].here => c.here
      /\ Kept(c) => rule[r].here
      /\ Final(c, rule[r])
  <2>1. CASE rule[r].here
    BY <2>1, Zenon DEF Final
  <2>2. CASE ~rule[r].here
    BY <1>4, <2>2, Zenon DEF Final, Kept
  <2> QED
    BY <2>1, <2>2
<1> HIDE DEF c, p
<1>6. Awaits(p, rule[r], c, wait[r])
  BY <1>3, <1>5, OwnedAt, Zenon DEF Awaits, Kept
<1>7. Owner(r) => Owns(p, rule[r], work[r])
  BY <1>3, Zenon DEF Owner, Owns
<1> QED
  BY <1>1, <1>6, <1>7, OneOwned, Zenon DEF p

LEMMA AddRuleOwned ==
    ASSUME TypeInv, HistoryInv, OwnedInv, NEW r \in Rules, AddRule(r)
    PROVE  OwnedInv'
<1>1. Static /\ UNCHANGED pod
  BY AddRuleStep, Zenon
<1>2. PICK o \in Rule, w \in Handler :
         Taken(r, "addRule", o, w) /\ (AddedNot(r, o, w) \/ AddedBound(r, o, w))
  BY AddRuleStep, Zenon
<1>3. w \in {wait[r], Idle} /\ Follows(o, rule[r])
  BY <1>2, TakenVersion, Zenon
<1>4. Pending(r) /\ o.here
  <2>1. CASE r \in q["addRule"] /\ o = crule[r]
    BY <2>1, OwnedAt, Zenon DEF Pending
  <2>2. CASE wait[r].by = "addRule" /\ o = wait[r].obj
    <3>1. wait[r] # Idle
      BY <2>2, IdleIs
    <3> QED
      BY <2>2, <3>1, NowLived, Zenon DEF Pending, Position
  <2> QED
    BY <1>2, <2>1, <2>2, Zenon DEF Taken
<1>5. rule[r] \in {rule[r], Bound(r, rule[r])}
      /\ Bound(r, rule[r]) \in {rule[r], Bound(r, rule[r])}
  OBVIOUS
<1>6. w = wait[r] \/ w = Idle
  BY <1>3
<1>7. CASE AddedNot(r, o, w)
  <2>1. OneRule(r, rule[r], crule[r], Idle, w) /\ o.v4ip # None
    BY <1>4, <1>7, Zenon DEF AddedNot
  <2>2. Idle.at # "gone"
    BY IdleIs
  <2>3. Owner(r) => rule[r].v4ip # None
    BY <1>3, <1>4, <2>1, OwnedAt, Zenon DEF Follows, Kept
  <2> QED
    BY <1>1, <1>4, <1>5, <1>6, <2>1, <2>2, <2>3, BoundOwned, Zenon
<1>8. CASE AddedBound(r, o, w)
  <2>1. OneRule(r, Bound(r, rule[r]), crule[r], Hand("addRule", "bound", o), w)
    BY <1>8, Zenon DEF AddedBound
  <2>2. /\ Hand("addRule", "bound", o).at # "gone"
        /\ Asked(r \in q'["addRule"], Hand("addRule", "bound", o), w)
    BY DEF Hand, Asked
  <2> QED
    BY <1>1, <1>4, <1>5, <1>6, <2>1, <2>2, BoundOwned, Zenon
<1> QED
  BY <1>2, <1>7, <1>8

LEMMA ShowOwned ==
    ASSUME TypeInv, HistoryInv, OwnedInv, NEW r \in Rules, ShowRule(r)
    PROVE  OwnedInv'
<1> DEFINE n == PatchedStatus(r, work[r].obj.eip, 0, TRUE)
           h == Moved(r, "shown")
           p == Asked(r \in q'["addRule"], h, wait[r])
<1>1. /\ Static /\ UNCHANGED <<pod, q>> /\ At(r, "made")
      /\ OneRule(r, n, crule[r], h, wait[r])
  BY ShowRuleStep, Zenon
<1>2. work[r] # Idle
  BY <1>1, IdleIs DEF At
<1>3. work[r].by = "addRule"
  BY <1>1, <1>2, NowLived, Zenon DEF At, Position
<1>4. h.by = "addRule" /\ h.at # "gone"
  BY <1>3, MovedType
<1>5. n.here = rule[r].here /\ n.term = rule[r].term /\ n.fin = rule[r].fin
  <2>1. work[r].obj.eip \in Eips \cup {None}
    BY RuleType DEF Rule
  <2>2. Patched(r, work[r].obj.eip, 0, TRUE, n)
    BY <2>1, PatchedFacts, Zenon DEF TypeInv
  <2> HIDE DEF n
  <2> QED
    BY <2>2 DEF Patched
<1> HIDE DEF n, h
<1>6. p
  BY <1>4 DEF Asked
<1> HIDE DEF p
<1>7. Pending(r)
  BY <1>3 DEF Pending
<1>8. Kept(rule[r]) /\ crule[r].here
  BY <1>7, OwnedAt, Zenon
<1>9. ~crule[r].term /\ ~wait[r].obj.term
  BY <1>8, NowLived, TermFollows, Zenon
<1>10. Kept(n) /\ n.here
  BY <1>5, <1>8, Zenon DEF Kept
<1>11. Awaits(p, n, crule[r], wait[r])
  BY <1>8, <1>9, <1>10, Zenon DEF Awaits, Final
<1>12. Owner(r) => Owns(p, n, h)
  BY <1>4, <1>5, <1>6, Zenon DEF Owner, Owns
<1> QED
  BY <1>1, <1>11, <1>12, OneOwned, Zenon DEF p

LEMMA LabelOwned ==
    ASSUME TypeInv, HistoryInv, OwnedInv, NEW r \in Rules, LabelRule(r)
    PROVE  OwnedInv'
<1> DEFINE n == LabelledRule(r)
           h == Moved(r, "labelled")
           p == Asked(r \in q'["addRule"], h, wait[r])
<1>1. /\ Static /\ At(r, "shown")
      /\ \/ Requeued(r)
         \/ OneRule(r, n, crule[r], h, wait[r]) /\ UNCHANGED <<pod, q>>
  BY LabelRuleStep, Zenon
<1>2. CASE OneRule(r, n, crule[r], h, wait[r]) /\ UNCHANGED <<pod, q>>
  <2>1. h.by = work[r].by /\ h.at # "gone"
    BY MovedType
  <2>2. /\ n.here = rule[r].here /\ n.term = rule[r].term /\ n.fin = rule[r].fin
        /\ n.v4ip = rule[r].v4ip
    BY RuleType DEF LabelledRule, Rule
  <2> HIDE DEF n, h
  <2>3. p <=> Pending(r)
    BY <1>2, <2>1, PendingIs DEF Asked
  <2>4. p \in BOOLEAN /\ (p <=> Asked(r \in q'["addRule"], h, wait[r]))
    BY DEF Asked
  <2> HIDE DEF p
  <2>5. /\ Kept(rule[r]) => Kept(n)
        /\ rule[r].here => n.here
        /\ n.here /\ n.v4ip # None => rule[r].here /\ rule[r].v4ip # None
        /\ Grows(rule[r], n)
    BY <2>2 DEF Kept, Grows
  <2>6. QuietStep(r, n, p, h, wait[r])
    BY <2>1, <2>3, <2>5, Zenon DEF QuietStep
  <2> QED
    BY <1>1, <1>2, <2>4, <2>6, QuietOwned, Zenon
<1> QED
  BY <1>1, <1>2, RequeuedOwned, Zenon

LEMMA RefreshOwned ==
    ASSUME TypeInv, HistoryInv, OwnedInv, NEW r \in Rules, RefreshEip(r)
    PROVE  OwnedInv'
<1>1. /\ Static /\ UNCHANGED pod /\ At(r, "labelled")
      /\ q'["addRule"] = q["addRule"]
      /\ \E n \in {rule[r], Bound(r, rule[r])} :
            OneRule(r, n, crule[r], Idle, wait[r])
  BY RefreshEipStep, Zenon
<1>2. PICK n \in {rule[r], Bound(r, rule[r])} : OneRule(r, n, crule[r], Idle, wait[r])
  BY <1>1, Zenon
<1>3. Asked(r \in q'["addRule"], Idle, wait[r]) => Pending(r)
  BY <1>1, IdleIs DEF Asked, Pending
<1>4. rule[r].here => rule[r].v4ip # None
  BY <1>1, NowLived, Zenon DEF At, Position
<1>5. Owner(r) => rule[r].v4ip # None
  BY <1>4, NowLived, Zenon DEF Owner, Owns, Version
<1>6. Idle.at # "gone"
  BY IdleIs
<1> QED
  BY <1>1, <1>2, <1>3, <1>5, <1>6, BoundOwned, Zenon

\* An update handler that starts leaves the adds alone.
LEMMA TakenUpdate ==
    ASSUME TypeInv, NEW r \in Rules, NEW o, NEW w, Taken(r, "updRule", o, w),
           NEW h, h.by # "addRule"
    PROVE  Asked(r \in q'["addRule"], h, w) <=> Pending(r)
<1>1. r \in q'["addRule"] <=> r \in q["addRule"]
  <2>1. "updRule" # "addRule"
    OBVIOUS
  <2> QED
    BY <2>1, AddQueue, Zenon DEF Taken
<1>2. work[r].by # "addRule" /\ Idle.by # "addRule"
  BY IdleIs, Zenon DEF Taken
<1>3. w.by = "addRule" <=> wait[r].by = "addRule"
  BY <1>2, Zenon DEF Taken
<1> QED
  BY <1>1, <1>2, <1>3, Zenon DEF Asked, Pending

LEMMA KeepOwned ==
    ASSUME TypeInv, HistoryInv, OwnedInv, NEW r \in Rules, KeepRule(r)
    PROVE  OwnedInv'
<1>1. Static /\ UNCHANGED pod
  BY KeepRuleStep, Zenon
<1>2. PICK o \in Rule, w \in Handler, n \in {rule[r], Bound(r, rule[r])} :
         Taken(r, "updRule", o, w) /\ OneRule(r, n, crule[r], Idle, w)
  BY KeepRuleStep, Zenon
<1>3. Idle.by # "addRule" /\ Idle.at # "gone"
  BY IdleIs
<1>4. Asked(r \in q'["addRule"], Idle, w) <=> Pending(r)
  BY <1>2, <1>3, TakenUpdate, Zenon
<1>5. w = wait[r] \/ w = Idle
  BY <1>2, Zenon DEF Taken
<1> QED
  BY <1>1, <1>2, <1>3, <1>4, <1>5, BoundOwned, Zenon

LEMMA ReleaseOwned ==
    ASSUME TypeInv, HistoryInv, OwnedInv, NEW r \in Rules, ReleaseRule(r)
    PROVE  OwnedInv'
<1> DEFINE n == ReleasedRule(r)
           p == Asked(r \in q'["addRule"], Idle, wait[r])
<1>1. /\ Static /\ UNCHANGED pod /\ At(r, "gone")
      /\ q'["addRule"] = q["addRule"]
      /\ OneRule(r, n, crule[r], Idle, wait[r])
  BY ReleaseRuleStep
<1>2. n = rule[r] \/ n = NoRule
  BY <1>1, ReleasedGoes
<1> HIDE DEF n
<1>3. work[r].at = "gone" /\ work[r] # Idle
  BY <1>1, IdleIs DEF At
<1>4. work[r].by = "updRule" /\ work[r].obj.term
  BY <1>3, NowLived, Zenon DEF Position
<1>5. ~Kept(rule[r]) /\ ~Kept(crule[r])
  BY <1>4, NowLived, TermFollows, Zenon
<1>6. ~Owner(r) /\ ~Pending(r)
  BY <1>3, <1>5, OwnedAt, Zenon DEF Owner, Owns
<1>7. ~p
  BY <1>1, <1>6, IdleIs DEF Asked, Pending
<1>8. wait[r].by # "updRule"
  BY <1>4 DEF TypeInv, LocksApart
<1>9. ~NoRule.here
  BY NowLived, NoRuleType, Zenon
<1>10. Final(crule[r], n) /\ Final(wait[r].obj, n)
  BY <1>2, <1>9, OwnedAt, Zenon DEF Final
<1> HIDE DEF p
<1>11. Awaits(p, n, crule[r], wait[r])
  BY <1>5, <1>7, <1>8, <1>10, Zenon DEF Awaits
<1> QED
  BY <1>1, <1>6, <1>11, OneOwned, Zenon DEF p

LEMMA ShowRedoneOwned ==
    ASSUME TypeInv, HistoryInv, OwnedInv, NEW r \in Rules, ShowRedone(r)
    PROVE  OwnedInv'
<1> DEFINE m == PatchedStatus(r, None, 0, TRUE)
           n == Bound(r, m)
           p == Asked(r \in q'["addRule"], Idle, wait[r])
<1>1. /\ Static /\ UNCHANGED <<pod, q>> /\ At(r, "redone")
      /\ OneRule(r, n, crule[r], Idle, wait[r])
  BY ShowRedoneStep, Zenon
<1>2. work[r] # Idle
  BY <1>1, IdleIs DEF At
<1>3. work[r].by = "updRule" /\ work[r].obj.here /\ work[r].obj.v4ip # None
  BY <1>1, <1>2, NowLived, Zenon DEF At, Position
<1>4. /\ crule[r].here => crule[r].v4ip # None
      /\ rule[r].here => rule[r].v4ip # None
  BY <1>3, NowLived, Zenon DEF Follows
<1>5. m \in Rule /\ Grows(rule[r], m) /\ Version(r, m)
  BY <1>4, KnownGrows, Zenon
<1>6. m.here = rule[r].here /\ m.term = rule[r].term
  <2>1. None \in Eips \cup {None}
    OBVIOUS
  <2>2. Patched(r, None, 0, TRUE, m)
    BY <2>1, PatchedFacts, Zenon DEF TypeInv
  <2> HIDE DEF m
  <2> QED
    BY <2>2 DEF Patched
<1> HIDE DEF m
<1>7. Grows(m, n) /\ SameButFin(m, n)
  BY <1>5, RuleType, RuleOps, BoundGrows, BoundFields
<1> HIDE DEF n
<1>8. /\ Kept(rule[r]) => Kept(n)
      /\ rule[r].here => n.here
      /\ n.here => rule[r].here
  BY <1>6, <1>7 DEF SameButFin, Kept
<1>9. Grows(rule[r], n)
  BY <1>5, <1>7, Zenon DEF Grows
<1>10. p <=> Pending(r)
  BY <1>1, <1>3, IdleIs, Zenon DEF Asked, Pending
<1>11. p \in BOOLEAN /\ (p <=> Asked(r \in q'["addRule"], Idle, wait[r]))
  BY DEF Asked
<1>12. Idle.at # "gone"
  BY IdleIs
<1> HIDE DEF p
<1>13. QuietStep(r, n, p, Idle, wait[r])
  BY <1>4, <1>8, <1>9, <1>10, <1>12, Zenon DEF QuietStep
<1> QED
  BY <1>1, <1>11, <1>13, QuietOwned

\* A step that only takes rows away and leaves every rule as it was.
LEMMA StillOwned ==
    ASSUME Static, OwnedInv, \A s \in Rules : Untouched(s),
           \A g \in Gws : pod'[g].rows \subseteq pod[g].rows
    PROVE  OwnedInv'
<1>1. \A s \in Rules : (Owner(s) => Owner(s)') /\ Waited(s)'
  BY UntouchedOwner, Zenon DEF OwnedInv
<1>2. RowsOwned'
  BY <1>1, RowsStayOwned DEF OwnedInv
<1> QED
  BY <1>1, <1>2, Zenon DEF OwnedInv

LEMMA SweepOwned ==
    ASSUME TypeInv, HistoryInv, OwnedInv, NEW g \in Gws, SweepOf(g)
    PROVE  OwnedInv'
<1>1. /\ Static /\ UNCHANGED <<crule, work, wait, pod>>
      /\ q'["addRule"] = q["addRule"]
      /\ \A r \in Rules : Swept(r, g)
  BY SweepStep, Zenon DEF SweepOf
<1>2. ASSUME NEW r \in Rules
      PROVE  (Owner(r) => Owner(r)') /\ Waited(r)'
  <2> DEFINE n == rule'[r]
  <2>1. /\ Kept(rule[r]) => Kept(n)
        /\ rule[r].here => n.here
        /\ n.here /\ n.v4ip # None => rule[r].here /\ rule[r].v4ip # None
        /\ Grows(rule[r], n)
    <3>1. CASE n = rule[r]
      BY <3>1, RuleType, FollowsSelf, Zenon
    <3>2. CASE /\ crule[r].here /\ crule[r].label # None
               /\ n = PatchedStatus(r, None, initCreateAt(g), FALSE)
      <4>1. crule[r].v4ip # None
        BY <3>2, NowLived, Zenon DEF Version
      <4>2. initCreateAt(g) \in Nat /\ None \in Eips \cup {None}
        BY SweepTime
      <4>3. Grows(rule[r], n)
        BY <3>2, <4>1, <4>2, KnownGrows, Zenon
      <4>4. Patched(r, None, initCreateAt(g), FALSE, n)
        BY <3>2, <4>2, PatchedFacts, Zenon DEF TypeInv
      <4>5. rule[r].here => rule[r].v4ip # None
        BY <3>2, <4>1, NowLived, Zenon DEF Follows
      <4> HIDE DEF n
      <4> QED
        BY <4>3, <4>4, <4>5 DEF Patched, Kept
    <3> QED
      BY <1>1, <3>1, <3>2, Zenon DEF Swept
  <2>2. /\ rule'[r] = n /\ crule'[r] = crule[r]
        /\ work'[r] = work[r] /\ wait'[r] = wait[r]
        /\ r \in q'["addRule"] <=> r \in q["addRule"]
    BY <1>1
  <2> HIDE DEF n
  <2>3. Pending(r)' <=> Pending(r)
    BY <2>2, Zenon DEF Pending
  <2>4. Owner(r) => work[r].at # "gone"
    BY Zenon DEF Owner, Owns
  <2>5. QuietStep(r, n, Pending(r), work[r], wait[r])
    BY <2>1, <2>4, Zenon DEF QuietStep
  <2>6. /\ Awaits(Pending(r), n, crule[r], wait[r])
        /\ Owner(r) => Owns(Pending(r), n, work[r])
    BY <2>5, QuietAwaits, Zenon
  <2> QED
    BY <2>2, <2>3, <2>6, Zenon DEF Owner, Owns, Waited, Awaits, Final, Kept
<1>3. \A h \in Gws : pod'[h].rows \subseteq pod[h].rows
  BY <1>1
<1>4. RowsOwned'
  BY <1>1, <1>2, <1>3, RowsStayOwned DEF OwnedInv
<1> QED
  BY <1>2, <1>4, Zenon DEF OwnedInv

LEMMA RestartOwned ==
    ASSUME TypeInv, OwnedInv, NEW g \in Gws, Restart(g)
    PROVE  OwnedInv'
<1>1. /\ Static /\ UNCHANGED <<rule, crule, work, wait>>
      /\ q'["addRule"] = q["addRule"]
      /\ pod'[g].rows = {}
      /\ \A h \in Gws \ {g} : pod'[h] = pod[h]
  BY RestartStep
<1>2. \A s \in Rules : Untouched(s)
  BY <1>1 DEF Untouched
<1>3. \A h \in Gws : pod'[h].rows \subseteq pod[h].rows
  BY <1>1
<1> QED
  BY <1>1, <1>2, <1>3, StillOwned

LEMMA AsideOwned ==
    ASSUME TypeInv, OwnedInv, AsideStep
    PROVE  OwnedInv'
<1>1. Aside
  BY AsideSteps
<1>2. Static /\ \A s \in Rules : Untouched(s)
  BY <1>1 DEF Aside, EnvAside, QueueAside, Untouched
<1>3. \A h \in Gws : pod'[h].rows \subseteq pod[h].rows
  BY <1>1 DEF Aside, PodAside, SameRows
<1> QED
  BY <1>2, <1>3, StillOwned

\* After a crash every rule that is kept is added again.
LEMMA CrashOwned ==
    ASSUME TypeInv, HistoryInv, OwnedInv, Crash
    PROVE  OwnedInv'
<1>1. /\ Static /\ UNCHANGED pod
      /\ \A r \in Rules : /\ rule'[r] = rule[r] /\ crule'[r] = rule[r]
                          /\ work'[r] = Idle /\ wait'[r] = Idle
                          /\ r \in q'["addRule"] <=> Kept(rule[r])
  BY CrashStep
<1>2. ASSUME NEW r \in Rules
      PROVE  (Owner(r) => Owner(r)') /\ Waited(r)'
  <2>1. Idle.by = "none" /\ Idle.at # "gone" /\ ~Idle.obj.term
    BY NowLived, NoRuleType, IdleIs
  <2>2. Pending(r)' <=> Kept(rule[r])
    BY <1>1, <2>1 DEF Pending
  <2>3. Owner(r) => Owns(Kept(rule[r]), rule[r], Idle)
    BY <2>1, OwnedAt, Zenon DEF Owner, Owns
  <2>4. Awaits(Kept(rule[r]), rule[r], rule[r], Idle)
    BY <2>1 DEF Awaits, Final, Kept
  <2>5. rule'[r] = rule[r] /\ crule'[r] = rule[r] /\ work'[r] = Idle /\ wait'[r] = Idle
    BY <1>1
  <2> QED
    BY <2>2, <2>3, <2>4, <2>5, Zenon DEF Owner, Owns, Waited, Awaits, Final, Kept
<1>3. \A h \in Gws : pod'[h].rows \subseteq pod[h].rows
  BY <1>1, Zenon
<1>4. RowsOwned'
  BY <1>1, <1>2, <1>3, RowsStayOwned, Zenon DEF OwnedInv
<1> QED
  BY <1>2, <1>4, Zenon DEF OwnedInv

\* A rule other than r that shares e has the address i.
HasSibling(r, e, i) ==
    \E s \in Rules \ {r} : /\ Owner(s) /\ env.kind[s] = "share"
                           /\ env.at[s] = e /\ env.inner[s] = i

\* A backend that the cache knows of belongs to a rule that will delete it.
LEMMA SiblingOwner ==
    ASSUME TypeInv, HistoryInv, OwnedInv, NEW r \in Rules, NEW e,
           NEW i \in getShareBackends(r, e)
    PROVE  HasSibling(r, e, i)
<1>1. PICK s \in Rules \ {r} : /\ crule[s].here /\ ~crule[s].term
                               /\ crule[s].label # None /\ crule[s].eip = e
                               /\ env.kind[s] = "share"
                               /\ i = crule[s].inner
  BY DEF getShareBackends, Labelled
<1>2. Version(s, crule[s]) /\ Follows(crule[s], rule[s])
  BY NowLived, Zenon
<1>3. /\ env.at[s] = e /\ env.inner[s] = i
      /\ crule[s].v4ip # None /\ crule[s].fin
  BY <1>1, <1>2 DEF Version
<1>4. rule[s].here
  BY <1>1, <1>3, OwnedAt, Zenon DEF Kept
<1>5. rule[s].fin /\ rule[s].v4ip # None
  BY <1>1, <1>2, <1>3, <1>4, Zenon DEF Follows
<1>6. work[s].at # "gone"
  <2> SUFFICES ASSUME work[s].at = "gone"
               PROVE  FALSE
    OBVIOUS
  <2>1. work[s].obj.term
    BY IdleIs, NowLived, Zenon DEF Position
  <2> QED
    BY <1>1, <2>1, NowLived, TermFollows, Zenon DEF Kept
<1>7. Owner(s)
  BY <1>5, <1>6, Zenon DEF Owner, Owns
<1> QED
  BY <1>1, <1>3, <1>7 DEF HasSibling

\* s owns the address i of the row w after the step.
WillOwn(s, w, i) ==
    /\ Owner(s)'
    /\ env.kind[s] = w.type /\ env.at[s] = w.ext /\ env.inner[s] = i

LEMMA RowsNext ==
    ASSUME Static, \A g \in Gws : \A w \in pod'[g].rows : \A i \in w.of :
                      \E s \in Rules : WillOwn(s, w, i)
    PROVE  RowsOwned'
<1>1. env'.kind = env.kind /\ env'.at = env.at /\ env'.inner = env.inner
  BY DEF Static
<1>2. ASSUME NEW s \in Rules, NEW w, NEW i, WillOwn(s, w, i)
      PROVE  OwnerOf(s, w, i)'
  BY <1>1, <1>2, Zenon DEF OwnerOf, WillOwn
<1>3. \A g \in Gws : \A w \in pod'[g].rows : \A i \in w.of :
         \E s \in Rules : OwnerOf(s, w, i)'
  BY <1>2, Zenon
<1> QED
  BY <1>3, Zenon DEF RowsOwned

\* What becomes of the owners when only r changes.
LEMMA OneOwner ==
    ASSUME OwnedInv, NEW r \in Rules, NEW n, NEW c, NEW h, NEW w,
           OneRule(r, n, c, h, w),
           Awaits(Asked(r \in q'["addRule"], h, w), n, c, w)
    PROVE  /\ Owner(r)' <=> Owns(Asked(r \in q'["addRule"], h, w), n, h)
           /\ \A s \in Rules \ {r} : Owner(s) => Owner(s)'
           /\ \A s \in Rules : Waited(s)'
<1>1. rule'[r] = n /\ crule'[r] = c /\ work'[r] = h /\ wait'[r] = w
  BY Zenon DEF OneRule
<1>2. Pending(r)' <=> Asked(r \in q'["addRule"], h, w)
  BY <1>1, PendingNext, Zenon
<1>3. Owner(r)' <=> Owns(Asked(r \in q'["addRule"], h, w), n, h)
  BY <1>1, <1>2, Zenon DEF Owner, Owns
<1>4. Waited(r)'
  BY <1>1, <1>2, Zenon DEF Waited, Awaits, Final, Kept
<1>5. \A s \in Rules \ {r} : (Owner(s) => Owner(s)') /\ Waited(s)'
  BY UntouchedOwner, Zenon DEF OneRule, OwnedInv
<1> QED
  BY <1>3, <1>4, <1>5, Zenon

\* The row of r is made, and r will delete it.
LEMMA MadeOwned ==
    ASSUME TypeInv, HistoryInv, Static, OwnedInv, NEW r \in Rules,
           NEW h, NEW w, OneRule(r, rule[r], crule[r], h, w),
           Awaits(Asked(r \in q'["addRule"], h, w), rule[r], crule[r], w),
           Owns(Asked(r \in q'["addRule"], h, w), rule[r], h),
           NEW o \in Rule, o.eip = env.at[r],
           RowMade(r, env.at[r], env.inner[r], o)
    PROVE  OwnedInv'
<1> DEFINE k == env.kind[r]
           e == env.at[r]
           j == env.inner[r]
           b == getShareBackends(r, o.eip)
<1>1. k \in Kinds /\ e \in Eips /\ j \in Inners /\ b \in SUBSET Inners
      /\ GwOf[e] \in Gws
  BY RuleType, BackendsType, NatGatewayAssumption, Zenon DEF TypeInv
<1>2. pod' = WithRow(k, e, j, b)
  BY Zenon DEF RowMade
<1>3. Owner(r)' /\ (\A s \in Rules : Owner(s) => Owner(s)') /\ \A s \in Rules : Waited(s)'
  BY OneOwner, Zenon
<1>4. \A i \in b : \E s \in Rules : /\ Owner(s) /\ env.kind[s] = "share"
                                    /\ env.at[s] = e /\ env.inner[s] = i
  <2> TAKE i \in b
  <2>1. i \in getShareBackends(r, e)
    OBVIOUS
  <2> HIDE DEF e, b
  <2>2. HasSibling(r, e, i)
    BY <2>1, SiblingOwner, Zenon
  <2> QED
    BY <2>2 DEF HasSibling
<1> HIDE DEF b, k, e, j
<1>5. /\ \A g \in Gws \ {GwOf[e]} : pod'[g] = pod[g]
      /\ pod'[GwOf[e]].rows = NewRows(pod[GwOf[e]].rows, k, e, j, b)
  BY <1>1, <1>2, WithRowRows, Zenon
<1>6. ASSUME NEW g \in Gws, NEW x \in pod'[g].rows, NEW i \in x.of
      PROVE  \E s \in Rules : WillOwn(s, x, i)
  <2>1. CASE x \in pod[g].rows
    <3>1. PICK s \in Rules : OwnerOf(s, x, i)
      BY <2>1, Zenon DEF OwnedInv, RowsOwned
    <3> QED
      BY <1>3, <3>1, Zenon DEF OwnerOf, WillOwn
  <2>2. CASE x \notin pod[g].rows
    <3>1. g = GwOf[e]
      BY <1>5, <2>2, Zenon
    <3>2. \/ k = "share" /\ x = Row(k, e, b \cup {j})
          \/ x = Row(k, e, {j})
      BY <1>5, <2>2, <3>1, Zenon DEF NewRows
    <3>3. x.type = k /\ x.ext = e /\ (i = j \/ (k = "share" /\ i \in b))
      BY <3>2 DEF Row
    <3>4. CASE i = j
      BY <1>3, <3>3, <3>4, Zenon DEF WillOwn, k, e, j
    <3>5. CASE k = "share" /\ i \in b
      <4>1. PICK s \in Rules : /\ Owner(s) /\ env.kind[s] = "share"
                               /\ env.at[s] = e /\ env.inner[s] = i
        BY <1>4, <3>5, Zenon
      <4> QED
        BY <1>3, <3>3, <3>5, <4>1, Zenon DEF WillOwn
    <3> QED
      BY <3>3, <3>4, <3>5, Zenon
  <2> QED
    BY <2>1, <2>2, Zenon
<1>7. RowsOwned'
  BY <1>6, RowsNext, Zenon
<1> QED
  BY <1>3, <1>7, Zenon DEF OwnedInv

\* The row of r goes with r's claim to it.
LEMMA GoneOwned ==
    ASSUME TypeInv, HistoryInv, Static, OwnedInv, NEW r \in Rules,
           NEW h, NEW w, OneRule(r, rule[r], crule[r], h, w),
           Awaits(Asked(r \in q'["addRule"], h, w), rule[r], crule[r], w),
           NEW o \in Rule, Version(r, o), o.here, RowsGone(r, o),
           Owner(r) => o.v4ip # None
    PROVE  OwnedInv'
<1> DEFINE k == env.kind[r]
           T == Targets(o)
           b == getShareBackends(r, o.eip)
           hit(x) == \E t \in T : Same(x, k, t[1]) /\ (k = "snat" => x.of = {t[2]})
<1>1. pod \in [Gws -> Pod] /\ \A g \in Gws : \A x \in pod[g].rows : FullRow(x)
  BY DEF TypeInv, PodTypes
<1>2. pod' = WithoutRows(k, T, b)
  BY Zenon DEF RowsGone
<1>3. \A t \in T : t[1] = env.at[r] /\ t[2] = env.inner[r]
  BY TargetsOwn, Zenon
<1>4. Owner(r) => <<env.at[r], env.inner[r]>> \in T
  <2> SUFFICES ASSUME o.v4ip # None
               PROVE  <<env.at[r], env.inner[r]>> \in T
    BY Zenon
  <2>1. o.v4ip = env.at[r] /\ o.in = env.inner[r] /\ env.inner[r] # None
    BY RuleType, NatGatewayAssumption, Zenon DEF Version
  <2>2. <<o.v4ip, o.in>> \in T
    BY <2>1, Zenon DEF Targets
  <2> QED
    BY <2>1, <2>2
<1>5. \A i \in b : HasSibling(r, env.at[r], i)
  <2> TAKE i \in b
  <2>1. i \in getShareBackends(r, env.at[r])
    BY DEF Version
  <2> QED
    BY <2>1, SiblingOwner, Zenon
<1>6. (\A s \in Rules \ {r} : Owner(s) => Owner(s)') /\ \A s \in Rules : Waited(s)'
  BY OneOwner, Zenon
<1> HIDE DEF b, T
<1>7. ASSUME NEW g \in Gws, NEW x \in pod'[g].rows
      PROVE  \/ x \in pod[g].rows /\ ~hit(x)
             \/ k = "share" /\ x = Row(k, env.at[r], b)
  <2> DEFINE new == {y \in pod[g].rows : ~hit(y)} \cup
                    {Row(k, t[1], b) : t \in {u \in T : /\ k = "share" /\ b # {}
                                                        /\ GwOf[u[1]] = g}}
  <2>1. pod'[g] = [pod[g] EXCEPT !.rows = new]
    BY <1>2 DEF WithoutRows
  <2> HIDE DEF new
  <2>2. pod'[g].rows = new
    BY <1>1, <2>1 DEF Pod
  <2>3. x \in new
    BY <1>7, <2>2
  <2> HIDE DEF hit
  <2> QED
    BY <1>3, <2>3 DEF new
<1>8. ASSUME NEW g \in Gws, NEW x \in pod'[g].rows, NEW i \in x.of
      PROVE  \E s \in Rules : WillOwn(s, x, i)
  <2>1. CASE x \in pod[g].rows /\ ~hit(x)
    <3>1. PICK s \in Rules : OwnerOf(s, x, i)
      BY <2>1, Zenon DEF OwnedInv, RowsOwned
    <3>2. s # r
      <4> SUFFICES ASSUME OwnerOf(r, x, i)
                   PROVE  hit(x)
        BY <2>1, <3>1, Zenon
      <4>1. /\ Owner(r) /\ x.type = k /\ x.ext = env.at[r] /\ i = env.inner[r]
        BY Zenon DEF OwnerOf
      <4>2. <<env.at[r], env.inner[r]>> \in T
        BY <1>4, <4>1, Zenon
      <4>3. FullRow(x)
        BY <1>1, <2>1, Zenon
      <4>4. k = "snat" => x.of = {env.inner[r]}
        BY <4>1, <4>3, Zenon DEF FullRow
      <4>5. Same(x, k, env.at[r])
        BY <4>1, Zenon DEF Same
      <4> QED
        BY <4>2, <4>4, <4>5, Zenon
    <3> QED
      BY <1>6, <3>1, <3>2, Zenon DEF OwnerOf, WillOwn
  <2>2. CASE k = "share" /\ x = Row(k, env.at[r], b)
    <3>1. x.type = "share" /\ x.ext = env.at[r] /\ i \in b
      BY <2>2, Zenon DEF Row
    <3>2. PICK s \in Rules \ {r} : /\ Owner(s) /\ env.kind[s] = "share"
                                   /\ env.at[s] = env.at[r] /\ env.inner[s] = i
      BY <1>5, <3>1, Zenon DEF HasSibling
    <3> QED
      BY <1>6, <3>1, <3>2, Zenon DEF WillOwn
  <2> HIDE DEF hit
  <2> QED
    BY <1>7, <2>1, <2>2, Zenon
<1>9. RowsOwned'
  BY <1>8, RowsNext, Zenon
<1> QED
  BY <1>6, <1>9, Zenon DEF OwnedInv

LEMMA InstallOwned ==
    ASSUME TypeInv, HistoryInv, OwnedInv, NEW r \in Rules, InstallRule(r)
    PROVE  OwnedInv'
<1> DEFINE o == work[r].obj
           h == Moved(r, "made")
           p == Asked(r \in q'["addRule"], h, wait[r])
<1>1. /\ Static /\ (At(r, "bound") \/ At(r, "cleared"))
      /\ \/ Requeued(r)
         \/ /\ OneRule(r, rule[r], crule[r], h, wait[r])
            /\ RowMade(r, o.eip, o.inner, o)
            /\ UNCHANGED q
  BY InstallRuleStep, Zenon
<1>2. work[r] # Idle
  BY <1>1, IdleIs, Zenon DEF At
<1>3. work[r].by = "addRule" /\ o.here /\ o \in Rule
  BY <1>1, <1>2, NowLived, RuleType, Zenon DEF At, Position
<1>4. o.eip = env.at[r] /\ o.inner = env.inner[r]
  BY <1>3, NowLived, Zenon DEF Version
<1>5. h.by = "addRule" /\ h.at # "gone"
  BY <1>3, MovedType
<1>6. Pending(r)
  BY <1>3 DEF Pending
<1>7. Kept(rule[r])
  BY <1>6, OwnedAt, Zenon
<1>8. rule[r].fin
  BY <1>3, <1>7, NowLived, Zenon DEF Position, Kept
<1> HIDE DEF h
<1>9. p
  BY <1>5 DEF Asked
<1> HIDE DEF p
<1>10. Owns(p, rule[r], h)
  BY <1>5, <1>8, <1>9, Zenon DEF Owns
<1>11. Awaits(p, rule[r], crule[r], wait[r])
  BY <1>6, OwnedAt, Zenon DEF Awaits
<1>12. CASE OneRule(r, rule[r], crule[r], h, wait[r]) /\ RowMade(r, o.eip, o.inner, o)
  <2>1. RowMade(r, env.at[r], env.inner[r], o)
    BY <1>4, <1>12
  <2> HIDE DEF o
  <2> QED
    BY <1>1, <1>3, <1>4, <1>10, <1>11, <1>12, <2>1, MadeOwned, Zenon DEF p
<1> QED
  BY <1>1, <1>12, RequeuedOwned, Zenon

\* What an update handler that starts leaves to those who wait.
LEMMA TakenAwaits ==
    ASSUME TypeInv, HistoryInv, OwnedInv, NEW r \in Rules, NEW o, NEW w,
           Taken(r, "updRule", o, w), NEW h, h.by # "addRule"
    PROVE  Awaits(Asked(r \in q'["addRule"], h, w), rule[r], crule[r], w)
<1>1. Asked(r \in q'["addRule"], h, w) <=> Pending(r)
  BY TakenUpdate, Zenon
<1>2. w = wait[r] \/ w = Idle
  BY Zenon DEF Taken
<1>3. Idle.by # "updRule" /\ ~Idle.obj.term
  BY IdleIs, NowLived, NoRuleType, Zenon
<1>4. CASE w = wait[r]
  BY <1>1, <1>4, OwnedAt, Zenon DEF Awaits
<1>5. CASE w = Idle
  BY <1>1, <1>3, <1>5, OwnedAt, Zenon DEF Awaits, Final
<1> QED
  BY <1>2, <1>4, <1>5

LEMMA RemoveOwned ==
    ASSUME TypeInv, HistoryInv, OwnedInv, NEW r \in Rules, RemoveRule(r)
    PROVE  OwnedInv'
<1>1. Static
  BY RemoveRuleStep, Zenon
<1>2. PICK o \in Rule, w \in Handler :
         /\ Taken(r, "updRule", o, w) /\ o.here /\ o.term
         /\ OneRule(r, rule[r], crule[r], Hand("updRule", "gone", o), w)
         /\ RowsGone(r, o)
  BY RemoveRuleStep, Zenon
<1> DEFINE h == Hand("updRule", "gone", o)
<1>3. h.by # "addRule"
  BY DEF Hand
<1>4. Version(r, o) /\ Follows(o, rule[r]) /\ o \in {wait[r].obj, crule[r]}
  BY <1>2, TakenVersion, Zenon
<1> HIDE DEF h
<1>5. Awaits(Asked(r \in q'["addRule"], h, w), rule[r], crule[r], w)
  BY <1>2, <1>3, TakenAwaits, Zenon
<1>6. ~Pending(r)
  BY <1>2, <1>4, TermFollows, OwnedAt, Zenon
<1>7. Owner(r) => o.v4ip # None
  <2>1. Owner(r) => rule[r].here /\ rule[r].v4ip # None
    BY <1>6, NowLived, Zenon DEF Owner, Owns, Version
  <2>2. Final(o, rule[r])
    BY <1>4, OwnedAt, Zenon
  <2> QED
    BY <1>2, <2>1, <2>2, Zenon DEF Final
<1> QED
  BY <1>1, <1>2, <1>4, <1>5, <1>7, GoneOwned, Zenon DEF h

LEMMA RedoOwned ==
    ASSUME TypeInv, HistoryInv, OwnedInv, NEW r \in Rules, RedoRule(r)
    PROVE  OwnedInv'
<1>1. Static
  BY RedoRuleStep, Zenon
<1>2. PICK o \in Rule, w \in Handler :
         /\ Taken(r, "updRule", o, w) /\ Kept(o) /\ Complete(o)
         /\ OneRule(r, rule[r], crule[r], Hand("updRule", "redone", o), w)
         /\ RowMade(r, o.v4ip, o.in, o)
  BY RedoRuleStep, Zenon
<1> DEFINE h == Hand("updRule", "redone", o)
<1>3. h.by # "addRule" /\ h.at # "gone"
  BY DEF Hand
<1>4. Version(r, o) /\ Follows(o, rule[r])
  BY <1>2, TakenVersion, Zenon
<1>5. o.here /\ o.v4ip # None
  BY <1>2, Zenon DEF Kept, Complete
<1>6. o.eip = env.at[r] /\ o.v4ip = env.at[r] /\ o.in = env.inner[r] /\ o.fin
  BY <1>4, <1>5, Zenon DEF Version
<1>7. rule[r].here
  <2>1. CASE o = crule[r]
    BY <1>2, <1>6, <2>1, OwnedAt, Zenon
  <2>2. CASE o = wait[r].obj /\ wait[r].by = "updRule"
    BY <1>2, <1>6, <2>2, OwnedAt, Zenon
  <2> QED
    BY <1>2, <2>1, <2>2, Zenon DEF Taken
<1>8. rule[r].fin /\ rule[r].v4ip # None
  BY <1>4, <1>5, <1>6, <1>7, Zenon DEF Follows
<1> HIDE DEF h
<1>9. Awaits(Asked(r \in q'["addRule"], h, w), rule[r], crule[r], w)
  BY <1>2, <1>3, TakenAwaits, Zenon
<1>10. Owns(Asked(r \in q'["addRule"], h, w), rule[r], h)
  BY <1>3, <1>8, Zenon DEF Owns
<1>11. RowMade(r, env.at[r], env.inner[r], o)
  BY <1>2, <1>6, Zenon
<1> QED
  BY <1>1, <1>2, <1>6, <1>9, <1>10, <1>11, MadeOwned, Zenon DEF h

LEMMA OwnedStep ==
    ASSUME TypeInv, HistoryInv, OwnedInv, Patient, [Next]_vars
    PROVE  OwnedInv'
<1>1. ASSUME NEW r \in Rules, UserStep(r)
      PROVE  OwnedInv'
  BY <1>1, CreateOwned, DeleteOwned, EventOwned, NothingChanges, Zenon DEF UserStep
<1>2. ASSUME NEW r \in Rules, AddStep(r)
      PROVE  OwnedInv'
  BY <1>2, AddRuleOwned, InstallOwned, ShowOwned, LabelOwned, RefreshOwned,
     Zenon DEF AddStep
<1>3. ASSUME NEW r \in Rules, UpdateStep(r)
      PROVE  OwnedInv'
  BY <1>3, RemoveOwned, ReleaseOwned, NothingChanges, RedoOwned,
     ShowRedoneOwned, KeepOwned, Zenon DEF UpdateStep
<1> QED
  BY <1>1, <1>2, <1>3, Steps, AsideOwned, LockOwned, SweepOwned, RestartOwned,
     CrashOwned, Zenon DEF RuleStepOf

LEMMA OwnedInit ==
    ASSUME Init, Unedited
    PROVE  OwnedInv
<1>1. TypeInv /\ HistoryInv
  BY InitFacts, HistoryInit, Zenon
<1>2. \A r \in Rules : crule[r] = rule[r] /\ work[r] = Idle /\ wait[r] = Idle
                       /\ r \notin q["addRule"]
  BY InitFacts, Zenon
<1>3. Idle.by = "none" /\ Idle.at # "gone"
  BY IdleIs
<1>4. ASSUME NEW r \in Rules
      PROVE  Waited(r)
  <2>1. ~Pending(r)
    BY <1>2, <1>3 DEF Pending
  <2>2. ~Idle.obj.term
    BY <1>1, NowLived, NoRuleType, IdleIs, Zenon
  <2>3. Awaits(Pending(r), rule[r], rule[r], Idle)
    BY <1>3, <2>1, <2>2 DEF Awaits, Final, Kept
  <2> QED
    BY <1>2, <2>3 DEF Waited
<1>5. ASSUME NEW r \in Rules, r \in env.there
      PROVE  Owner(r)
  <2> DEFINE n == [NewRule(env.at[r], env.inner[r]) EXCEPT
                     !.fin = TRUE, !.label = env.at[r],
                     !.v4ip = env.at[r], !.in = env.inner[r], !.ready = TRUE]
  <2>1. rule[r] = n
    BY <1>5, InitFacts, Zenon
  <2>2. n.fin /\ n.v4ip = env.at[r]
    BY DEF NewRule
  <2> HIDE DEF n
  <2>3. rule[r].v4ip # None
    BY <1>1, <2>1, <2>2, NowLived, Zenon
  <2> QED
    BY <1>2, <1>3, <2>1, <2>2, <2>3, Zenon DEF Owner, Owns
<1>6. ASSUME NEW g \in Gws, NEW w \in pod[g].rows, NEW i \in w.of
      PROVE  \E s \in Rules : OwnerOf(s, w, i)
  <2>1. PICK r \in Rules \cap env.there : w = FirstRow(r)
    BY <1>6, FirstRows
  <2>2. /\ w.type = env.kind[r] /\ w.ext = env.at[r]
        /\ w.of = IF env.kind[r] = "share"
                  THEN {env.inner[t] : t \in {u \in {v \in Rules \cap env.there :
                                                       env.at[v] = env.at[r]} :
                                                env.kind[u] = "share"}}
                  ELSE {env.inner[r]}
    BY <2>1 DEF FirstRow, Row
  <2>3. PICK s \in Rules \cap env.there :
           env.kind[s] = env.kind[r] /\ env.at[s] = env.at[r] /\ env.inner[s] = i
    BY <1>6, <2>2
  <2> QED
    BY <1>5, <2>2, <2>3, Zenon DEF OwnerOf
<1>7. RowsOwned
  BY <1>6, Zenon DEF RowsOwned
<1> QED
  BY <1>4, <1>7, Zenon DEF OwnedInv

\* Nothing is left in a pod that no handler will delete: whatever is there
\* belongs to a rule that still has its finalizer.  This is so for any gateways,
\* EIPs, rules (share rules on one port too), restarts, failed calls, crashes and
\* deletions, when nobody edits a rule and users delete one only at rest.
THEOREM RowsAlwaysManaged ==
    ASSUME Patient
    PROVE  Spec /\ Unedited => []NoUnmanagedRows
<1> DEFINE Inv == TypeInv /\ HistoryInv /\ OwnedInv
<1>1. Init /\ Unedited => Inv
  BY InitFacts, HistoryInit, OwnedInit, Zenon
<1>2. Inv /\ [Next]_vars => Inv'
  BY TypeStep, HistoryStep, OwnedStep
<1>3. Inv => NoUnmanagedRows
  <2> SUFFICES ASSUME Inv, NEW g \in Gws, NEW w \in pod[g].rows, NEW i \in w.of
               PROVE  \E r \in Rules : /\ rule[r].fin /\ env.kind[r] = w.type
                                       /\ rule[r].eip = w.ext /\ rule[r].inner = i
    BY Zenon DEF NoUnmanagedRows
  <2>1. PICK r \in Rules : OwnerOf(r, w, i)
    BY Zenon DEF OwnedInv, RowsOwned
  <2>2. rule[r].fin /\ env.kind[r] = w.type /\ env.at[r] = w.ext /\ env.inner[r] = i
    BY <2>1, Zenon DEF OwnerOf, Owner, Owns
  <2>3. rule[r].eip = env.at[r] /\ rule[r].inner = env.inner[r]
    BY <2>2, NowLived, Zenon DEF Version
  <2> QED
    BY <2>2, <2>3
<1> QED
  BY <1>1, <1>2, <1>3, PTL DEF Spec
=============================================================================
