----------------------- MODULE NatGatewayReadyProofs ------------------------
(***************************************************************************)
(* Proof about NatGateway: what is shown as ready is in the pod.  What a   *)
(* step does to the rules is taken from NatGatewayTypeProofs.              *)
(***************************************************************************)
EXTENDS NatGatewayTypeProofs

-----------------------------------------------------------------------------
(* What is in the pods *)

\* No two rules have the same row, and only one is shared at an EIP.
RulesApart ==
    \A r, s \in Rules :
       r # s /\ env.kind[r] = env.kind[s] /\ env.at[r] = env.at[s]
       => env.kind[r] = "snat" /\ env.inner[r] # env.inner[s]

InPod(r) == Installed(env.kind[r], env.at[r], env.inner[r])

\* A ready rule is in its pod, unless that came after the rule's mark.
ReadyInv(r) ==
    LET t == pod[GwOf[env.at[r]]].created
    IN  /\ Past(rule[r].redo) /\ Past(crule[r].redo)
        /\ Kept(rule[r]) /\ rule[r].ready /\ t \in {1, rule[r].redo} => InPod(r)
        /\ Kept(rule[r]) /\ work[r].at \in {"made", "redone"} => InPod(r)

-----------------------------------------------------------------------------
(* What is shown as ready is in the pod *)

AllReady == \A r \in Rules : ReadyInv(r)

\* The pods p have a row for i at e.
Has(p, k, e, i) == \E w \in p[GwOf[e]].rows : Same(w, k, e) /\ i \in w.of

LEMMA InPodHas ==
    ASSUME Static, NEW s \in Rules
    PROVE  /\ InPod(s) <=> Has(pod, env.kind[s], env.at[s], env.inner[s])
           /\ InPod(s)' <=> Has(pod', env.kind[s], env.at[s], env.inner[s])
<1>1. /\ env'.kind[s] = env.kind[s] /\ env'.at[s] = env.at[s]
      /\ env'.inner[s] = env.inner[s]
  BY DEF Static
<1>2. InPod(s) <=> Has(pod, env.kind[s], env.at[s], env.inner[s])
  BY Zenon DEF InPod, Installed, Has
<1>3. InPod(s)' <=> Has(pod', env'.kind[s], env'.at[s], env'.inner[s])
  BY Zenon DEF InPod, Installed, Has, Same
<1> QED
  BY <1>1, <1>2, <1>3

LEMMA RowsKeepHas ==
    ASSUME TypeInv, Static, SameRows
    PROVE  \A s \in Rules : InPod(s) => InPod(s)'
<1> TAKE s \in Rules
<1>1. GwOf[env.at[s]] \in Gws
  BY RuleType, NatGatewayAssumption
<1>2. pod'[GwOf[env.at[s]]].rows = pod[GwOf[env.at[s]]].rows
  BY <1>1 DEF SameRows
<1>3. Has(pod, env.kind[s], env.at[s], env.inner[s])
      => Has(pod', env.kind[s], env.at[s], env.inner[s])
  BY <1>2, Zenon DEF Has
<1> QED
  BY <1>3, InPodHas, Zenon

\* A rule that is made is in its pod, and the others stay in theirs.
LEMMA MadeKeeps ==
    ASSUME TypeInv, Static, RulesApart, NEW r \in Rules, NEW o \in Rule,
           RowMade(r, env.at[r], env.inner[r], o)
    PROVE  InPod(r)' /\ \A s \in Rules \ {r} : InPod(s) => InPod(s)'
<1> DEFINE k == env.kind[r]
           e == env.at[r]
           i == env.inner[r]
           b == getShareBackends(r, o.eip)
           g == GwOf[e]
<1>1. k \in Kinds /\ e \in Eips /\ i \in Inners /\ b \in SUBSET Inners /\ g \in Gws
  BY RuleType, BackendsType, NatGatewayAssumption DEF TypeInv
<1>2. pod' = WithRow(k, e, i, b)
  BY DEF RowMade
<1> HIDE DEF b, k, e, i
<1>3. /\ \A h \in Gws \ {g} : pod'[h] = pod[h]
      /\ pod'[g].rows = NewRows(pod[g].rows, k, e, i, b)
  BY <1>1, <1>2, WithRowRows, Zenon
<1>4. Has(pod', k, e, i)
  <2>1. \E w \in NewRows(pod[g].rows, k, e, i, b) : Same(w, k, e) /\ i \in w.of
    <3>1. CASE k = "share"
      <4>1. Row(k, e, b \cup {i}) \in NewRows(pod[g].rows, k, e, i, b)
        BY <3>1 DEF NewRows
      <4> QED
        BY <4>1 DEF Row, Same
    <3>2. CASE k # "share"
      <4>1. Row(k, e, {i}) \in NewRows(pod[g].rows, k, e, i, b)
        BY <3>2 DEF NewRows
      <4> QED
        BY <4>1 DEF Row, Same
    <3> QED
      BY <3>1, <3>2
  <2> QED
    BY <1>3, <2>1, Zenon DEF Has
<1>5. ASSUME NEW s \in Rules \ {r}, Has(pod, env.kind[s], env.at[s], env.inner[s])
      PROVE  Has(pod', env.kind[s], env.at[s], env.inner[s])
  <2>1. PICK w \in pod[GwOf[env.at[s]]].rows :
           Same(w, env.kind[s], env.at[s]) /\ env.inner[s] \in w.of
    BY <1>5, Zenon DEF Has
  <2>2. GwOf[env.at[s]] \in Gws
    BY RuleType, NatGatewayAssumption
  <2>3. GwOf[env.at[s]] = g /\ k = "share" => ~Same(w, k, e)
    BY <2>1 DEF Same, RulesApart, k, e
  <2>4. w \in pod'[GwOf[env.at[s]]].rows
    BY <1>3, <2>1, <2>2, <2>3 DEF NewRows
  <2> QED
    BY <2>1, <2>4, Zenon DEF Has
<1> QED
  BY <1>4, <1>5, InPodHas, Zenon DEF k, e, i

LEMMA GoneKeeps ==
    ASSUME TypeInv, Static, RulesApart, NEW r \in Rules, NEW o \in Rule,
           Version(r, o), o.here, RowsGone(r, o)
    PROVE  \A s \in Rules \ {r} : InPod(s) => InPod(s)'
<1> DEFINE k == env.kind[r]
           T == Targets(o)
           b == getShareBackends(r, o.eip)
           hit(w) == \E t \in T : Same(w, k, t[1]) /\ (k = "snat" => w.of = {t[2]})
<1>1. pod \in [Gws -> Pod]
  BY DEF TypeInv, PodTypes
<1>2. pod' = WithoutRows(k, T, b)
  BY DEF RowsGone
<1>3. \A t \in T : t[1] = env.at[r] /\ t[2] = env.inner[r]
  BY TargetsOwn
<1> HIDE DEF b, T
<1>4. ASSUME NEW g \in Gws
      PROVE  {w \in pod[g].rows : ~hit(w)} \subseteq pod'[g].rows
  <2> DEFINE new == {w \in pod[g].rows : ~hit(w)} \cup
                    {Row(k, t[1], b) : t \in {u \in T : /\ k = "share" /\ b # {}
                                                        /\ GwOf[u[1]] = g}}
  <2>1. pod'[g] = [pod[g] EXCEPT !.rows = new]
    BY <1>2 DEF WithoutRows
  <2> HIDE DEF new
  <2>2. pod'[g].rows = new
    BY <1>1, <2>1 DEF Pod
  <2> QED
    BY <2>2 DEF new
<1>5. ASSUME NEW s \in Rules \ {r}, Has(pod, env.kind[s], env.at[s], env.inner[s])
      PROVE  Has(pod', env.kind[s], env.at[s], env.inner[s])
  <2>1. PICK w \in pod[GwOf[env.at[s]]].rows :
           Same(w, env.kind[s], env.at[s]) /\ env.inner[s] \in w.of
    BY <1>5, Zenon DEF Has
  <2>2. GwOf[env.at[s]] \in Gws
    BY RuleType, NatGatewayAssumption
  <2>3. ~hit(w)
    BY <1>3, <2>1 DEF Same, RulesApart
  <2> HIDE DEF hit
  <2>4. w \in pod'[GwOf[env.at[s]]].rows
    BY <1>4, <2>1, <2>2, <2>3
  <2> QED
    BY <2>1, <2>4, Zenon DEF Has
<1> QED
  BY <1>5, InPodHas, Zenon

\* A handler has just made the row.
Mid(h) == h.at \in {"made", "redone"}

\* Why r is in its pod after a step that makes n of it and h of its handler.
StaysReady(r, n, h) ==
    /\ Kept(n) /\ n.ready =>
          \/ InPod(r)'
          \/ /\ Kept(rule[r]) /\ rule[r].ready /\ n.redo = rule[r].redo
             /\ InPod(r) => InPod(r)'
    /\ Kept(n) /\ Mid(h) =>
          \/ InPod(r)'
          \/ Kept(rule[r]) /\ Mid(work[r]) /\ (InPod(r) => InPod(r)')

LEMMA ReadyAt ==
    ASSUME TypeInv, Static, SameTimes, NEW r \in Rules, ReadyInv(r), NEW n, NEW h,
           rule'[r] = n, work'[r] = h, Past(n.redo), Past(crule'[r].redo),
           StaysReady(r, n, h)
    PROVE  ReadyInv(r)'
<1> DEFINE g == GwOf[env.at[r]]
<1>1. g \in Gws /\ env'.at[r] = env.at[r]
  BY RuleType, NatGatewayAssumption DEF Static
<1>2. pod'[g].created = pod[g].created
  BY <1>1 DEF SameTimes
<1>3. Past(rule[r].redo)' /\ Past(crule[r].redo)'
  BY DEF Past, SameTimes
<1>4. /\ Kept(rule[r]) /\ rule[r].ready /\ pod[g].created \in {1, rule[r].redo} => InPod(r)
      /\ Kept(rule[r]) /\ Mid(work[r]) => InPod(r)
  BY Zenon DEF ReadyInv, Mid
<1>5. /\ Kept(n) /\ n.ready /\ pod[g].created \in {1, n.redo} => InPod(r)'
      /\ Kept(n) /\ Mid(h) => InPod(r)'
  BY <1>4, Zenon DEF StaysReady
<1>6. /\ Kept(rule'[r]) /\ rule'[r].ready /\ pod'[GwOf[env'.at[r]]].created \in {1, rule'[r].redo}
         => InPod(r)'
      /\ Kept(rule'[r]) /\ work'[r].at \in {"made", "redone"} => InPod(r)'
  BY <1>1, <1>2, <1>5, Zenon DEF Mid
<1> QED
  BY <1>3, <1>6, Zenon DEF ReadyInv, Kept

LEMMA ReadyPast ==
    ASSUME TypeInv, AllReady, NEW r \in Rules
    PROVE  /\ ReadyInv(r) /\ Past(rule[r].redo) /\ Past(crule[r].redo)
           /\ Past(0) /\ Past(NoRule.redo)
<1>1. Past(0)
  BY PodType, NatGatewayAssumption DEF Past
<1>2. NoRule.redo = 0
  BY DEF NoRule, NewRule
<1> QED
  BY <1>1, <1>2, Zenon DEF AllReady, ReadyInv

\* Nothing happens to r, or the pods, that matters here.
LEMMA SameReady ==
    ASSUME TypeInv, Static, SameTimes, AllReady, NEW r \in Rules,
           rule'[r] = rule[r], crule'[r] = crule[r], work'[r] = work[r],
           InPod(r) => InPod(r)'
    PROVE  ReadyInv(r)'
<1>1. StaysReady(r, rule[r], work[r])
  BY Zenon DEF StaysReady
<1> QED
  BY <1>1, ReadyPast, ReadyAt, Zenon

LEMMA OneReady ==
    ASSUME TypeInv, Static, SameTimes, AllReady, NEW r \in Rules,
           NEW n, NEW c, NEW h, NEW w, OneRule(r, n, c, h, w),
           \A s \in Rules \ {r} : InPod(s) => InPod(s)',
           Past(n.redo), Past(c.redo), StaysReady(r, n, h)
    PROVE  AllReady'
<1>1. ReadyInv(r)'
  BY ReadyPast, ReadyAt, Zenon DEF OneRule
<1>2. \A s \in Rules \ {r} : ReadyInv(s)'
  BY SameReady, Zenon DEF OneRule, Untouched
<1>3. \A s \in Rules : ReadyInv(s)'
  BY <1>1, <1>2, Zenon
<1> QED
  BY <1>3, Zenon DEF AllReady

\* The pods stay as they are.
LEMMA PodStays ==
    ASSUME TypeInv, Static, UNCHANGED pod
    PROVE  SameTimes /\ SameRows /\ \A s \in Rules : InPod(s) => InPod(s)'
<1>1. SameTimes /\ SameRows
  BY DEF SameTimes, SameRows
<1> QED
  BY <1>1, RowsKeepHas

\* r is neither ready anew nor at the point where its row was made.
LEMMA QuietReady ==
    ASSUME TypeInv, Static, UNCHANGED pod, AllReady, NEW r \in Rules,
           NEW n, NEW c, NEW h, NEW w, OneRule(r, n, c, h, w),
           Past(n.redo), Past(c.redo),
           Kept(n) /\ n.ready => Kept(rule[r]) /\ rule[r].ready /\ n.redo = rule[r].redo,
           Kept(n) /\ Mid(h) => Kept(rule[r]) /\ Mid(work[r])
    PROVE  AllReady'
<1>1. SameTimes /\ \A s \in Rules : InPod(s) => InPod(s)'
  BY PodStays
<1>2. StaysReady(r, n, h)
  BY <1>1, Zenon DEF StaysReady
<1> QED
  BY <1>1, <1>2, OneReady, Zenon

\* Only the finalizer of r changes, and its handler waits, starts or is done.
LEMMA BoundReady ==
    ASSUME TypeInv, Static, UNCHANGED pod, AllReady, NEW r \in Rules,
           NEW n \in {rule[r], Bound(r, rule[r])}, NEW h, NEW w,
           OneRule(r, n, crule[r], h, w), Mid(h) => h = work[r]
    PROVE  AllReady'
<1>1. rule[r] \in Rule
  BY RuleType
<1>2. SameButFin(rule[r], n)
  <2>1. SameButFin(rule[r], rule[r])
    BY DEF SameButFin
  <2> QED
    BY <1>1, <2>1, BoundFields, Zenon
<1>3. Past(n.redo) /\ Past(crule[r].redo)
  BY <1>2, ReadyPast DEF SameButFin
<1>4. /\ Kept(n) /\ n.ready => Kept(rule[r]) /\ rule[r].ready /\ n.redo = rule[r].redo
      /\ Kept(n) /\ Mid(h) => Kept(rule[r]) /\ Mid(work[r])
  BY <1>2 DEF SameButFin, Kept
<1> QED
  BY <1>3, <1>4, QuietReady, Zenon

LEMMA NotMid ==
    /\ ~Mid(Idle) /\ \A by, o : ~Mid(Hand(by, "bound", o)) /\ ~Mid(Hand(by, "gone", o))
<1>1. \A by, o : Hand(by, "bound", o).at = "bound" /\ Hand(by, "gone", o).at = "gone"
  BY DEF Hand
<1> QED
  BY <1>1, IdleIs DEF Mid

LEMMA RequeuedReady ==
    ASSUME TypeInv, Static, AllReady, NEW r \in Rules, Requeued(r)
    PROVE  AllReady'
<1>1. OneRule(r, rule[r], crule[r], Idle, wait[r]) /\ UNCHANGED pod
  BY Zenon DEF Requeued
<1>2. rule[r] \in {rule[r], Bound(r, rule[r])}
  OBVIOUS
<1> QED
  BY <1>1, <1>2, BoundReady, NotMid, Zenon

LEMMA UserReady ==
    ASSUME TypeInv, HistoryInv, AllReady, NEW r \in Rules, UserStep(r)
    PROVE  AllReady'
<1>1. CASE CreateRule(r)
  <2> DEFINE n == NewRule(env.at[r], env.inner[r])
  <2>1. Static /\ OneRule(r, n, crule[r], work[r], wait[r]) /\ UNCHANGED pod
    BY <1>1, CreateRuleStep
  <2>2. n.redo = 0 /\ ~n.ready
    BY DEF NewRule
  <2>3. NoneOf(rule[r], crule[r], work[r], wait[r])
    BY <1>1, HistoryOf DEF CreateRule
  <2>4. work[r] = Idle
    BY <2>3, NowLived, Zenon DEF NoneOf, Position
  <2> HIDE DEF n
  <2>5. Past(n.redo) /\ Past(crule[r].redo)
    BY <2>2, ReadyPast
  <2> QED
    BY <2>1, <2>2, <2>4, <2>5, QuietReady, NotMid, Zenon
<1>2. CASE DeleteRule(r)
  <2> DEFINE n == Deleted(rule[r], NoRule)
  <2>1. Static /\ OneRule(r, n, crule[r], work[r], wait[r]) /\ UNCHANGED pod
    BY <1>2, DeleteRuleStep
  <2>2. n = NoRule \/ (n.redo = rule[r].redo /\ n.term)
    BY RuleType DEF Deleted, Rule
  <2>3. ~NoRule.here
    BY NowLived, NoRuleType
  <2> HIDE DEF n
  <2>4. Past(n.redo) /\ Past(crule[r].redo) /\ ~Kept(n)
    BY <2>2, <2>3, ReadyPast DEF Kept
  <2> QED
    BY <2>1, <2>4, QuietReady, Zenon
<1>3. CASE RuleAdded(r) \/ RuleUpdated(r) \/ RuleDeleted(r)
  <2> DEFINE c == IF rule[r].here THEN rule[r] ELSE NoRule
  <2>1. Static /\ OneRule(r, rule[r], c, work[r], wait[r]) /\ UNCHANGED pod
    BY <1>3, RuleEventStep
  <2>2. Past(rule[r].redo) /\ Past(c.redo)
    BY ReadyPast
  <2> HIDE DEF c
  <2> QED
    BY <2>1, <2>2, QuietReady, Zenon
<1> QED
  BY <1>1, <1>2, <1>3, NothingChanges, Zenon DEF UserStep

LEMMA LockReady ==
    ASSUME TypeInv, AllReady, NEW r \in Rules, LockStep(r)
    PROVE  AllReady'
<1>1. rule[r] \in {rule[r], Bound(r, rule[r])}
  OBVIOUS
<1>2. ASSUME NEW by \in {"addRule", "updRule"}, WaitForLock(r, by)
      PROVE  AllReady'
  BY <1>1, <1>2, WaitStep, BoundReady, Zenon
<1>3. CASE LockedInVain(r)
  BY <1>1, <1>3, InVainStep, BoundReady, Zenon
<1>4. CASE FailRule(r)
  BY <1>4, FailRuleStep, RequeuedReady, Zenon
<1>5. "addRule" \in {"addRule", "updRule"} /\ "updRule" \in {"addRule", "updRule"}
  OBVIOUS
<1> QED
  BY <1>2, <1>3, <1>4, <1>5, Zenon DEF LockStep

LEMMA PatchedPast ==
    ASSUME TypeInv, AllReady, NEW r \in Rules, NEW v \in Eips \cup {None},
           NEW t \in Nat, NEW b \in BOOLEAN, Past(t),
           NEW n, n = PatchedStatus(r, v, t, b)
    PROVE  /\ n \in Rule /\ Past(n.redo) /\ (Kept(n) => Kept(rule[r]))
           /\ n.ready => n = rule[r] \/ b
<1>1. Patched(r, v, t, b, n)
  BY PatchedFacts DEF TypeInv
<1>2. Past(rule[r].redo) /\ Past(crule[r].redo)
  BY ReadyPast
<1>3. n.redo \in {rule[r].redo, t, crule[r].redo}
  BY <1>1 DEF Patched
<1> QED
  BY <1>1, <1>2, <1>3 DEF Patched, Kept

\* The row of r is in its pod, and its status is written from there.
LEMMA ShownReady ==
    ASSUME TypeInv, Static, UNCHANGED pod, AllReady, NEW r \in Rules, Mid(work[r]),
           NEW n, NEW h, NEW w, OneRule(r, n, crule[r], h, w),
           Past(n.redo), Kept(n) => Kept(rule[r])
    PROVE  AllReady'
<1>1. SameTimes /\ \A s \in Rules : InPod(s) => InPod(s)'
  BY PodStays
<1>2. Kept(rule[r]) => InPod(r)
  BY Zenon DEF AllReady, ReadyInv, Mid
<1>3. StaysReady(r, n, h)
  BY <1>1, <1>2, Zenon DEF StaysReady
<1>4. Past(crule[r].redo)
  BY ReadyPast
<1> QED
  BY <1>1, <1>3, <1>4, OneReady, Zenon

\* The row of r is made.
LEMMA MadeReady ==
    ASSUME TypeInv, Static, SameTimes, RulesApart, AllReady, NEW r \in Rules,
           NEW h, NEW w, OneRule(r, rule[r], crule[r], h, w),
           NEW o \in Rule, RowMade(r, env.at[r], env.inner[r], o)
    PROVE  AllReady'
<1>1. InPod(r)' /\ \A s \in Rules \ {r} : InPod(s) => InPod(s)'
  BY MadeKeeps
<1>2. StaysReady(r, rule[r], h)
  BY <1>1, Zenon DEF StaysReady
<1> QED
  BY <1>1, <1>2, ReadyPast, OneReady, Zenon

LEMMA AddReady ==
    ASSUME TypeInv, HistoryInv, RulesApart, AllReady, NEW r \in Rules, AddStep(r)
    PROVE  AllReady'
<1>0. rule[r] \in {rule[r], Bound(r, rule[r])}
      /\ Bound(r, rule[r]) \in {rule[r], Bound(r, rule[r])}
  OBVIOUS
<1>1. CASE AddRule(r)
  BY <1>0, <1>1, AddRuleStep, BoundReady, NotMid, Zenon DEF AddedNot, AddedBound
<1>2. CASE InstallRule(r)
  <2> DEFINE o == work[r].obj
  <2>1. Static /\ (At(r, "bound") \/ At(r, "cleared"))
        /\ (Requeued(r) \/ (/\ OneRule(r, rule[r], crule[r], Moved(r, "made"), wait[r])
                            /\ RowMade(r, o.eip, o.inner, o)))
    BY <1>2, InstallRuleStep, Zenon
  <2>2. work[r] # Idle
    BY <2>1, IdleIs DEF At
  <2>3. o.here /\ o \in Rule
    BY <2>2, NowLived, RuleType, Zenon DEF Position
  <2>4. o.eip = env.at[r] /\ o.inner = env.inner[r]
    BY <2>3, NowLived, Zenon DEF Version
  <2>5. CASE /\ OneRule(r, rule[r], crule[r], Moved(r, "made"), wait[r])
             /\ RowMade(r, o.eip, o.inner, o)
    <3>1. RowMade(r, env.at[r], env.inner[r], o)
      BY <2>4, <2>5
    <3>2. SameTimes
      <4>1. /\ env.kind[r] \in Kinds /\ env.at[r] \in Eips /\ env.inner[r] \in Inners
            /\ getShareBackends(r, o.eip) \in SUBSET Inners
        BY RuleType, BackendsType DEF TypeInv
      <4> QED
        BY <3>1, <4>1, WithRowTypes, Zenon DEF RowMade, TypeInv
    <3> HIDE DEF o
    <3> QED
      BY <2>1, <2>3, <2>5, <3>1, <3>2, MadeReady, Zenon
  <2> QED
    BY <2>1, <2>5, RequeuedReady, Zenon
<1>3. CASE ShowRule(r)
  <2> DEFINE n == PatchedStatus(r, work[r].obj.eip, 0, TRUE)
  <2>1. /\ Static /\ UNCHANGED pod /\ At(r, "made")
        /\ OneRule(r, n, crule[r], Moved(r, "shown"), wait[r])
    BY <1>3, ShowRuleStep, Zenon
  <2>2. work[r].obj.eip \in Eips \cup {None}
    BY RuleType DEF Rule
  <2>3. Past(n.redo) /\ (Kept(n) => Kept(rule[r]))
    BY <2>2, ReadyPast, PatchedPast, Zenon
  <2>4. Mid(work[r])
    BY <2>1 DEF Mid, At
  <2> HIDE DEF n
  <2> QED
    BY <2>1, <2>3, <2>4, ShownReady, Zenon
<1>4. CASE LabelRule(r)
  <2> DEFINE n == LabelledRule(r)
  <2>1. /\ Static /\ At(r, "shown")
        /\ Requeued(r) \/ (/\ OneRule(r, n, crule[r], Moved(r, "labelled"), wait[r])
                           /\ UNCHANGED pod)
    BY <1>4, LabelRuleStep, Zenon
  <2>2. /\ n.redo = rule[r].redo /\ n.ready = rule[r].ready
        /\ n.here = rule[r].here /\ n.term = rule[r].term
    BY RuleType DEF LabelledRule, Rule
  <2>3. ~Mid(Moved(r, "labelled"))
    BY MovedType DEF Mid
  <2> HIDE DEF n
  <2>4. Past(n.redo) /\ Past(crule[r].redo) /\ (Kept(n) => Kept(rule[r]))
    BY <2>2, ReadyPast DEF Kept
  <2>5. CASE OneRule(r, n, crule[r], Moved(r, "labelled"), wait[r]) /\ UNCHANGED pod
    BY <2>1, <2>2, <2>3, <2>4, <2>5, QuietReady, Zenon
  <2> QED
    BY <2>1, <2>5, RequeuedReady, Zenon
<1>5. CASE RefreshEip(r)
  BY <1>5, RefreshEipStep, BoundReady, NotMid, Zenon
<1> QED
  BY <1>1, <1>2, <1>3, <1>4, <1>5, Zenon DEF AddStep

LEMMA UpdateReady ==
    ASSUME TypeInv, HistoryInv, RulesApart, AllReady, NEW r \in Rules, UpdateStep(r)
    PROVE  AllReady'
<1>1. CASE RemoveRule(r)
  <2>1. PICK o \in Rule, w \in Handler :
           /\ Taken(r, "updRule", o, w) /\ o.here /\ o.term
           /\ OneRule(r, rule[r], crule[r], Hand("updRule", "gone", o), w)
           /\ RowsGone(r, o)
    BY <1>1, RemoveRuleStep, Zenon
  <2>2. Static /\ SameTimes
    BY <1>1, <2>1, RemoveRuleStep, RowsGoneTypes, Zenon
  <2>3. Version(r, o) /\ ~Kept(rule[r])
    BY <2>1, TakenVersion, Zenon DEF Follows
  <2>4. \A s \in Rules \ {r} : InPod(s) => InPod(s)'
    BY <2>1, <2>2, <2>3, GoneKeeps, Zenon
  <2>5. StaysReady(r, rule[r], Hand("updRule", "gone", o))
    BY <2>3, Zenon DEF StaysReady
  <2> QED
    BY <2>1, <2>2, <2>4, <2>5, ReadyPast, OneReady, Zenon
<1>2. CASE ReleaseRule(r)
  <2> DEFINE n == ReleasedRule(r)
  <2>1. Static /\ UNCHANGED pod /\ At(r, "gone")
        /\ OneRule(r, n, crule[r], Idle, wait[r])
    BY <1>2, ReleaseRuleStep
  <2>2. n \in {rule[r], NoRule}
    BY <2>1, ReleasedGoes, Zenon
  <2> HIDE DEF n
  <2>3. ~NoRule.here
    BY NowLived, NoRuleType
  <2>4. Past(n.redo) /\ Past(crule[r].redo) /\ (Kept(n) => n = rule[r])
    BY <2>2, <2>3, ReadyPast, Zenon DEF Kept
  <2> QED
    BY <2>1, <2>4, QuietReady, NotMid, Zenon
<1>3. CASE RedoRule(r)
  <2>1. PICK o \in Rule, w \in Handler :
           /\ Taken(r, "updRule", o, w) /\ Kept(o) /\ Complete(o)
           /\ OneRule(r, rule[r], crule[r], Hand("updRule", "redone", o), w)
           /\ RowMade(r, o.v4ip, o.in, o)
    BY <1>3, RedoRuleStep, Zenon
  <2>2. Static
    BY <1>3, RedoRuleStep, Zenon
  <2>3. o.v4ip = env.at[r] /\ o.in = env.inner[r]
    <3>1. Version(r, o)
      BY <2>1, TakenVersion, Zenon
    <3>2. o.here /\ o.v4ip # None /\ o.in # None
      BY <2>1, Zenon DEF Kept, Complete
    <3> QED
      BY <3>1, <3>2, Zenon DEF Version
  <2>4. RowMade(r, env.at[r], env.inner[r], o)
    BY <2>1, <2>3
  <2>5. SameTimes
    <3>1. /\ env.kind[r] \in Kinds /\ env.at[r] \in Eips /\ env.inner[r] \in Inners
          /\ getShareBackends(r, o.eip) \in SUBSET Inners
      BY RuleType, BackendsType DEF TypeInv
    <3> QED
      BY <2>4, <3>1, WithRowTypes, Zenon DEF RowMade, TypeInv
  <2> QED
    BY <2>1, <2>2, <2>4, <2>5, MadeReady, Zenon
<1>4. CASE ShowRedone(r)
  <2> DEFINE m == PatchedStatus(r, None, 0, TRUE)
             n == Bound(r, m)
  <2>1. /\ Static /\ UNCHANGED pod /\ At(r, "redone")
        /\ OneRule(r, n, crule[r], Idle, wait[r])
    BY <1>4, ShowRedoneStep, Zenon
  <2>2. None \in Eips \cup {None}
    OBVIOUS
  <2>3. m \in Rule /\ Past(m.redo) /\ (Kept(m) => Kept(rule[r]))
    BY <2>2, ReadyPast, PatchedPast, Zenon
  <2> HIDE DEF m
  <2>4. SameButFin(m, n)
    BY <2>3, BoundFields
  <2> HIDE DEF n
  <2>5. Past(n.redo) /\ (Kept(n) => Kept(rule[r]))
    BY <2>3, <2>4 DEF SameButFin, Kept
  <2>6. Mid(work[r])
    BY <2>1 DEF Mid, At
  <2> QED
    BY <2>1, <2>5, <2>6, ShownReady, Zenon
<1>5. CASE KeepRule(r)
  BY <1>5, KeepRuleStep, BoundReady, NotMid, Zenon
<1> QED
  BY <1>1, <1>2, <1>3, <1>4, <1>5, NothingChanges, Zenon DEF UpdateStep

LEMMA SweepReady ==
    ASSUME TypeInv, AllReady, NEW g \in Gws, SweepOf(g)
    PROVE  AllReady'
<1>1. /\ Static /\ UNCHANGED <<crule, work, wait, pod>>
      /\ \A r \in Rules : Swept(r, g)
  BY SweepStep, Zenon DEF SweepOf
<1>2. SameTimes /\ \A s \in Rules : InPod(s) => InPod(s)'
  BY <1>1, PodStays
<1>3. ASSUME NEW r \in Rules
      PROVE  ReadyInv(r)'
  <2> DEFINE n == rule'[r]
  <2>1. CASE n = rule[r]
    BY <1>1, <1>2, <2>1, SameReady
  <2>2. CASE n = PatchedStatus(r, None, initCreateAt(g), FALSE)
    <3>1. /\ None \in Eips \cup {None} /\ FALSE \in BOOLEAN
          /\ initCreateAt(g) \in Nat /\ Past(initCreateAt(g))
      BY SweepTime
    <3>2. /\ Past(n.redo) /\ (Kept(n) => Kept(rule[r]))
          /\ n.ready => n = rule[r]
      BY <2>2, <3>1, PatchedPast, Zenon
    <3>3. crule'[r] = crule[r] /\ work'[r] = work[r] /\ rule'[r] = n
      BY <1>1
    <3> HIDE DEF n
    <3>4. StaysReady(r, n, work[r])
      BY <1>2, <3>2, Zenon DEF StaysReady
    <3>5. ReadyInv(r) /\ Past(crule'[r].redo)
      BY <3>3, ReadyPast
    <3> QED
      BY <1>1, <1>2, <3>2, <3>3, <3>4, <3>5, ReadyAt, Zenon
  <2> QED
    BY <1>1, <2>1, <2>2, Zenon DEF Swept
<1> QED
  BY <1>3, Zenon DEF AllReady

\* A new pod is later than every mark.
LEMMA RestartReady ==
    ASSUME TypeInv, AllReady, NEW g \in Gws, Restart(g)
    PROVE  AllReady'
<1>1. /\ Static /\ UNCHANGED <<rule, crule, work, wait>>
      /\ \A r \in Rules : work[r] = Idle
      /\ pod'[g].created > 1
      /\ \A h \in Gws \ {g} : pod'[h] = pod[h]
      /\ \A t \in Nat : Past(t) => Past(t)' /\ t # pod'[g].created
  BY RestartStep
<1>2. ASSUME NEW r \in Rules
      PROVE  ReadyInv(r)'
  <2> DEFINE h == GwOf[env.at[r]]
  <2>1. h \in Gws /\ env'.at[r] = env.at[r]
    BY <1>1, RuleType, NatGatewayAssumption DEF Static
  <2>2. rule[r].redo \in Nat /\ crule[r].redo \in Nat
    BY RuleType DEF Rule
  <2>3. Past(rule[r].redo) /\ Past(crule[r].redo)
    BY ReadyPast
  <2>4. Past(rule[r].redo)' /\ Past(crule[r].redo)'
    BY <1>1, <2>2, <2>3 DEF Past
  <2>5. rule'[r] = rule[r] /\ ~Mid(work'[r])
    BY <1>1, NotMid
  <2>6. CASE h = g
    <3>1. pod'[g].created \notin {1, rule[r].redo}
      BY <1>1, <2>2, <2>3
    <3>2. pod'[GwOf[env'.at[r]]].created \notin {1, rule'[r].redo}
      BY <2>1, <2>5, <2>6, <3>1
    <3> QED
      BY <2>4, <2>5, <3>2, Zenon DEF ReadyInv, Mid
  <2>7. CASE h # g
    <3>1. pod'[h] = pod[h]
      BY <1>1, <2>1, <2>7
    <3>2. InPod(r) => InPod(r)'
      <4>1. Has(pod, env.kind[r], env.at[r], env.inner[r])
            => Has(pod', env.kind[r], env.at[r], env.inner[r])
        BY <3>1 DEF Has
      <4> QED
        BY <1>1, <4>1, InPodHas, Zenon
    <3>3. Kept(rule[r]) /\ rule[r].ready /\ pod[h].created \in {1, rule[r].redo}
          => InPod(r)
      BY Zenon DEF AllReady, ReadyInv
    <3>4. /\ Kept(rule'[r]) /\ rule'[r].ready
          /\ pod'[GwOf[env'.at[r]]].created \in {1, rule'[r].redo}
          => InPod(r)'
      BY <2>1, <2>5, <3>1, <3>2, <3>3, Zenon
    <3> QED
      BY <2>4, <2>5, <3>4, Zenon DEF ReadyInv, Mid, Kept
  <2> QED
    BY <2>6, <2>7
<1> QED
  BY <1>2, Zenon DEF AllReady

LEMMA CrashReady ==
    ASSUME TypeInv, AllReady, Crash
    PROVE  AllReady'
<1>1. /\ Static /\ UNCHANGED pod
      /\ \A r \in Rules : /\ rule'[r] = rule[r] /\ crule'[r] = rule[r]
                          /\ work'[r] = Idle
  BY CrashStep
<1>2. SameTimes /\ \A s \in Rules : InPod(s) => InPod(s)'
  BY <1>1, PodStays
<1>3. ASSUME NEW r \in Rules
      PROVE  ReadyInv(r)'
  <2>1. ReadyInv(r) /\ Past(rule[r].redo) /\ Past(crule'[r].redo)
    BY <1>1, ReadyPast
  <2>2. StaysReady(r, rule[r], Idle)
    BY <1>2, NotMid, Zenon DEF StaysReady
  <2> QED
    BY <1>1, <1>2, <2>1, <2>2, ReadyAt, Zenon
<1> QED
  BY <1>3, Zenon DEF AllReady

LEMMA ReadyStep ==
    ASSUME TypeInv, HistoryInv, RulesApart, AllReady, [Next]_vars
    PROVE  AllReady'
<1>1. CASE AsideStep
  <2>1. Aside
    BY <1>1, AsideSteps
  <2>2. /\ Static /\ UNCHANGED <<rule, crule, work>> /\ SameTimes /\ SameRows
    BY <2>1 DEF Aside, EnvAside, PodAside
  <2>3. \A r \in Rules : InPod(r) => InPod(r)'
    BY <2>2, RowsKeepHas
  <2>4. \A r \in Rules : ReadyInv(r)'
    BY <2>2, <2>3, SameReady
  <2> QED
    BY <2>4, Zenon DEF AllReady
<1> QED
  BY <1>1, Steps, UserReady, AddReady, UpdateReady, LockReady, SweepReady,
     RestartReady, CrashReady, Zenon DEF RuleStepOf

\* No step but an edit changes what RulesApart is about.
LEMMA StaticStep ==
    ASSUME TypeInv, HistoryInv, [Next]_vars
    PROVE  Static
<1>1. CASE AsideStep
  BY <1>1, AsideSteps DEF Aside, EnvAside
<1>2. ASSUME NEW r \in Rules, UserStep(r)
      PROVE  Static
  BY <1>2, CreateRuleStep, NothingChanges, DeleteRuleStep, RuleEventStep, Zenon
  DEF UserStep
<1>3. ASSUME NEW r \in Rules, AddStep(r)
      PROVE  Static
  BY <1>3, AddRuleStep, InstallRuleStep, ShowRuleStep, LabelRuleStep, RefreshEipStep,
     Zenon DEF AddStep
<1>4. ASSUME NEW r \in Rules, UpdateStep(r)
      PROVE  Static
  BY <1>4, RemoveRuleStep, ReleaseRuleStep, NothingChanges, RedoRuleStep,
     ShowRedoneStep, KeepRuleStep, Zenon DEF UpdateStep
<1>5. ASSUME NEW r \in Rules, LockStep(r)
      PROVE  Static
  <2>1. "addRule" \in {"addRule", "updRule"} /\ "updRule" \in {"addRule", "updRule"}
    OBVIOUS
  <2> QED
    BY <1>5, <2>1, FailRuleStep, InVainStep, WaitStep, Zenon DEF LockStep
<1>6. ASSUME NEW g \in Gws, SweepOf(g) \/ Restart(g)
      PROVE  Static
  BY <1>6, SweepStep, RestartStep, Zenon DEF SweepOf
<1> QED
  BY <1>1, <1>2, <1>3, <1>4, <1>5, <1>6, Steps, CrashStep, Zenon DEF RuleStepOf

LEMMA ReadyInit ==
    ASSUME Init
    PROVE  AllReady
<1>1. TypeInv /\ env \in Scenario
  BY InitFacts, Zenon DEF TypeInv
<1>2. ASSUME NEW r \in Rules
      PROVE  ReadyInv(r)
  <2>1. /\ crule[r] = rule[r] /\ work[r] = Idle
        /\ r \notin env.there => rule[r] = NoRule
    BY InitFacts, Zenon
  <2>2. rule[r].redo = 0
    <3> DEFINE n == [NewRule(env.at[r], env.inner[r]) EXCEPT
                       !.fin = TRUE, !.label = env.at[r],
                       !.v4ip = env.at[r], !.in = env.inner[r], !.ready = TRUE]
    <3>1. r \in env.there => rule[r] = n
      BY InitFacts, Zenon
    <3>2. n.redo = 0
      BY DEF NewRule
    <3>3. NoRule.redo = 0
      BY DEF NoRule, NewRule
    <3> HIDE DEF n
    <3> QED
      BY <2>1, <3>1, <3>2, <3>3
  <2>3. Past(0)
    BY <1>1, PodType, NatGatewayAssumption DEF Past
  <2>4. ~NoRule.here
    BY <1>1, NoRuleType
  <2>5. Kept(rule[r]) => InPod(r)
    <3> SUFFICES ASSUME r \in env.there
                 PROVE  InPod(r)
      BY <2>1, <2>4, Zenon DEF Kept
    <3>1. GwOf[env.at[r]] \in Gws
      BY <1>1, RuleType, NatGatewayAssumption
    <3>2. FirstRow(r) \in pod[GwOf[env.at[r]]].rows
      BY <3>1, FirstRows
    <3>3. Same(FirstRow(r), env.kind[r], env.at[r])
      BY DEF FirstRow, Row, Same
    <3>4. env.inner[r] \in FirstRow(r).of
      BY DEF FirstRow, Row
    <3> QED
      BY <3>2, <3>3, <3>4, Zenon DEF InPod, Installed
  <2>6. Past(rule[r].redo) /\ Past(crule[r].redo)
    BY <2>1, <2>2, <2>3
  <2> QED
    BY <2>5, <2>6, Zenon DEF ReadyInv
<1> QED
  BY <1>2, Zenon DEF AllReady

\* A rule that is shown as ready, with no handler at work on it and no mark for
\* an earlier pod, is in the pod with the addresses its status records: for any
\* gateways, EIPs, rules, restarts, failed calls, crashes and deletions, when
\* nobody edits a rule and no two rules want the same row or share a port.
THEOREM ReadyAlwaysInstalled ==
    Spec /\ Unedited /\ RulesApart => []ReadyRuleInstalled
<1> DEFINE Inv == TypeInv /\ HistoryInv /\ RulesApart /\ AllReady
<1>1. Init /\ Unedited /\ RulesApart => Inv
  BY InitFacts, HistoryInit, ReadyInit, Zenon
<1>2. Inv /\ [Next]_vars => Inv'
  <2> SUFFICES ASSUME Inv, [Next]_vars
               PROVE  Inv'
    OBVIOUS
  <2>1. TypeInv' /\ HistoryInv' /\ AllReady'
    BY TypeStep, HistoryStep, ReadyStep
  <2>2. RulesApart'
    <3>1. env'.kind = env.kind /\ env'.at = env.at /\ env'.inner = env.inner
      BY StaticStep DEF Static
    <3> QED
      BY <3>1 DEF RulesApart
  <2> QED
    BY <2>1, <2>2
<1>3. Inv => ReadyRuleInstalled
  <2> SUFFICES ASSUME Inv, NEW r \in Rules, Kept(rule[r]), rule[r].ready,
                      \/ pod[GwOf[rule[r].v4ip]].created = 1
                      \/ pod[GwOf[rule[r].v4ip]].created = rule[r].redo
               PROVE  Installed(env.kind[r], rule[r].v4ip, rule[r].in)
    BY Zenon DEF ReadyRuleInstalled
  <2>1. Version(r, rule[r]) /\ rule[r].here
    BY NowLived, Zenon DEF Kept
  <2>2. rule[r].v4ip = env.at[r] /\ rule[r].in = env.inner[r]
    BY <2>1, Zenon DEF Version
  <2>3. pod[GwOf[env.at[r]]].created \in {1, rule[r].redo}
    BY <2>2
  <2>4. InPod(r)
    BY <2>3, Zenon DEF AllReady, ReadyInv
  <2> QED
    BY <2>2, <2>4 DEF InPod
<1> QED
  BY <1>1, <1>2, <1>3, PTL DEF Spec

=============================================================================
