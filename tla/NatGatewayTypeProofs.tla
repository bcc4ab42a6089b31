------------------------ MODULE NatGatewayTypeProofs ------------------------
(***************************************************************************)
(* Proofs about NatGateway, for any number of gateways, EIPs, rules,       *)
(* restarts, failed calls and crashes: the types, what a step does to the  *)
(* rules, and how the versions of a rule that nobody edits follow one      *)
(* another at the API server, in the cache and in the hands of a handler.  *)
(***************************************************************************)
EXTENDS NatGateway, TLAPS

-----------------------------------------------------------------------------
(* Types *)

Rows == [type : Kinds, ext : Eips, of : SUBSET Inners]

Pod == [created : Nat \ {0}, started : Nat, chains : BOOLEAN,
        hasInit : BOOLEAN, eips : SUBSET Eips, rows : SUBSET Rows]

Handler == [by : {"none", "addRule", "updRule"},
            at : {"idle", "waiting", "bound", "made", "shown", "labelled",
                  "gone", "marked", "cleared", "redone"},
            obj : Rule]

EipHandlers == [at : {"idle", "installed", "updated", "shown", "gone", "redone"},
                obj : Eip]

EipTypes ==
    /\ eip \in [Eips -> Eip] /\ ceip \in [Eips -> Eip]
    /\ eadd \in [Eips -> EipHandlers] /\ eupd \in [Eips -> EipHandlers]

RuleTypes ==
    /\ rule \in [Rules -> Rule] /\ crule \in [Rules -> Rule]
    /\ work \in [Rules -> Handler] /\ wait \in [Rules -> Handler]

\* A row has an address, and one only unless it is shared.
FullRow(w) == w.of # {} /\ (w.type # "share" => \E i \in Inners : w.of = {i})

PodTypes ==
    /\ pod \in [Gws -> Pod]
    /\ \A g \in Gws : \A w \in pod[g].rows : FullRow(w)

\* The pods have a last one, and a time is not after it.
Bounded == \E g \in Gws : \A h \in Gws : pod[h].created <= pod[g].created

Past(t) == \E g \in Gws : t <= pod[g].created

TimeTypes == Bounded /\ createdAt \in Nat /\ Past(createdAt)

QueueTypes == q \in [Queues -> SUBSET (Eips \cup Rules \cup Gws)]

LocksApart == \A r \in Rules : work[r].by # "none" => work[r].by # wait[r].by

TypeInv ==
    /\ env \in Scenario
    /\ EipTypes /\ RuleTypes /\ PodTypes /\ TimeTypes /\ QueueTypes
    /\ LocksApart

-----------------------------------------------------------------------------
(* The versions of a rule that nobody edits *)

\* What every version of r says, at the API server, in the cache or read by a
\* handler: a status comes after the finalizer and a label after the status.
Version(r, o) ==
    /\ ~o.here => ~o.term /\ ~o.fin
    /\ o.here => /\ o.eip = env.at[r] /\ o.inner = env.inner[r]
                 /\ o.in # None => o.in = o.inner
                 /\ o.v4ip # None => o.v4ip = o.eip /\ o.in = o.inner /\ o.fin
                 /\ o.label # None => o.label = o.eip /\ o.v4ip # None
                 /\ o.ready => o.v4ip # None
                 /\ o.term => o.fin

\* What is not taken back from a version to a later one.
Follows(c, o) ==
    c.here => /\ c.term => ~Kept(o)
              /\ o.here => (c.fin => o.fin) /\ (c.v4ip # None => o.v4ip # None)

\* The versions of r at the API server (o), in the cache (c) and in the hands of
\* the handlers that have the lock (h) or wait for it (w).
Versions(r, o, c, h, w) ==
    Version(r, o) /\ Version(r, c) /\ Version(r, h.obj) /\ Version(r, w.obj)

Ordered(o, c, h, w) ==
    /\ Follows(c, o)
    /\ Follows(h.obj, c) /\ Follows(h.obj, o)
    /\ Follows(w.obj, c) /\ Follows(w.obj, o)
    /\ h.obj.here \/ w.obj.here => (o.here => c.here)

\* How far a handler is, and what it has done by then.
Position(o, h, w) ==
    /\ \/ h = Idle
       \/ h.by = "addRule" /\ h.at \in {"bound", "made", "shown", "labelled"}
       \/ h.by = "updRule" /\ h.at = "gone" /\ h.obj.term
       \/ h.by = "updRule" /\ h.at = "redone" /\ h.obj.v4ip # None
    /\ h # Idle => h.obj.here
    /\ w = Idle \/ (w.by \in {"addRule", "updRule"} /\ w.obj.here)
    /\ h.by = "addRule" /\ o.here => o.fin
    /\ h.at \in {"shown", "labelled"} /\ o.here => o.v4ip # None

Lived(r, o, c, h, w) ==
    Versions(r, o, c, h, w) /\ Ordered(o, c, h, w) /\ Position(o, h, w)

NoneOf(o, c, h, w) == ~o.here /\ ~c.here /\ ~h.obj.here /\ ~w.obj.here

\* A rule that is still to be made has no version yet.
History(r) ==
    /\ Lived(r, rule[r], crule[r], work[r], wait[r])
    /\ r \in env.makes => NoneOf(rule[r], crule[r], work[r], wait[r])

Unedited == env.edits = 0

HistoryInv == Unedited /\ \A r \in Rules : History(r)

-----------------------------------------------------------------------------
(* Facts about the operators of the model *)

Names == Eips \cup Rules \cup Gws

\* There is a last pod.
LEMMA LastPod ==
    ASSUME PodTypes, Bounded
    PROVE  /\ Now \in Nat \ {0}
           /\ \A g \in Gws : pod[g].created <= Now
           /\ \E g \in Gws : pod[g].created = Now
<1> DEFINE S == {pod[g].created : g \in Gws}
<1>1. \A g \in Gws : pod[g].created \in Nat \ {0}
  BY DEF PodTypes, Pod
<1>2. PICK b \in Gws : \A h \in Gws : pod[h].created <= pod[b].created
  BY DEF Bounded
<1>3. \E x \in S : \A y \in S : x >= y
  BY <1>1, <1>2
<1>4. Max(S) \in S /\ \A y \in S : Max(S) >= y
  <2> HIDE DEF S
  <2> QED
    BY <1>3, Zenon DEF Max
<1>5. Now \in S /\ \A y \in S : Now >= y
  BY <1>4, Zenon DEF Now
<1>6. \A g \in Gws : pod[g].created \in S
  OBVIOUS
<1> QED
  BY <1>1, <1>5, <1>6

\* Nothing is forgotten while the pods stay, and a new pod is later.
SameTimes == \A g \in Gws : pod'[g].created = pod[g].created

LEMMA TimesKept ==
    ASSUME SameTimes
    PROVE  (Bounded => Bounded') /\ \A t : Past(t) => Past(t)'
BY DEF SameTimes, Bounded, Past

LEMMA PushPop ==
    ASSUME QueueTypes
    PROVE  \A x : \A k \in Names :
              /\ Push(x, k) \in [Queues -> SUBSET Names]
              /\ Pop(x, k) \in [Queues -> SUBSET Names]
BY Zenon DEF QueueTypes, Push, Pop, Names

\* An object of no rule, once there is a rule.
LEMMA NoRuleType ==
    ASSUME env \in Scenario, NEW r \in Rules
    PROVE  NoRule \in Rule /\ Idle \in Handler /\ ~NoRule.here
           /\ ~NoRule.term /\ ~NoRule.fin
<1>1. env.at[r] \in Eips /\ env.inner[r] \in Inners
  BY DEF Scenario
<1>2. (CHOOSE e \in Eips : TRUE) \in Eips /\ (CHOOSE i \in Inners : TRUE) \in Inners
  BY <1>1, Zenon
<1>3. \A e \in Eips, i \in Inners : NewRule(e, i) \in Rule
  BY DEF NewRule, Rule
<1>4. NewRule(CHOOSE e \in Eips : TRUE, CHOOSE i \in Inners : TRUE) \in Rule
  BY <1>2, <1>3, Zenon
<1>5. NoRule \in Rule
  BY <1>4, Zenon DEF NoRule, Rule
<1>6. ~NoRule.here /\ ~NoRule.term /\ ~NoRule.fin
  BY DEF NoRule, NewRule
<1> QED
  BY <1>5, <1>6 DEF Idle, Handler

LEMMA NewRuleType ==
    \A e \in Eips, i \in Inners : NewRule(e, i) \in Rule
BY DEF NewRule, Rule

LEMMA NoEipType == NoEip \in Eip /\ NoHandler \in EipHandlers
BY DEF NoEip, Eip, NoHandler, EipHandler, EipHandlers

LEMMA RuleOps ==
    ASSUME NEW o \in Rule, NoRule \in Rule
    PROVE  /\ Deleted(o, NoRule) \in Rule
           /\ Unfinalized(o, NoRule) \in Rule
           /\ Finalized(o) \in Rule
           /\ \A r : Bound(r, o) \in Rule
<1>1. Deleted(o, NoRule) \in Rule /\ Unfinalized(o, NoRule) \in Rule
  BY Zenon DEF Deleted, Unfinalized, Rule
<1>2. Finalized(o) \in Rule
  BY Zenon DEF Finalized, Rule
<1> QED
  BY <1>1, <1>2, Zenon DEF Bound

LEMMA EipOps ==
    ASSUME NEW o \in Eip
    PROVE  /\ Deleted(o, NoEip) \in Eip
           /\ Unfinalized(o, NoEip) \in Eip
           /\ Finalized(o) \in Eip
           /\ \A e : handleAddIptablesEipFinalizer(e, o) \in Eip
<1>1. Deleted(o, NoEip) \in Eip /\ Unfinalized(o, NoEip) \in Eip
  BY NoEipType, Zenon DEF Deleted, Unfinalized, Eip
<1>2. Finalized(o) \in Eip
  BY Zenon DEF Finalized, Eip
<1> QED
  BY <1>1, <1>2, Zenon DEF handleAddIptablesEipFinalizer

\* What p, the rule after its status was patched, has of the rule and of its
\* cached version.
Patched(r, v, t, b, p) ==
    LET o == rule[r]
        c == crule[r]
    IN  /\ p \in Rule
        /\ p.here = o.here /\ p.term = o.term /\ p.fin = o.fin
        /\ p.eip = o.eip /\ p.inner = o.inner /\ p.label = o.label
        /\ \/ /\ c.here /\ o.here
              /\ p.ready = b /\ p.redo = (IF t # 0 THEN t ELSE c.redo)
              /\ p.v4ip = (IF b /\ v # None THEN v ELSE c.v4ip)
              /\ p.in = (IF b THEN c.inner ELSE c.in)
           \/ /\ p = o
              /\ c.here /\ o.here /\ b /\ v # None => c.v4ip = v

LEMMA PatchedFacts ==
    ASSUME RuleTypes, NEW r \in Rules, NEW v \in Eips \cup {None},
           NEW t \in Nat, NEW b \in BOOLEAN
    PROVE  Patched(r, v, t, b, PatchedStatus(r, v, t, b))
<1> DEFINE o == rule[r]
           c == crule[r]
           n == [c EXCEPT !.ready = b,
                          !.redo = IF t # 0 THEN t ELSE @,
                          !.v4ip = IF b /\ v # None THEN v ELSE @,
                          !.in = IF b THEN c.inner ELSE @]
           p == [o EXCEPT !.ready = n.ready, !.redo = n.redo,
                          !.v4ip = n.v4ip, !.in = n.in]
           s == PatchedStatus(r, v, t, b)
<1>1. o \in Rule /\ c \in Rule
  BY DEF RuleTypes
<1>2. s = IF c.here /\ n # c /\ o.here THEN p ELSE o
  BY Zenon DEF PatchedStatus
<1>3. /\ n.ready = b /\ n.redo = (IF t # 0 THEN t ELSE c.redo)
      /\ n.v4ip = (IF b /\ v # None THEN v ELSE c.v4ip)
      /\ n.in = (IF b THEN c.inner ELSE c.in)
  BY ONLY <1>1 DEF Rule
<1>4. /\ n.ready \in BOOLEAN /\ n.redo \in Nat
      /\ n.v4ip \in Eips \cup {None} /\ n.in \in Inners \cup {None}
  BY <1>1, <1>3 DEF Rule
<1> HIDE DEF n, c, o, s
<1>5. p \in Rule
  BY <1>1, <1>4, Zenon DEF Rule
<1>6. /\ p.here = o.here /\ p.term = o.term /\ p.fin = o.fin
      /\ p.eip = o.eip /\ p.inner = o.inner /\ p.label = o.label
      /\ p.ready = n.ready /\ p.redo = n.redo /\ p.v4ip = n.v4ip /\ p.in = n.in
  BY <1>1 DEF Rule
<1> HIDE DEF p
<1>7. CASE c.here /\ n # c /\ o.here
  <2>1. s = p
    BY <1>2, <1>7, Zenon
  <2> QED
    BY <1>3, <1>5, <1>6, <1>7, <2>1, Zenon DEF Patched, s, c, o
<1>8. CASE ~(c.here /\ n # c /\ o.here)
  <2>1. s = o
    BY <1>2, <1>8, Zenon
  <2>2. c.here /\ o.here /\ b /\ v # None => c.v4ip = v
    BY <1>3, <1>8
  <2> QED
    BY <1>1, <2>1, <2>2, Zenon DEF Patched, s, c, o
<1> QED
  BY <1>7, <1>8, Zenon

LEMMA PatchedType ==
    ASSUME RuleTypes, NEW r \in Rules, NEW v \in Eips \cup {None},
           NEW t \in Nat, NEW b \in BOOLEAN
    PROVE  PatchedStatus(r, v, t, b) \in Rule
<1>1. Patched(r, v, t, b, PatchedStatus(r, v, t, b))
  BY PatchedFacts, Zenon
<1> QED
  BY <1>1, Zenon DEF Patched

LEMMA PatchedEipType ==
    ASSUME EipTypes, env \in Scenario, NEW e \in Eips,
           NEW t \in Nat, NEW b \in BOOLEAN
    PROVE  patchEipStatus(e, t, b) \in Eip
<1> DEFINE o == eip[e]
           c == ceip[e]
           n == [c EXCEPT !.ready = b, !.nat = getIptablesEipNat(e),
                          !.redo = IF t # 0 THEN t ELSE @]
           p == [o EXCEPT !.ready = n.ready, !.nat = n.nat,
                          !.redo = n.redo, !.ip = n.ip]
<1>1. o \in Eip /\ c \in Eip
  BY DEF EipTypes
<1>2. getIptablesEipNat(e) \in SUBSET Kinds
  BY DEF getIptablesEipNat, Scenario
<1>3. /\ n.ready \in BOOLEAN /\ n.nat \in SUBSET Kinds /\ n.redo \in Nat
      /\ n.ip \in BOOLEAN
  BY <1>1, <1>2 DEF Eip
<1> HIDE DEF n, c, o
<1>4. p \in Eip
  BY <1>1, <1>3, Zenon DEF Eip
<1>5. patchEipStatus(e, t, b) = IF c.here /\ n # c /\ o.here THEN p ELSE o
  BY Zenon DEF patchEipStatus, n, c, o
<1> QED
  BY <1>1, <1>4, <1>5, Zenon

-----------------------------------------------------------------------------
(* The pods after rows were added or deleted *)

LEMMA BackendsType ==
    ASSUME RuleTypes, NEW r, NEW e
    PROVE  getShareBackends(r, e) \in SUBSET Inners
BY DEF RuleTypes, Rule, getShareBackends

LEMMA WithRowTypes ==
    ASSUME PodTypes, NEW k \in Kinds, NEW e \in Eips, NEW i \in Inners,
           NEW b \in SUBSET Inners, pod' = WithRow(k, e, i, b)
    PROVE  PodTypes' /\ SameTimes
<1> DEFINE g == GwOf[e]
           old == pod[g].rows
           new == IF k = "share"
                  THEN {w \in old : ~Same(w, k, e)} \cup {Row(k, e, b \cup {i})}
                  ELSE old \cup {Row(k, e, {i})}
<1>1. g \in Gws /\ pod[g] \in Pod /\ old \in SUBSET Rows
  BY NatGatewayAssumption DEF PodTypes, Pod
<1>2. Row(k, e, b \cup {i}) \in Rows /\ Row(k, e, {i}) \in Rows
  BY DEF Row, Rows
<1>3. new \in SUBSET Rows
  BY <1>1, <1>2
<1>4. \A w \in new : FullRow(w)
  <2>1. \A w \in old : FullRow(w)
    BY <1>1 DEF PodTypes
  <2>2. k # "share" => FullRow(Row(k, e, {i}))
    BY DEF FullRow, Row
  <2>3. k = "share" => FullRow(Row(k, e, b \cup {i}))
    BY DEF FullRow, Row
  <2> QED
    BY <2>1, <2>2, <2>3
<1>5. pod' = [pod EXCEPT ![g] = [@ EXCEPT !.rows = new]]
  BY Zenon DEF WithRow
<1> HIDE DEF new, g
<1>6. [pod[g] EXCEPT !.rows = new] \in Pod
  BY <1>1, <1>3, Zenon DEF Pod
<1>7. pod' \in [Gws -> Pod]
  BY <1>5, <1>6, Zenon DEF PodTypes
<1>8. /\ pod'[g].rows = new /\ pod'[g].created = pod[g].created
      /\ \A h \in Gws : h # g => pod'[h] = pod[h]
  BY <1>1, <1>5 DEF PodTypes, Pod
<1>9. SameTimes
  BY <1>8 DEF SameTimes
<1>10. \A h \in Gws : \A w \in pod'[h].rows : FullRow(w)
  BY <1>4, <1>8 DEF PodTypes
<1> QED
  BY <1>7, <1>9, <1>10 DEF PodTypes, FullRow

LEMMA TargetsType ==
    ASSUME NEW o \in Rule
    PROVE  Targets(o) \in SUBSET (Eips \X Inners)
<1>1. /\ o.eip \in Eips /\ o.inner \in Inners
      /\ o.v4ip \in Eips \cup {None} /\ o.in \in Inners \cup {None}
  BY DEF Rule
<1>2. /\ (IF o.v4ip # None THEN o.v4ip ELSE o.eip) \in Eips
      /\ (IF o.in # None THEN o.in ELSE o.inner) \in Inners
  BY <1>1
<1> QED
  BY <1>1, <1>2 DEF Targets

LEMMA WithoutRowsTypes ==
    ASSUME PodTypes, NEW k \in Kinds, NEW T \in SUBSET (Eips \X Inners),
           NEW b \in SUBSET Inners, pod' = WithoutRows(k, T, b)
    PROVE  PodTypes' /\ SameTimes
<1> DEFINE hit(w) == \E t \in T : /\ Same(w, k, t[1])
                                  /\ k = "snat" => w.of = {t[2]}
           new(g) == {w \in pod[g].rows : ~hit(w)} \cup
                     {Row(k, t[1], b) :
                        t \in {u \in T : /\ k = "share" /\ b # {}
                                         /\ GwOf[u[1]] = g}}
<1>1. pod' = [g \in Gws |-> [pod[g] EXCEPT !.rows = new(g)]]
  BY Zenon DEF WithoutRows
<1>2. \A t \in T : t[1] \in Eips
  OBVIOUS
<1>3. ASSUME NEW g \in Gws
      PROVE  /\ pod[g] \in Pod
             /\ new(g) \in SUBSET Rows /\ \A w \in new(g) : FullRow(w)
  <2>1. pod[g] \in Pod /\ pod[g].rows \in SUBSET Rows
    BY DEF PodTypes, Pod
  <2>2. \A t \in T : Row(k, t[1], b) \in Rows
    BY <1>2 DEF Row, Rows
  <2>3. k = "share" /\ b # {} => \A t \in T : FullRow(Row(k, t[1], b))
    BY DEF FullRow, Row
  <2>4. \A w \in pod[g].rows : FullRow(w)
    BY DEF PodTypes
  <2> HIDE DEF hit
  <2> QED
    BY <2>1, <2>2, <2>3, <2>4
<1> HIDE DEF new
<1>4. \A g \in Gws : [pod[g] EXCEPT !.rows = new(g)] \in Pod
  BY <1>3, Zenon DEF Pod
<1>5. pod' \in [Gws -> Pod]
  BY <1>1, <1>4
<1>6. \A g \in Gws : pod'[g].rows = new(g) /\ pod'[g].created = pod[g].created
  BY <1>1, <1>3 DEF Pod
<1>7. \A g \in Gws : \A w \in pod'[g].rows : FullRow(w)
  BY <1>3, <1>6
<1> QED
  BY <1>5, <1>6, <1>7 DEF PodTypes, FullRow, SameTimes

-----------------------------------------------------------------------------
(* Steps that leave rules and rows alone *)

SameRows == \A g \in Gws : pod'[g].rows = pod[g].rows

\* What a behaviour may do besides editing a rule does not change.
Static ==
    /\ env'.kind = env.kind /\ env'.at = env.at /\ env'.inner = env.inner
    /\ env'.edits = env.edits
    /\ env'.makes \subseteq env.makes

PodAside == PodTypes' /\ SameTimes /\ SameRows

QueueAside == QueueTypes' /\ q'["addRule"] = q["addRule"]

EnvAside == env' \in Scenario /\ Static

TimeAside == createdAt' \in Nat /\ Past(createdAt')

Aside ==
    /\ UNCHANGED <<rule, crule, work, wait>>
    /\ PodAside /\ QueueAside /\ EnvAside

LEMMA Still ==
    ASSUME TypeInv
    PROVE  /\ UNCHANGED pod => PodAside
           /\ UNCHANGED q => QueueAside
           /\ UNCHANGED env => EnvAside
           /\ UNCHANGED createdAt => TimeAside
<1>1. UNCHANGED pod => PodAside
  BY DEF TypeInv, PodAside, PodTypes, SameTimes, SameRows, FullRow
<1>2. UNCHANGED q => QueueAside
  BY DEF TypeInv, QueueAside, QueueTypes
<1>3. UNCHANGED env => EnvAside
  BY DEF TypeInv, EnvAside, Static
<1>4. UNCHANGED createdAt => TimeAside
  BY DEF TypeInv, TimeAside, TimeTypes
<1> QED
  BY <1>1, <1>2, <1>3, <1>4

LEMMA QueueStep ==
    ASSUME TypeInv, NEW x \in Queues \ {"addRule"}, NEW k \in Names,
           q' = Push(x, k) \/ q' = Pop(x, k)
    PROVE  QueueAside
<1>1. QueueTypes'
  BY PushPop DEF TypeInv, QueueTypes, Names
<1>2. "addRule" \in Queues
  BY DEF Queues
<1>3. q'["addRule"] = q["addRule"]
  BY <1>2 DEF TypeInv, QueueTypes, Push, Pop
<1> QED
  BY <1>1, <1>3 DEF QueueAside

\* Something but the rows of a pod changes.
LEMMA PodStep ==
    ASSUME TypeInv, NEW g \in Gws, NEW p \in Pod,
           p.rows = pod[g].rows, p.created = pod[g].created,
           pod' = [pod EXCEPT ![g] = p]
    PROVE  PodAside
<1>1. pod \in [Gws -> Pod] /\ \A h \in Gws : \A w \in pod[h].rows : FullRow(w)
  BY DEF TypeInv, PodTypes
<1>2. pod' \in [Gws -> Pod]
  BY <1>1
<1>3. \A h \in Gws : pod'[h].rows = pod[h].rows /\ pod'[h].created = pod[h].created
  BY <1>1
<1>4. \A h \in Gws : \A w \in pod'[h].rows : FullRow(w)
  BY <1>1, <1>3
<1> QED
  BY <1>2, <1>3, <1>4 DEF PodAside, PodTypes, SameTimes, SameRows, FullRow

LEMMA AsideTypes ==
    ASSUME TypeInv, Aside, TimeAside, EipTypes'
    PROVE  TypeInv'
<1>1. RuleTypes' /\ LocksApart'
  BY DEF TypeInv, RuleTypes, LocksApart, Aside
<1>2. TimeTypes'
  BY TimesKept DEF TypeInv, TimeTypes, Aside, PodAside, TimeAside
<1> QED
  BY <1>1, <1>2 DEF TypeInv, Aside, PodAside, QueueAside, EnvAside

\* One EIP changes, or the handlers of one.
LEMMA EipStep ==
    ASSUME TypeInv, NEW e \in Eips, NEW o \in Eip, NEW h \in EipHandlers,
           NEW c \in Eip,
           eip' = eip \/ eip' = [eip EXCEPT ![e] = o],
           ceip' = ceip \/ ceip' = [ceip EXCEPT ![e] = c],
           eadd' = eadd \/ eadd' = [eadd EXCEPT ![e] = h],
           eupd' = eupd \/ eupd' = [eupd EXCEPT ![e] = h]
    PROVE  EipTypes'
<1>1. EipTypes
  BY DEF TypeInv
<1>2. eip' \in [Eips -> Eip] /\ ceip' \in [Eips -> Eip]
  BY <1>1 DEF EipTypes
<1>3. eadd' \in [Eips -> EipHandlers] /\ eupd' \in [Eips -> EipHandlers]
  BY <1>1 DEF EipTypes
<1> QED
  BY <1>2, <1>3 DEF EipTypes

LEMMA EipType ==
    ASSUME TypeInv, NEW e \in Eips
    PROVE  /\ eip[e] \in Eip /\ ceip[e] \in Eip
           /\ eadd[e] \in EipHandlers /\ eupd[e] \in EipHandlers
           /\ eadd[e].obj \in Eip /\ eupd[e].obj \in Eip
           /\ GwOf[e] \in Gws /\ pod[GwOf[e]] \in Pod /\ e \in Names
BY NatGatewayAssumption DEF TypeInv, EipTypes, EipHandlers, PodTypes, Names

LEMMA CreateEipAside ==
    ASSUME TypeInv, NEW e \in Eips, CreateEip(e)
    PROVE  TypeInv' /\ Aside
<1>1. eip[e] \in Eip /\ ceip[e] \in Eip /\ eadd[e] \in EipHandlers
  BY EipType
<1>2. [eip[e] EXCEPT !.here = TRUE] \in Eip
  BY <1>1, Zenon DEF Eip
<1>3. eip' = [eip EXCEPT ![e] = [eip[e] EXCEPT !.here = TRUE]]
  BY DEF CreateEip, TypeInv, EipTypes
<1>4. EipTypes'
  BY <1>1, <1>2, <1>3, EipStep, Zenon DEF CreateEip, caches, workers
<1>5. EnvAside
  <2>1. [env EXCEPT !.makes = @ \ {e}] \in Scenario
    <3>1. env \in Scenario /\ env.makes \ {e} \in SUBSET (Eips \cup Rules)
      BY DEF TypeInv, Scenario
    <3> QED
      BY <3>1, Zenon DEF Scenario
  <2>2. env' = [env EXCEPT !.makes = @ \ {e}]
    BY Zenon DEF CreateEip
  <2>3. Static
    BY <2>2 DEF Static, TypeInv, Scenario
  <2> QED
    BY <2>1, <2>2, <2>3 DEF EnvAside
<1>6. Aside /\ TimeAside
  BY <1>5, Still DEF Aside, CreateEip, caches, workers
<1> QED
  BY <1>4, <1>6, AsideTypes

LEMMA DeleteEipAside ==
    ASSUME TypeInv, NEW e \in Eips, DeleteEip(e)
    PROVE  TypeInv' /\ Aside
<1>1. eip[e] \in Eip /\ ceip[e] \in Eip /\ eadd[e] \in EipHandlers
  BY EipType
<1>2. Deleted(eip[e], NoEip) \in Eip
  BY <1>1, EipOps
<1>3. EipTypes'
  BY <1>1, <1>2, EipStep, Zenon DEF DeleteEip, caches, workers
<1>4. Aside /\ TimeAside
  BY Still DEF Aside, DeleteEip, caches, workers
<1> QED
  BY <1>3, <1>4, AsideTypes

LEMMA EipEventAside ==
    ASSUME TypeInv, NEW e \in Eips, EipEvent(e)
    PROVE  TypeInv' /\ Aside
<1>1. eip[e] \in Eip /\ ceip[e] \in Eip /\ eadd[e] \in EipHandlers /\ e \in Names
  BY EipType
<1>2. ceip' = [ceip EXCEPT ![e] = eip[e]] \/ ceip' = [ceip EXCEPT ![e] = NoEip]
  BY DEF EipEvent, enqueueAddIptablesEip, enqueueUpdateIptablesEip, enqueueDelIptablesEip
<1>3. /\ UNCHANGED <<eip, rule, crule, pod, createdAt, workers, env>>
      /\ q' = q \/ \E x \in Queues \ {"addRule"} : q' = Push(x, e)
  BY DEF EipEvent, enqueueAddIptablesEip, enqueueUpdateIptablesEip,
         enqueueDelIptablesEip, Queues
<1>4. EipTypes'
  BY <1>1, <1>2, <1>3, EipStep, NoEipType DEF workers
<1>5. QueueAside
  BY <1>1, <1>3, QueueStep, Still
<1>6. Aside /\ TimeAside
  BY <1>3, <1>5, Still DEF Aside, workers
<1> QED
  BY <1>4, <1>6, AsideTypes

LEMMA EipHandlerType ==
    ASSUME NEW p \in {"idle", "installed", "updated", "shown", "gone", "redone"},
           NEW o \in Eip
    PROVE  EipHandler(p, o) \in EipHandlers
BY DEF EipHandler, EipHandlers

\* An address enters or leaves a pod.
LEMMA EipInPod ==
    ASSUME TypeInv, NEW e \in Eips, NEW s \in SUBSET Eips,
           pod' = [pod EXCEPT ![GwOf[e]] = [@ EXCEPT !.eips = s]]
    PROVE  PodAside
<1> DEFINE g == GwOf[e]
           p == [pod[g] EXCEPT !.eips = s]
<1>1. g \in Gws /\ pod[g] \in Pod
  BY EipType
<1>2. p \in Pod
  BY <1>1, Zenon DEF Pod
<1>3. p.rows = pod[g].rows /\ p.created = pod[g].created
  BY <1>1 DEF Pod
<1>4. pod' = [pod EXCEPT ![g] = p]
  BY Zenon
<1> HIDE DEF p, g
<1> QED
  BY <1>1, <1>2, <1>3, <1>4, PodStep, Zenon

LEMMA EipAddAside ==
    ASSUME TypeInv, NEW e \in Eips, EipAddWorker(e)
    PROVE  TypeInv' /\ Aside
<1>1. /\ eip[e] \in Eip /\ ceip[e] \in Eip /\ eadd[e] \in EipHandlers
      /\ eadd[e].obj \in Eip /\ GwOf[e] \in Gws /\ pod[GwOf[e]] \in Pod /\ e \in Names
  BY EipType
<1>2. NoEip \in Eip /\ NoHandler \in EipHandlers
  BY NoEipType
<1>3. CASE handleAddIptablesEip(e)
  <2>1. EipHandler("installed", NoEip) \in EipHandlers
    BY <1>2, EipHandlerType
  <2>2. /\ q' = Pop("addEip", e)
        /\ UNCHANGED <<eip, rule, caches, createdAt, work, wait, eupd, env>>
        /\ \/ UNCHANGED <<pod, eadd>>
           \/ /\ pod' = [pod EXCEPT ![GwOf[e]].eips = @ \cup {e}]
              /\ eadd' = [eadd EXCEPT ![e] = EipHandler("installed", NoEip)]
    BY <1>3, Zenon DEF handleAddIptablesEip
  <2>3. EipTypes'
    BY <1>1, <2>1, <2>2, EipStep DEF caches
  <2>4. PodAside
    <3>1. CASE UNCHANGED pod
      BY <3>1, Still
    <3>2. CASE pod' = [pod EXCEPT ![GwOf[e]].eips = @ \cup {e}]
      <4>1. pod[GwOf[e]].eips \cup {e} \in SUBSET Eips
        BY <1>1 DEF Pod
      <4>2. pod' = [pod EXCEPT ![GwOf[e]] = [@ EXCEPT !.eips = pod[GwOf[e]].eips \cup {e}]]
        BY <3>2, Zenon
      <4> QED
        BY <4>1, <4>2, EipInPod, Zenon
    <3> QED
      BY <2>2, <3>1, <3>2
  <2>5. QueueAside
    BY <1>1, <2>2, QueueStep DEF Queues
  <2>6. Aside /\ TimeAside
    BY <2>2, <2>4, <2>5, Still DEF Aside, caches
  <2> QED
    BY <2>3, <2>6, AsideTypes
<1>4. CASE createOrUpdateEipCR(e)
  <2>1. [eip[e] EXCEPT !.spec = TRUE] \in Eip
    BY <1>1, Zenon DEF Eip
  <2>2. EipHandler("updated", ceip[e]) \in EipHandlers
    BY <1>1, EipHandlerType
  <2>3. /\ UNCHANGED <<rule, caches, pod, createdAt, work, wait, eupd, env>>
        /\ \/ /\ eip' = [eip EXCEPT ![e] = [eip[e] EXCEPT !.spec = TRUE]]
              /\ eadd' = [eadd EXCEPT ![e] = EipHandler("updated", ceip[e])]
              /\ q' = q
           \/ /\ eip' = eip
              /\ eadd' = [eadd EXCEPT ![e] = NoHandler]
              /\ q' = Push("addEip", e)
    <3>1. [eip EXCEPT ![e].spec = TRUE] = [eip EXCEPT ![e] = [eip[e] EXCEPT !.spec = TRUE]]
      BY DEF TypeInv, EipTypes
    <3> QED
      BY <1>4, <3>1, Zenon DEF createOrUpdateEipCR, RetryAddEip
  <2>4. EipTypes'
    BY <1>1, <1>2, <2>1, <2>2, <2>3, EipStep, Zenon DEF caches
  <2>5. QueueAside
    BY <1>1, <2>3, QueueStep, Still DEF Queues
  <2>6. Aside /\ TimeAside
    BY <2>3, <2>5, Still DEF Aside, caches
  <2> QED
    BY <2>4, <2>6, AsideTypes
<1>5. CASE createOrUpdateEipCRStatus(e)
  <2> DEFINE o == eadd[e].obj
             p == [eip[e] EXCEPT !.ip = TRUE, !.ready = TRUE,
                                 !.redo = o.redo, !.nat = o.nat]
  <2>1. p \in Eip
    <3>1. o.redo \in Nat /\ o.nat \in SUBSET Kinds
      BY <1>1 DEF Eip
    <3> QED
      BY <1>1, <3>1, Zenon DEF Eip
  <2>2. EipHandler("shown", NoEip) \in EipHandlers
    BY <1>2, EipHandlerType
  <2>3. /\ UNCHANGED <<rule, caches, pod, createdAt, q, work, wait, eupd, env>>
        /\ eip' = eip \/ eip' = [eip EXCEPT ![e] = p]
        /\ eadd' = [eadd EXCEPT ![e] = EipHandler("shown", NoEip)]
    BY <1>5, Zenon DEF createOrUpdateEipCRStatus
  <2> HIDE DEF p
  <2>4. EipTypes'
    BY <1>1, <2>1, <2>2, <2>3, EipStep, Zenon DEF caches
  <2>5. Aside /\ TimeAside
    BY <2>3, Still DEF Aside, caches
  <2> QED
    BY <2>4, <2>5, AsideTypes
<1>6. CASE handleAddIptablesEipEnd(e)
  <2>1. handleAddIptablesEipFinalizer(e, eip[e]) \in Eip
    BY <1>1, EipOps
  <2>2. EipTypes'
    BY <1>1, <1>2, <1>6, <2>1, EipStep, Zenon DEF handleAddIptablesEipEnd, caches
  <2>3. Aside /\ TimeAside
    BY <1>6, Still DEF Aside, handleAddIptablesEipEnd, caches
  <2> QED
    BY <2>2, <2>3, AsideTypes
<1> QED
  BY <1>3, <1>4, <1>5, <1>6 DEF EipAddWorker

LEMMA EipUpdateAside ==
    ASSUME TypeInv, NEW e \in Eips, EipUpdateWorker(e) \/ handleResetIptablesEip(e)
    PROVE  TypeInv' /\ Aside
<1>1. /\ eip[e] \in Eip /\ ceip[e] \in Eip /\ eupd[e] \in EipHandlers
      /\ GwOf[e] \in Gws /\ pod[GwOf[e]] \in Pod /\ e \in Names
  BY EipType
<1>2. NoEip \in Eip /\ NoHandler \in EipHandlers
  BY NoEipType
<1>3. handleAddIptablesEipFinalizer(e, eip[e]) \in Eip /\ Unfinalized(eip[e], NoEip) \in Eip
  BY <1>1, EipOps, Zenon
<1>4. /\ patchEipStatus(e, 0, TRUE) \in Eip
      /\ handleAddIptablesEipFinalizer(e, patchEipStatus(e, 0, TRUE)) \in Eip
  BY PatchedEipType, EipOps, Zenon DEF TypeInv
<1>5. CASE handleUpdateIptablesEip(e)
  <2> DEFINE H == {EipHandler("gone", NoEip), EipHandler("redone", NoEip)}
             S == {pod[GwOf[e]].eips \cup {e}, pod[GwOf[e]].eips \ {e}}
  <2>1. \A h \in H : h \in EipHandlers
    BY <1>2, EipHandlerType
  <2>2. \A s \in S : s \in SUBSET Eips
    BY <1>1 DEF Pod
  <2>3. /\ q' = Pop("updEip", e)
        /\ UNCHANGED <<rule, caches, createdAt, work, wait, eadd, env>>
        /\ \/ eip' = eip
           \/ eip' = [eip EXCEPT ![e] = handleAddIptablesEipFinalizer(e, eip[e])]
        /\ \/ UNCHANGED <<pod, eupd>>
           \/ /\ \E s \in S : pod' = [pod EXCEPT ![GwOf[e]].eips = s]
              /\ \E h \in H : eupd' = [eupd EXCEPT ![e] = h]
    BY <1>5, Zenon DEF handleUpdateIptablesEip
  <2> HIDE DEF H, S
  <2>4. EipTypes'
    BY <1>1, <1>3, <2>1, <2>3, EipStep DEF caches
  <2>5. PodAside
    <3>1. CASE UNCHANGED pod
      BY <3>1, Still
    <3>2. CASE \E s \in S : pod' = [pod EXCEPT ![GwOf[e]].eips = s]
      <4>1. PICK s \in S : pod' = [pod EXCEPT ![GwOf[e]] = [@ EXCEPT !.eips = s]]
        BY <3>2, Zenon
      <4> QED
        BY <2>2, <4>1, EipInPod, Zenon
    <3> QED
      BY <2>3, <3>1, <3>2, Zenon
  <2>6. QueueAside
    BY <1>1, <2>3, QueueStep DEF Queues
  <2>7. Aside /\ TimeAside
    BY <2>3, <2>5, <2>6, Still DEF Aside, caches
  <2> QED
    BY <2>4, <2>7, AsideTypes
<1>6. CASE handleUpdateIptablesEipEnd(e)
  <2>1. EipTypes'
    BY <1>1, <1>2, <1>4, <1>6, EipStep, Zenon DEF handleUpdateIptablesEipEnd, caches
  <2>2. Aside /\ TimeAside
    BY <1>6, Still DEF Aside, handleUpdateIptablesEipEnd, caches
  <2> QED
    BY <2>1, <2>2, AsideTypes
<1>7. CASE handleDelIptablesEipFinalizer(e)
  <2>1. EipTypes'
    BY <1>1, <1>2, <1>3, <1>7, EipStep, Zenon DEF handleDelIptablesEipFinalizer, caches
  <2>2. Aside /\ TimeAside
    BY <1>7, Still DEF Aside, handleDelIptablesEipFinalizer, caches
  <2> QED
    BY <2>1, <2>2, AsideTypes
<1>8. CASE handleResetIptablesEip(e)
  <2>1. /\ UNCHANGED <<rule, caches, pod, createdAt, workers, env>>
        /\ eip' = [eip EXCEPT ![e] = patchEipStatus(e, 0, TRUE)]
        /\ q' = Pop("resetEip", e)
    BY <1>8 DEF handleResetIptablesEip
  <2>2. EipTypes'
    BY <1>1, <1>4, <2>1, EipStep, Zenon DEF caches, workers
  <2>3. QueueAside
    BY <1>1, <2>1, QueueStep DEF Queues
  <2>4. Aside /\ TimeAside
    BY <2>1, <2>3, Still DEF Aside, caches, workers
  <2> QED
    BY <2>2, <2>4, AsideTypes
<1> QED
  BY <1>5, <1>6, <1>7, <1>8 DEF EipUpdateWorker

LEMMA FailEipAside ==
    ASSUME TypeInv, NEW e \in Eips, FailEip(e)
    PROVE  TypeInv' /\ Aside
<1>1. eip[e] \in Eip /\ ceip[e] \in Eip /\ e \in Names
  BY EipType
<1>2. EnvAside
  <2>1. env \in Scenario /\ env.fails > 0 /\ env' = [env EXCEPT !.fails = @ - 1]
    BY DEF TypeInv, FailEip
  <2>2. env.fails - 1 \in Nat
    BY <2>1 DEF Scenario
  <2>3. [env EXCEPT !.fails = @ - 1] \in Scenario
    BY <2>1, <2>2, Zenon DEF Scenario
  <2>4. Static
    BY <2>1 DEF Static, Scenario
  <2> QED
    BY <2>1, <2>3, <2>4 DEF EnvAside
<1>3. EipTypes'
  BY <1>1, NoEipType, EipStep, Zenon DEF FailEip, caches
<1>4. QueueAside
  BY <1>1, QueueStep DEF FailEip, Queues
<1>5. Aside /\ TimeAside
  BY <1>2, <1>4, Still DEF Aside, FailEip, caches
<1> QED
  BY <1>3, <1>5, AsideTypes

-----------------------------------------------------------------------------
(* The steps of gateways *)

LEMMA PodType ==
    ASSUME TypeInv, NEW g \in Gws
    PROVE  /\ pod[g] \in Pod /\ pod[g].created \in Nat \ {0} /\ pod[g].started \in Nat
           /\ g \in Names
           /\ Past(pod[g].created)
<1>1. pod[g] \in Pod
  BY DEF TypeInv, PodTypes
<1>2. pod[g].created \in Nat \ {0} /\ pod[g].started \in Nat
  BY <1>1 DEF Pod
<1>3. Past(pod[g].created)
  BY <1>2 DEF Past
<1> QED
  BY <1>1, <1>2, <1>3 DEF Names

LEMMA MaxOfTwo ==
    ASSUME NEW a \in Nat, NEW b \in Nat
    PROVE  Max({a, b}) \in {a, b}
<1>1. \E x \in {a, b} : \A y \in {a, b} : x >= y
  OBVIOUS
<1> QED
  BY <1>1, Zenon DEF Max

LEMMA SweepTime ==
    ASSUME TypeInv, NEW g \in Gws
    PROVE  initCreateAt(g) \in Nat /\ Past(initCreateAt(g))
BY PodType DEF initCreateAt, TypeInv, TimeTypes

LEMMA GatewayAside ==
    ASSUME TypeInv, NEW g \in Gws, GatewayWorker(g)
    PROVE  TypeInv' /\ Aside
<1>1. /\ pod[g] \in Pod /\ pod[g].created \in Nat \ {0} /\ pod[g].started \in Nat
      /\ g \in Names /\ Past(pod[g].created)
  BY PodType
<1>2. UNCHANGED <<eip, ceip, eadd, eupd>> => EipTypes'
  BY DEF TypeInv, EipTypes
<1>3. CASE StartPod(g)
  <2> DEFINE p == [pod[g] EXCEPT !.started = Now]
  <2>1. Now \in Nat
    BY LastPod DEF TypeInv, TimeTypes
  <2>2. p \in Pod
    BY <1>1, <2>1, Zenon DEF Pod
  <2>3. p.rows = pod[g].rows /\ p.created = pod[g].created
    BY <1>1 DEF Pod
  <2>4. pod' = [pod EXCEPT ![g] = p]
    BY <1>3, Zenon DEF StartPod
  <2> HIDE DEF p
  <2>5. PodAside
    BY <2>2, <2>3, <2>4, PodStep, Zenon
  <2>6. UNCHANGED <<eip, rule, caches, createdAt, q, workers, env>>
    BY <1>3 DEF StartPod
  <2>7. Aside /\ TimeAside
    BY <2>5, <2>6, Still DEF Aside, caches, workers
  <2> QED
    BY <1>2, <2>6, <2>7, AsideTypes DEF caches, workers
<1>4. CASE handleInitVpcNatGwFailed(g)
  <2>1. /\ UNCHANGED <<eip, rule, caches, pod, q, workers, env>>
        /\ createdAt' = pod[g].created
    BY <1>4 DEF handleInitVpcNatGwFailed
  <2>2. TimeAside
    BY <1>1, <2>1 DEF TimeAside
  <2>3. Aside
    BY <2>1, Still DEF Aside, caches, workers
  <2> QED
    BY <1>2, <2>1, <2>2, <2>3, AsideTypes DEF caches, workers
<1>5. CASE handleInitVpcNatGw(g)
  <2> DEFINE p == [pod[g] EXCEPT !.chains = TRUE]
  <2>1. UNCHANGED <<eip, rule, caches, workers, env>>
    BY <1>5 DEF handleInitVpcNatGw
  <2>2. \/ UNCHANGED <<pod, createdAt>>
        \/ createdAt' = Max({createdAt, pod[g].created}) /\ pod' = [pod EXCEPT ![g] = p]
    BY <1>5, Zenon DEF handleInitVpcNatGw
  <2>3. p \in Pod
    BY <1>1, Zenon DEF Pod
  <2>4. p.rows = pod[g].rows /\ p.created = pod[g].created
    BY <1>1 DEF Pod
  <2> HIDE DEF p
  <2>5. PodAside
    BY <2>2, <2>3, <2>4, PodStep, Still
  <2>6. TimeAside
    <3>1. createdAt \in Nat /\ Past(createdAt)
      BY DEF TypeInv, TimeTypes
    <3>2. createdAt' \in {createdAt, pod[g].created}
      BY <1>1, <2>2, <3>1, MaxOfTwo
    <3> QED
      BY <1>1, <3>1, <3>2 DEF TimeAside
  <2>7. QueueAside
    <3>1. q' = [x \in Queues |->
                  IF x \in {"vpcFip", "vpcDnat", "vpcSnat", "vpcEip", "hasInit"}
                  THEN q[x] \cup {g}
                  ELSE IF x = "init" THEN q[x] \ {g} ELSE q[x]]
      BY <1>5 DEF handleInitVpcNatGw
    <3>2. \A x \in Queues : q[x] \in SUBSET Names
      BY DEF TypeInv, QueueTypes, Names
    <3>3. QueueTypes'
      BY <1>1, <3>1, <3>2 DEF QueueTypes, Names
    <3>4. q'["addRule"] = q["addRule"]
      BY <3>1 DEF Queues
    <3> QED
      BY <3>3, <3>4 DEF QueueAside
  <2>8. Aside
    BY <2>1, <2>5, <2>7, Still DEF Aside, caches, workers
  <2> QED
    BY <1>2, <2>1, <2>6, <2>8, AsideTypes DEF caches, workers
<1>6. CASE handleInitVpcNatGwEnd(g)
  <2> DEFINE p == [pod[g] EXCEPT !.hasInit = TRUE]
  <2>1. UNCHANGED <<eip, rule, caches, createdAt, workers, env>>
    BY <1>6 DEF handleInitVpcNatGwEnd
  <2>2. pod' = [pod EXCEPT ![g] = p] /\ q' = Pop("hasInit", g)
    BY <1>6, Zenon DEF handleInitVpcNatGwEnd
  <2>3. p \in Pod
    BY <1>1, Zenon DEF Pod
  <2>4. p.rows = pod[g].rows /\ p.created = pod[g].created
    BY <1>1 DEF Pod
  <2> HIDE DEF p
  <2>5. PodAside
    BY <2>2, <2>3, <2>4, PodStep, Zenon
  <2>6. QueueAside
    BY <1>1, <2>2, QueueStep DEF Queues
  <2>7. Aside /\ TimeAside
    BY <2>1, <2>5, <2>6, Still DEF Aside, caches, workers
  <2> QED
    BY <1>2, <2>1, <2>7, AsideTypes DEF caches, workers
<1> QED
  BY <1>3, <1>4, <1>5, <1>6 DEF GatewayWorker

LEMMA VpcEipAside ==
    ASSUME TypeInv, NEW g \in Gws, handleUpdateVpcEip(g)
    PROVE  TypeInv' /\ Aside
<1> DEFINE t == initCreateAt(g)
<1>1. t \in Nat /\ Past(t) /\ g \in Names
  BY SweepTime, PodType
<1>2. /\ createdAt' = t
      /\ eip' = [e \in Eips |-> IF GwOf[e] = g /\ ceip[e].redo # t
                                THEN patchEipStatus(e, t, FALSE) ELSE eip[e]]
      /\ q' = Pop("vpcEip", g)
      /\ UNCHANGED <<rule, caches, pod, workers, env>>
  BY DEF handleUpdateVpcEip
<1> HIDE DEF t
<1>3. \A e \in Eips : patchEipStatus(e, t, FALSE) \in Eip /\ eip[e] \in Eip
  BY <1>1, PatchedEipType, EipType, Zenon DEF TypeInv
<1>4. EipTypes'
  BY <1>2, <1>3, Zenon DEF TypeInv, EipTypes, caches, workers
<1>5. TimeAside
  BY <1>1, <1>2 DEF TimeAside
<1>6. QueueAside
  BY <1>1, <1>2, QueueStep DEF Queues
<1>7. Aside
  BY <1>2, <1>6, Still DEF Aside, caches, workers
<1> QED
  BY <1>4, <1>5, <1>7, AsideTypes

-----------------------------------------------------------------------------
(* The steps of rules *)

\* A handler of a rule.
Hand(by, p, o) == [by |-> by, at |-> p, obj |-> o]

\* Nothing happens to s.
Untouched(s) ==
    /\ rule'[s] = rule[s] /\ crule'[s] = crule[s]
    /\ work'[s] = work[s] /\ wait'[s] = wait[s]
    /\ s \in q'["addRule"] <=> s \in q["addRule"]

\* What becomes of r and its handlers in a step that is about r alone.
OneRule(r, o, c, h, w) ==
    /\ rule'[r] = o /\ crule'[r] = c /\ work'[r] = h /\ wait'[r] = w
    /\ \A s \in Rules \ {r} : Untouched(s)

LEMMA RuleType ==
    ASSUME TypeInv, NEW r \in Rules
    PROVE  /\ rule[r] \in Rule /\ crule[r] \in Rule
           /\ work[r] \in Handler /\ wait[r] \in Handler
           /\ work[r].obj \in Rule /\ wait[r].obj \in Rule
           /\ NoRule \in Rule /\ Idle \in Handler
           /\ env.kind[r] \in Kinds /\ env.at[r] \in Eips /\ env.inner[r] \in Inners
           /\ r \in Names
<1>1. /\ rule[r] \in Rule /\ crule[r] \in Rule
      /\ work[r] \in Handler /\ wait[r] \in Handler
  BY DEF TypeInv, RuleTypes
<1>2. work[r].obj \in Rule /\ wait[r].obj \in Rule
  BY <1>1 DEF Handler
<1>3. NoRule \in Rule /\ Idle \in Handler
  BY NoRuleType DEF TypeInv
<1>4. env.kind[r] \in Kinds /\ env.at[r] \in Eips /\ env.inner[r] \in Inners
  BY DEF TypeInv, Scenario
<1> QED
  BY <1>1, <1>2, <1>3, <1>4 DEF Names

LEMMA SameAt ==
    ASSUME TypeInv, NEW r \in Rules
    PROVE  /\ UNCHANGED rule => rule' = [rule EXCEPT ![r] = rule[r]]
           /\ UNCHANGED crule => crule' = [crule EXCEPT ![r] = crule[r]]
           /\ UNCHANGED work => work' = [work EXCEPT ![r] = work[r]]
           /\ UNCHANGED wait => wait' = [wait EXCEPT ![r] = wait[r]]
BY DEF TypeInv, RuleTypes

RuleSide == RuleTypes' /\ QueueTypes' /\ LocksApart'

LEMMA RuleStep ==
    ASSUME TypeInv, NEW r \in Rules, NEW o \in Rule, NEW c \in Rule,
           NEW h \in Handler, NEW w \in Handler,
           h.by # "none" => h.by # w.by,
           rule' = [rule EXCEPT ![r] = o], crule' = [crule EXCEPT ![r] = c],
           work' = [work EXCEPT ![r] = h], wait' = [wait EXCEPT ![r] = w],
           NEW x, NEW k \in Names, x = "addRule" => k = r,
           q' = q \/ q' = Push(x, k) \/ q' = Pop(x, k)
    PROVE  RuleSide /\ OneRule(r, o, c, h, w)
<1>1. /\ rule \in [Rules -> Rule] /\ crule \in [Rules -> Rule]
      /\ work \in [Rules -> Handler] /\ wait \in [Rules -> Handler]
  BY DEF TypeInv, RuleTypes
<1>2. RuleTypes'
  BY <1>1 DEF RuleTypes
<1>3. QueueTypes'
  BY PushPop DEF TypeInv, QueueTypes, Names
<1>4. /\ rule'[r] = o /\ crule'[r] = c /\ work'[r] = h /\ wait'[r] = w
      /\ \A s \in Rules \ {r} : /\ rule'[s] = rule[s] /\ crule'[s] = crule[s]
                                /\ work'[s] = work[s] /\ wait'[s] = wait[s]
  BY <1>1
<1>5. \A s \in Rules \ {r} : s \in q'["addRule"] <=> s \in q["addRule"]
  BY DEF TypeInv, QueueTypes, Queues, Push, Pop
<1>6. LocksApart'
  BY <1>4 DEF TypeInv, LocksApart
<1>7. OneRule(r, o, c, h, w)
  BY <1>4, <1>5, Zenon DEF OneRule, Untouched
<1> QED
  BY <1>2, <1>3, <1>6, <1>7 DEF RuleSide

LEMMA RuleSideTypes ==
    ASSUME TypeInv, RuleSide, EipTypes', PodTypes', SameTimes, UNCHANGED createdAt,
           env' \in Scenario
    PROVE  TypeInv'
<1>1. TimeTypes'
  BY TimesKept DEF TypeInv, TimeTypes
<1> QED
  BY <1>1 DEF TypeInv, RuleSide

LEMMA EipsStay ==
    ASSUME TypeInv
    PROVE  /\ UNCHANGED <<eip, ceip, eadd, eupd>> => EipTypes'
           /\ UNCHANGED pod => PodTypes' /\ SameTimes
           /\ UNCHANGED env => env' \in Scenario /\ Static
<1>1. UNCHANGED <<eip, ceip, eadd, eupd>> => EipTypes'
  BY DEF TypeInv, EipTypes
<1> QED
  BY <1>1, Still DEF PodAside, EnvAside

LEMMA CreateRuleStep ==
    ASSUME TypeInv, NEW r \in Rules, CreateRule(r)
    PROVE  /\ TypeInv' /\ Static
           /\ OneRule(r, NewRule(env.at[r], env.inner[r]), crule[r], work[r], wait[r])
           /\ env'.makes = env.makes \ {r}
           /\ UNCHANGED <<pod, q>>
<1> DEFINE n == NewRule(env.at[r], env.inner[r])
<1>1. n \in Rule /\ crule[r] \in Rule /\ work[r] \in Handler /\ wait[r] \in Handler
      /\ r \in Names
  BY RuleType, NewRuleType
<1>2. /\ rule' = [rule EXCEPT ![r] = n]
      /\ env' = [env EXCEPT !.makes = @ \ {r}]
      /\ UNCHANGED <<eip, caches, pod, createdAt, q, workers>>
  BY Zenon DEF CreateRule
<1> HIDE DEF n
<1>3. work[r].by # "none" => work[r].by # wait[r].by
  BY DEF TypeInv, LocksApart
<1>4. RuleSide /\ OneRule(r, n, crule[r], work[r], wait[r])
  BY <1>1, <1>2, <1>3, SameAt, RuleStep, Zenon DEF caches, workers
<1>5. env \in Scenario /\ env.makes \ {r} \in SUBSET (Eips \cup Rules)
  BY DEF TypeInv, Scenario
<1>6. env' \in Scenario
  BY <1>2, <1>5, Zenon DEF Scenario
<1>7. Static /\ env'.makes = env.makes \ {r}
  BY <1>2, <1>5 DEF Static, Scenario
<1>8. TypeInv'
  BY <1>2, <1>4, <1>6, EipsStay, RuleSideTypes DEF caches, workers
<1> QED
  BY <1>2, <1>4, <1>7, <1>8 DEF n

LEMMA EditRuleTypes ==
    ASSUME TypeInv, NEW r \in Rules, EditRule(r)
    PROVE  TypeInv'
<1>1. rule[r] \in Rule /\ crule[r] \in Rule /\ work[r] \in Handler /\ wait[r] \in Handler
      /\ r \in Names
  BY RuleType
<1>2. /\ env.edits > 0
      /\ env' = [env EXCEPT !.edits = @ - 1]
      /\ UNCHANGED <<eip, caches, pod, createdAt, q, workers>>
  BY Zenon DEF EditRule
<1>3. PICK e \in Eips, i \in Inners :
         rule' = [rule EXCEPT ![r] = [rule[r] EXCEPT !.eip = e, !.inner = i]]
  BY Zenon DEF EditRule
<1> DEFINE n == [rule[r] EXCEPT !.eip = e, !.inner = i]
<1>4. n \in Rule
  BY <1>1, Zenon DEF Rule
<1>5. rule' = [rule EXCEPT ![r] = n]
  BY <1>3
<1> HIDE DEF n
<1>6. work[r].by # "none" => work[r].by # wait[r].by
  BY DEF TypeInv, LocksApart
<1>7. RuleSide /\ OneRule(r, n, crule[r], work[r], wait[r])
  BY <1>1, <1>2, <1>4, <1>5, <1>6, SameAt, RuleStep, Zenon DEF caches, workers
<1>8. env \in Scenario /\ env.edits - 1 \in Nat
  BY <1>2 DEF TypeInv, Scenario
<1>9. env' \in Scenario
  BY <1>2, <1>8, Zenon DEF Scenario
<1> QED
  BY <1>2, <1>7, <1>9, EipsStay, RuleSideTypes DEF caches, workers

LEMMA DeleteRuleStep ==
    ASSUME TypeInv, NEW r \in Rules, DeleteRule(r)
    PROVE  /\ TypeInv' /\ Static
           /\ OneRule(r, Deleted(rule[r], NoRule), crule[r], work[r], wait[r])
           /\ UNCHANGED <<pod, q>>
<1> DEFINE n == Deleted(rule[r], NoRule)
<1>1. crule[r] \in Rule /\ work[r] \in Handler /\ wait[r] \in Handler /\ r \in Names
  BY RuleType
<1>2. n \in Rule
  BY RuleType, RuleOps
<1>3. /\ rule' = [rule EXCEPT ![r] = n]
      /\ UNCHANGED <<eip, caches, pod, createdAt, q, workers, env>>
  BY Zenon DEF DeleteRule
<1> HIDE DEF n
<1>4. work[r].by # "none" => work[r].by # wait[r].by
  BY DEF TypeInv, LocksApart
<1>5. RuleSide /\ OneRule(r, n, crule[r], work[r], wait[r])
  BY <1>1, <1>2, <1>3, <1>4, SameAt, RuleStep, Zenon DEF caches, workers
<1>6. TypeInv' /\ Static
  BY <1>3, <1>5, EipsStay, RuleSideTypes, Zenon DEF caches, workers
<1> QED
  BY <1>3, <1>5, <1>6 DEF n

\* An event brings the cache up to the API server.
LEMMA RuleEventStep ==
    ASSUME TypeInv, NEW r \in Rules, RuleAdded(r) \/ RuleUpdated(r) \/ RuleDeleted(r)
    PROVE  /\ TypeInv' /\ Static
           /\ OneRule(r, rule[r], IF rule[r].here THEN rule[r] ELSE NoRule,
                      work[r], wait[r])
           /\ UNCHANGED pod
<1> DEFINE c == IF rule[r].here THEN rule[r] ELSE NoRule
<1>1. /\ rule[r] \in Rule /\ c \in Rule /\ work[r] \in Handler /\ wait[r] \in Handler
      /\ r \in Names
  BY RuleType
<1>2. /\ crule' = [crule EXCEPT ![r] = c]
      /\ UNCHANGED <<eip, rule, ceip, pod, createdAt, workers, env>>
      /\ q' = q \/ \E x : q' = Push(x, r)
  BY Zenon DEF RuleAdded, RuleUpdated, RuleDeleted
<1> HIDE DEF c
<1>3. work[r].by # "none" => work[r].by # wait[r].by
  BY DEF TypeInv, LocksApart
<1>4. RuleSide /\ OneRule(r, rule[r], c, work[r], wait[r])
  BY <1>1, <1>2, <1>3, SameAt, RuleStep, Zenon DEF workers
<1>5. TypeInv' /\ Static
  BY <1>2, <1>4, EipsStay, RuleSideTypes DEF workers
<1> QED
  BY <1>2, <1>4, <1>5, Zenon DEF c

-----------------------------------------------------------------------------
(* The steps of the handlers of rules *)

LEMMA HandType ==
    ASSUME NEW by \in {"none", "addRule", "updRule"},
           NEW p \in {"idle", "waiting", "bound", "made", "shown", "labelled",
                      "gone", "marked", "cleared", "redone"},
           NEW o \in Rule
    PROVE  Hand(by, p, o) \in Handler /\ Hand(by, p, o).by = by
           /\ Hand(by, p, o).at = p /\ Hand(by, p, o).obj = o
BY DEF Hand, Handler

LEMMA IdleIs == Idle.by = "none" /\ Idle.at = "idle" /\ Idle.obj = NoRule
BY DEF Idle

\* A handler goes on.
Moved(r, p) == [work[r] EXCEPT !.at = p]

LEMMA MovedType ==
    ASSUME TypeInv, NEW r \in Rules,
           NEW p \in {"made", "shown", "labelled", "cleared"}
    PROVE  /\ Moved(r, p) \in Handler /\ Moved(r, p).by = work[r].by
           /\ Moved(r, p).at = p /\ Moved(r, p).obj = work[r].obj
           /\ Goto(r, p) => work' = [work EXCEPT ![r] = Moved(r, p)]
<1>1. work[r] \in Handler /\ work \in [Rules -> Handler]
  BY RuleType DEF TypeInv, RuleTypes
<1>2. Moved(r, p) \in Handler
  BY <1>1, Zenon DEF Moved, Handler
<1>3. /\ Moved(r, p).by = work[r].by /\ Moved(r, p).at = p
      /\ Moved(r, p).obj = work[r].obj
  BY <1>1 DEF Moved, Handler
<1>4. Goto(r, p) => work' = [work EXCEPT ![r] = Moved(r, p)]
  BY Zenon DEF Goto, Moved
<1> QED
  BY <1>2, <1>3, <1>4

\* A worker takes r from its queue, or is the one that waited, and goes on with
\* the version o; w is who waits then.
Taken(r, by, o, w) ==
    /\ work[r] = Idle
    /\ \/ /\ r \in q[by] /\ wait[r].by # by
          /\ o = crule[r] /\ w = wait[r] /\ q' = Pop(by, r)
       \/ /\ wait[r].by = by
          /\ o = wait[r].obj /\ w = Idle /\ q' = q

LEMMA TakenFacts ==
    ASSUME TypeInv, NEW r \in Rules, NEW by \in {"addRule", "updRule"}, NEW o,
           Locks(r, by, o)
    PROVE  \E w \in Handler :
              /\ Taken(r, by, o, w) /\ wait' = [wait EXCEPT ![r] = w]
              /\ w.by # by /\ o \in Rule
<1>1. /\ crule[r] \in Rule /\ wait[r] \in Handler /\ wait[r].obj \in Rule
      /\ Idle \in Handler /\ env.kind[r] \in Kinds
  BY RuleType
<1>2. WorkerFree(r, by) => wait[r].by # by
  <2>1. SameCrd(r, r)
    BY <1>1 DEF SameCrd, IsFip, IsDnat, IsSnat, Kinds
  <2> QED
    BY <2>1 DEF WorkerFree
<1>3. CASE /\ work[r] = Idle /\ r \in q[by] /\ WorkerFree(r, by)
           /\ o = crule[r] /\ q' = Pop(by, r) /\ wait' = wait
  <2>1. wait' = [wait EXCEPT ![r] = wait[r]]
    BY <1>3, SameAt
  <2> QED
    BY <1>1, <1>2, <1>3, <2>1, Zenon DEF Taken
<1>4. CASE /\ work[r] = Idle /\ wait[r].by = by
           /\ o = wait[r].obj /\ q' = q /\ wait' = [wait EXCEPT ![r] = Idle]
  <2>1. Idle.by # by
    BY IdleIs
  <2> QED
    BY <1>1, <1>4, <2>1, Zenon DEF Taken
<1> QED
  BY <1>3, <1>4, Zenon DEF Locks

\* The same for r and its handlers when a worker has taken r.
LEMMA TakenStep ==
    ASSUME TypeInv, NEW r \in Rules, NEW by \in {"addRule", "updRule"},
           NEW o, NEW w \in Handler, Taken(r, by, o, w),
           wait' = [wait EXCEPT ![r] = w], w.by # by,
           NEW n \in Rule, NEW h \in Handler, h.by \in {"none", by},
           rule' = [rule EXCEPT ![r] = n], UNCHANGED crule,
           work' = [work EXCEPT ![r] = h]
    PROVE  RuleSide /\ OneRule(r, n, crule[r], h, w)
<1>1. crule[r] \in Rule /\ r \in Names
  BY RuleType, Zenon
<1>2. crule' = [crule EXCEPT ![r] = crule[r]]
  BY SameAt, Zenon
<1>3. q' = q \/ q' = Push(by, r) \/ q' = Pop(by, r)
  BY Zenon DEF Taken
<1>4. h.by # "none" => h.by # w.by
  OBVIOUS
<1> QED
  BY <1>1, <1>2, <1>3, <1>4, RuleStep, Zenon

LEMMA WaitStep ==
    ASSUME TypeInv, NEW r \in Rules, NEW by \in {"addRule", "updRule"},
           WaitForLock(r, by)
    PROVE  /\ TypeInv' /\ Static
           /\ OneRule(r, rule[r], crule[r], work[r], Hand(by, "waiting", crule[r]))
           /\ q' = Pop(by, r) /\ UNCHANGED pod
<1> DEFINE w == Hand(by, "waiting", crule[r])
<1>1. /\ rule[r] \in Rule /\ crule[r] \in Rule /\ work[r] \in Handler
      /\ env.kind[r] \in Kinds /\ r \in Names
  BY RuleType
<1>2. w \in Handler /\ w.by = by
  BY <1>1, HandType
<1>3. /\ wait' = [wait EXCEPT ![r] = w] /\ q' = Pop(by, r) /\ WorkerFree(r, by)
      /\ UNCHANGED <<eip, rule, caches, pod, createdAt, work, eadd, eupd, env>>
  BY Zenon DEF WaitForLock, Hand
<1>4. work[r].by # by
  <2>1. SameCrd(r, r)
    BY <1>1 DEF SameCrd, IsFip, IsDnat, IsSnat, Kinds
  <2> QED
    BY <1>3, <2>1 DEF WorkerFree
<1> HIDE DEF w
<1>5. RuleSide /\ OneRule(r, rule[r], crule[r], work[r], w)
  BY <1>1, <1>2, <1>3, <1>4, SameAt, RuleStep, Zenon DEF caches
<1>6. TypeInv' /\ Static
  BY <1>3, <1>5, EipsStay, RuleSideTypes DEF caches
<1> QED
  BY <1>3, <1>5, <1>6 DEF w

LEMMA InVainStep ==
    ASSUME TypeInv, NEW r \in Rules, LockedInVain(r)
    PROVE  /\ TypeInv' /\ Static
           /\ OneRule(r, rule[r], crule[r], work[r], Idle)
           /\ q' = Push(wait[r].by, r) /\ UNCHANGED pod
<1>1. /\ rule[r] \in Rule /\ crule[r] \in Rule /\ work[r] \in Handler
      /\ Idle \in Handler /\ r \in Names
  BY RuleType
<1>2. /\ wait' = [wait EXCEPT ![r] = Idle] /\ q' = Push(wait[r].by, r)
      /\ UNCHANGED <<eip, rule, caches, pod, createdAt, work, eadd, eupd, env>>
  BY Zenon DEF LockedInVain
<1>3. work[r].by # "none" => work[r].by # Idle.by
  BY IdleIs
<1>4. RuleSide /\ OneRule(r, rule[r], crule[r], work[r], Idle)
  BY <1>1, <1>2, <1>3, SameAt, RuleStep, Zenon DEF caches
<1>5. TypeInv' /\ Static
  BY <1>2, <1>4, EipsStay, RuleSideTypes DEF caches
<1> QED
  BY <1>2, <1>4, <1>5, Zenon

\* The two ends of the first part of an add.
AddedNot(r, o, w) ==
    /\ ~o.here \/ (o.ready /\ o.v4ip # None)
    /\ OneRule(r, rule[r], crule[r], Idle, w)

AddedBound(r, o, w) ==
    /\ o.here
    /\ OneRule(r, Bound(r, rule[r]), crule[r], Hand("addRule", "bound", o), w)

LEMMA AddRuleStep ==
    ASSUME TypeInv, NEW r \in Rules, AddRule(r)
    PROVE  /\ TypeInv' /\ Static /\ UNCHANGED pod
           /\ \E o \in Rule, w \in Handler :
                 /\ Taken(r, "addRule", o, w)
                 /\ AddedNot(r, o, w) \/ AddedBound(r, o, w)
<1> DEFINE done(o) == ~o.here \/ (o.ready /\ o.v4ip # None)
<1>1. PICK o : /\ Locks(r, "addRule", o)
               /\ \/ done(o) /\ UNCHANGED <<rule, work>>
                  \/ /\ ~done(o)
                     /\ rule' = [rule EXCEPT ![r] = Bound(r, rule[r])]
                     /\ Start(r, "addRule", "bound", o)
               /\ UNCHANGED <<eip, caches, pod, createdAt, eadd, eupd, env>>
  BY Zenon DEF AddRule
<1>2. PICK w \in Handler :
         /\ Taken(r, "addRule", o, w) /\ wait' = [wait EXCEPT ![r] = w]
         /\ w.by # "addRule" /\ o \in Rule
  BY <1>1, TakenFacts
<1>3. /\ rule[r] \in Rule /\ Bound(r, rule[r]) \in Rule /\ Idle \in Handler
  BY RuleType, RuleOps, Zenon
<1>4. Hand("addRule", "bound", o) \in Handler /\ Hand("addRule", "bound", o).by = "addRule"
  BY <1>2, HandType
<1>5. CASE done(o) /\ UNCHANGED <<rule, work>>
  <2>1. work' = [work EXCEPT ![r] = Idle] /\ rule' = [rule EXCEPT ![r] = rule[r]]
    BY <1>2, <1>5, SameAt, Zenon DEF Taken
  <2>2. RuleSide /\ OneRule(r, rule[r], crule[r], Idle, w)
    BY <1>1, <1>2, <1>3, <2>1, IdleIs, TakenStep, Zenon DEF caches
  <2>3. TypeInv' /\ Static
    BY <1>1, <2>2, EipsStay, RuleSideTypes DEF caches
  <2> QED
    BY <1>1, <1>2, <1>5, <2>2, <2>3, Zenon DEF AddedNot
<1>6. CASE /\ ~done(o) /\ rule' = [rule EXCEPT ![r] = Bound(r, rule[r])]
           /\ Start(r, "addRule", "bound", o)
  <2>1. work' = [work EXCEPT ![r] = Hand("addRule", "bound", o)]
    BY <1>6, Zenon DEF Start, Hand
  <2>2. RuleSide /\ OneRule(r, Bound(r, rule[r]), crule[r], Hand("addRule", "bound", o), w)
    BY <1>1, <1>2, <1>3, <1>4, <1>6, <2>1, TakenStep, Zenon DEF caches
  <2>3. TypeInv' /\ Static
    BY <1>1, <2>2, EipsStay, RuleSideTypes DEF caches
  <2> QED
    BY <1>1, <1>2, <1>6, <2>2, <2>3, Zenon DEF AddedBound
<1> QED
  BY <1>1, <1>5, <1>6, Zenon

\* A step of the handler that has the lock of r.
LEMMA WorkStep ==
    ASSUME TypeInv, NEW r \in Rules, NEW n \in Rule, NEW h \in Handler,
           h.by \in {"none", work[r].by},
           rule' = [rule EXCEPT ![r] = n], work' = [work EXCEPT ![r] = h],
           UNCHANGED <<crule, wait>>,
           NEW x, NEW k \in Names, x = "addRule" => k = r,
           q' = q \/ q' = Push(x, k) \/ q' = Pop(x, k)
    PROVE  RuleSide /\ OneRule(r, n, crule[r], h, wait[r])
<1>1. crule[r] \in Rule /\ wait[r] \in Handler
  BY RuleType
<1>2. crule' = [crule EXCEPT ![r] = crule[r]] /\ wait' = [wait EXCEPT ![r] = wait[r]]
  BY SameAt, Zenon
<1>3. h.by # "none" => h.by # wait[r].by
  BY DEF TypeInv, LocksApart
<1> QED
  BY <1>1, <1>2, <1>3, RuleStep, Zenon

\* The handler of r gives up, and r goes back to its queue.
Requeued(r) ==
    /\ OneRule(r, rule[r], crule[r], Idle, wait[r])
    /\ q' = Push(work[r].by, r) /\ UNCHANGED pod

LEMMA RequeueStep ==
    ASSUME TypeInv, NEW r \in Rules, Requeue(r), UNCHANGED <<rule, crule, wait, pod>>
    PROVE  RuleSide /\ Requeued(r)
<1>1. rule[r] \in Rule /\ Idle \in Handler /\ r \in Names
  BY RuleType
<1>2. work' = [work EXCEPT ![r] = Idle] /\ q' = Push(work[r].by, r)
  BY DEF Requeue, Stop
<1>3. RuleSide /\ OneRule(r, rule[r], crule[r], Idle, wait[r])
  BY <1>1, <1>2, IdleIs, SameAt, WorkStep, Zenon
<1> QED
  BY <1>2, <1>3 DEF Requeued

\* The row of r is made as the version o says.
RowMade(r, e, i, o) == pod' = WithRow(env.kind[r], e, i, getShareBackends(r, o.eip))

LEMMA InstallRuleStep ==
    ASSUME TypeInv, NEW r \in Rules, InstallRule(r)
    PROVE  /\ TypeInv' /\ Static
           /\ At(r, "bound") \/ At(r, "cleared")
           /\ \/ Requeued(r)
              \/ /\ OneRule(r, rule[r], crule[r], Moved(r, "made"), wait[r])
                 /\ RowMade(r, work[r].obj.eip, work[r].obj.inner, work[r].obj)
                 /\ UNCHANGED q
<1> DEFINE o == work[r].obj
<1>1. /\ UNCHANGED <<eip, rule, caches, createdAt, wait, eadd, eupd, env>>
      /\ At(r, "bound") \/ At(r, "cleared")
      /\ \/ RowMade(r, o.eip, o.inner, o) /\ Goto(r, "made") /\ q' = q
         \/ Requeue(r) /\ pod' = pod
  BY Zenon DEF InstallRule, RowMade
<1>2. /\ rule[r] \in Rule /\ o \in Rule /\ env.kind[r] \in Kinds /\ r \in Names
  BY RuleType
<1>3. CASE Requeue(r) /\ pod' = pod
  <2>1. RuleSide /\ Requeued(r)
    BY <1>1, <1>3, RequeueStep DEF caches
  <2>2. TypeInv' /\ Static
    BY <1>1, <1>3, <2>1, EipsStay, RuleSideTypes DEF caches
  <2> QED
    BY <1>1, <2>1, <2>2, Zenon
<1>4. CASE RowMade(r, o.eip, o.inner, o) /\ Goto(r, "made") /\ q' = q
  <2>1. PodTypes' /\ SameTimes
    <3>1. o.eip \in Eips /\ o.inner \in Inners
      BY <1>2 DEF Rule
    <3>2. getShareBackends(r, o.eip) \in SUBSET Inners /\ PodTypes
      BY BackendsType DEF TypeInv
    <3> QED
      BY <1>2, <1>4, <3>1, <3>2, WithRowTypes, Zenon DEF RowMade
  <2>2. /\ Moved(r, "made") \in Handler /\ Moved(r, "made").by = work[r].by
        /\ work' = [work EXCEPT ![r] = Moved(r, "made")]
    BY <1>4, MovedType
  <2>3. RuleSide /\ OneRule(r, rule[r], crule[r], Moved(r, "made"), wait[r])
    BY <1>1, <1>2, <1>4, <2>2, SameAt, WorkStep, Zenon DEF caches
  <2>4. TypeInv' /\ Static
    BY <1>1, <2>1, <2>3, EipsStay, RuleSideTypes, Zenon DEF caches
  <2> QED
    BY <1>1, <1>4, <2>3, <2>4, Zenon
<1> QED
  BY <1>1, <1>3, <1>4, Zenon

LEMMA ShowRuleStep ==
    ASSUME TypeInv, NEW r \in Rules, ShowRule(r)
    PROVE  /\ TypeInv' /\ Static /\ UNCHANGED <<pod, q>> /\ At(r, "made")
           /\ OneRule(r, PatchedStatus(r, work[r].obj.eip, 0, TRUE), crule[r],
                      Moved(r, "shown"), wait[r])
<1> DEFINE n == PatchedStatus(r, work[r].obj.eip, 0, TRUE)
<1>1. /\ UNCHANGED <<eip, caches, pod, createdAt, q, wait, eadd, eupd, env>>
      /\ At(r, "made") /\ rule' = [rule EXCEPT ![r] = n] /\ Goto(r, "shown")
  BY Zenon DEF ShowRule
<1>2. n \in Rule
  <2>1. work[r].obj.eip \in Eips
    BY RuleType, Zenon DEF Rule
  <2> QED
    BY <2>1, PatchedType, Zenon DEF TypeInv
<1>3. /\ Moved(r, "shown") \in Handler /\ Moved(r, "shown").by = work[r].by
      /\ work' = [work EXCEPT ![r] = Moved(r, "shown")] /\ r \in Names
  BY <1>1, MovedType, RuleType, Zenon
<1> HIDE DEF n
<1>4. RuleSide /\ OneRule(r, n, crule[r], Moved(r, "shown"), wait[r])
  BY <1>1, <1>2, <1>3, WorkStep, Zenon DEF caches
<1>5. TypeInv' /\ Static
  BY <1>1, <1>4, EipsStay, RuleSideTypes, Zenon DEF caches
<1> QED
  BY <1>1, <1>4, <1>5, Zenon DEF n

\* The rule with the label of its EIP.
LabelledRule(r) ==
    IF rule[r].here THEN [rule[r] EXCEPT !.label = work[r].obj.eip] ELSE rule[r]

LEMMA LabelRuleStep ==
    ASSUME TypeInv, NEW r \in Rules, LabelRule(r)
    PROVE  /\ TypeInv' /\ Static /\ At(r, "shown")
           /\ \/ Requeued(r)
              \/ /\ OneRule(r, LabelledRule(r), crule[r], Moved(r, "labelled"), wait[r])
                 /\ UNCHANGED <<pod, q>>
<1>1. rule[r] \in Rule /\ work[r].obj.eip \in Eips /\ r \in Names
  BY RuleType, Zenon DEF Rule
<1>2. LabelledRule(r) \in Rule
  BY <1>1, Zenon DEF LabelledRule, Rule
<1>3. /\ UNCHANGED <<eip, caches, pod, createdAt, wait, eadd, eupd, env>>
      /\ At(r, "shown")
      /\ \/ Requeue(r) /\ rule' = rule
         \/ /\ rule' = [rule EXCEPT ![r] = LabelledRule(r)]
            /\ Goto(r, "labelled") /\ q' = q
  <2>1. rule[r].here => [rule EXCEPT ![r].label = work[r].obj.eip]
                          = [rule EXCEPT ![r] = LabelledRule(r)]
    BY DEF LabelledRule, TypeInv, RuleTypes
  <2>2. ~rule[r].here => rule = [rule EXCEPT ![r] = LabelledRule(r)]
    BY DEF LabelledRule, TypeInv, RuleTypes
  <2> QED
    BY <2>1, <2>2, Zenon DEF LabelRule
<1>4. CASE Requeue(r) /\ rule' = rule
  <2>1. RuleSide /\ Requeued(r)
    BY <1>3, <1>4, RequeueStep DEF caches
  <2>2. TypeInv' /\ Static
    BY <1>3, <2>1, EipsStay, RuleSideTypes DEF caches
  <2> QED
    BY <1>3, <2>1, <2>2, Zenon
<1>5. CASE /\ rule' = [rule EXCEPT ![r] = LabelledRule(r)]
           /\ Goto(r, "labelled") /\ q' = q
  <2>1. /\ Moved(r, "labelled") \in Handler /\ Moved(r, "labelled").by = work[r].by
        /\ work' = [work EXCEPT ![r] = Moved(r, "labelled")]
    BY <1>5, MovedType
  <2>2. RuleSide /\ OneRule(r, LabelledRule(r), crule[r], Moved(r, "labelled"), wait[r])
    BY <1>1, <1>2, <1>3, <1>5, <2>1, WorkStep, Zenon DEF caches
  <2>3. TypeInv' /\ Static
    BY <1>3, <2>2, EipsStay, RuleSideTypes DEF caches
  <2> QED
    BY <1>3, <1>5, <2>2, <2>3, Zenon
<1> QED
  BY <1>3, <1>4, <1>5, Zenon

LEMMA RefreshEipStep ==
    ASSUME TypeInv, NEW r \in Rules, RefreshEip(r)
    PROVE  /\ TypeInv' /\ Static /\ UNCHANGED pod /\ At(r, "labelled")
           /\ q'["addRule"] = q["addRule"]
           /\ \E n \in {rule[r], Bound(r, rule[r])} :
                 OneRule(r, n, crule[r], Idle, wait[r])
<1> DEFINE o == work[r].obj
<1>1. /\ rule[r] \in Rule /\ o.eip \in Eips /\ o.label \in Eips \cup {None}
      /\ Idle \in Handler /\ Bound(r, rule[r]) \in Rule
  <2>1. rule[r] \in Rule /\ o \in Rule /\ Idle \in Handler /\ NoRule \in Rule
    BY RuleType
  <2> QED
    BY <2>1, RuleOps, Zenon DEF Rule
<1>2. /\ UNCHANGED <<caches, pod, createdAt, wait, eadd, eupd, env>>
      /\ At(r, "labelled") /\ work' = [work EXCEPT ![r] = Idle]
      /\ eip' = [eip EXCEPT ![o.eip] = patchEipStatus(o.eip, 0, TRUE)]
      /\ rule' = rule \/ rule' = [rule EXCEPT ![r] = Bound(r, rule[r])]
      /\ q' = q \/ \E e \in Eips : q' = Push("resetEip", e)
  BY <1>1, Zenon DEF RefreshEip, Stop
<1>3. EipTypes'
  <2>1. patchEipStatus(o.eip, 0, TRUE) \in Eip
    BY <1>1, PatchedEipType, Zenon DEF TypeInv
  <2>2. ceip[o.eip] \in Eip /\ eadd[o.eip] \in EipHandlers
    BY <1>1, EipType
  <2> HIDE DEF o
  <2> QED
    BY <1>1, <1>2, <2>1, <2>2, EipStep, Zenon DEF caches
<1>4. PICK n \in {rule[r], Bound(r, rule[r])} : rule' = [rule EXCEPT ![r] = n]
  BY <1>2, SameAt, Zenon
<1>5. PICK e \in Names : q' = q \/ q' = Push("resetEip", e)
  BY <1>1, <1>2, Zenon DEF Names
<1>6. RuleSide /\ OneRule(r, n, crule[r], Idle, wait[r])
  <2>1. n \in Rule /\ Idle \in Handler /\ Idle.by \in {"none", work[r].by}
    BY <1>1, <1>4, IdleIs
  <2>2. UNCHANGED <<crule, wait>> /\ work' = [work EXCEPT ![r] = Idle]
    BY <1>2 DEF caches
  <2>3. "resetEip" = "addRule" => e = r
    OBVIOUS
  <2> QED
    BY <1>4, <1>5, <2>1, <2>2, <2>3, WorkStep, Zenon
<1>7. TypeInv' /\ Static
  BY <1>2, <1>3, <1>6, EipsStay, RuleSideTypes, Zenon DEF caches
<1>8. q'["addRule"] = q["addRule"]
  BY <1>2 DEF TypeInv, QueueTypes, Queues, Push
<1> QED
  BY <1>2, <1>6, <1>7, <1>8, Zenon

\* The rows of r leave the pods as the version o says.
RowsGone(r, o) == pod' = WithoutRows(env.kind[r], Targets(o), getShareBackends(r, o.eip))

LEMMA RowsGoneTypes ==
    ASSUME TypeInv, NEW r \in Rules, NEW o \in Rule, RowsGone(r, o)
    PROVE  PodTypes' /\ SameTimes
<1>1. /\ Targets(o) \in SUBSET (Eips \X Inners) /\ env.kind[r] \in Kinds
      /\ getShareBackends(r, o.eip) \in SUBSET Inners /\ PodTypes
  BY TargetsType, RuleType, BackendsType, Zenon DEF TypeInv
<1> QED
  BY <1>1, WithoutRowsTypes DEF RowsGone

LEMMA RemoveRuleStep ==
    ASSUME TypeInv, NEW r \in Rules, RemoveRule(r)
    PROVE  /\ TypeInv' /\ Static
           /\ \E o \in Rule, w \in Handler :
                 /\ Taken(r, "updRule", o, w) /\ o.here /\ o.term
                 /\ OneRule(r, rule[r], crule[r], Hand("updRule", "gone", o), w)
                 /\ RowsGone(r, o)
<1>1. PICK o : /\ Locks(r, "updRule", o) /\ o.here /\ o.term
               /\ RowsGone(r, o)
               /\ work' = [work EXCEPT ![r] = Hand("updRule", "gone", o)]
               /\ UNCHANGED <<eip, rule, caches, createdAt, eadd, eupd, env>>
  BY Zenon DEF RemoveRule, FinalDeleted, RowsGone, Start, Hand
<1>2. PICK w \in Handler :
         /\ Taken(r, "updRule", o, w) /\ wait' = [wait EXCEPT ![r] = w]
         /\ w.by # "updRule" /\ o \in Rule
  BY <1>1, TakenFacts
<1>3. /\ rule[r] \in Rule
      /\ Hand("updRule", "gone", o) \in Handler /\ Hand("updRule", "gone", o).by = "updRule"
  BY <1>2, RuleType DEF Hand, Handler
<1>4. rule' = [rule EXCEPT ![r] = rule[r]] /\ UNCHANGED crule
  BY <1>1, SameAt, Zenon DEF caches
<1>5. RuleSide /\ OneRule(r, rule[r], crule[r], Hand("updRule", "gone", o), w)
  BY <1>1, <1>2, <1>3, <1>4, TakenStep, Zenon
<1>6. PodTypes' /\ SameTimes
  BY <1>1, <1>2, RowsGoneTypes
<1>7. TypeInv' /\ Static
  BY <1>1, <1>5, <1>6, EipsStay, RuleSideTypes, Zenon DEF caches
<1> QED
  BY <1>1, <1>2, <1>5, <1>7, Zenon

\* The rule without its finalizer.
ReleasedRule(r) ==
    IF crule[r].here /\ crule[r].fin /\ rule[r].here
    THEN Unfinalized(rule[r], NoRule) ELSE rule[r]

LEMMA ReleaseRuleStep ==
    ASSUME TypeInv, NEW r \in Rules, ReleaseRule(r)
    PROVE  /\ TypeInv' /\ Static /\ UNCHANGED pod /\ At(r, "gone")
           /\ q'["addRule"] = q["addRule"]
           /\ OneRule(r, ReleasedRule(r), crule[r], Idle, wait[r])
<1>1. /\ rule[r] \in Rule /\ work[r].obj.eip \in Names /\ Idle \in Handler
      /\ ReleasedRule(r) \in Rule
  <2>1. rule[r] \in Rule /\ work[r].obj \in Rule /\ Idle \in Handler /\ NoRule \in Rule
    BY RuleType
  <2>2. Unfinalized(rule[r], NoRule) \in Rule
    BY <2>1, RuleOps, Zenon
  <2>3. ReleasedRule(r) \in Rule
    BY <2>1, <2>2 DEF ReleasedRule
  <2>4. work[r].obj.eip \in Names
    BY <2>1 DEF Rule, Names
  <2> QED
    BY <2>1, <2>3, <2>4
<1>2. /\ UNCHANGED <<eip, caches, pod, createdAt, wait, eadd, eupd, env>>
      /\ At(r, "gone") /\ work' = [work EXCEPT ![r] = Idle]
      /\ q' = Push("resetEip", work[r].obj.eip)
      /\ \/ ReleasedRule(r) = rule[r] /\ rule' = rule
         \/ rule' = [rule EXCEPT ![r] = ReleasedRule(r)]
  BY Zenon DEF ReleaseRule, ReleasedRule, Stop
<1>3. rule' = [rule EXCEPT ![r] = ReleasedRule(r)]
  BY <1>2, SameAt, Zenon
<1>4. RuleSide /\ OneRule(r, ReleasedRule(r), crule[r], Idle, wait[r])
  <2>1. UNCHANGED <<crule, wait>> /\ Idle.by \in {"none", work[r].by}
    BY <1>2, IdleIs DEF caches
  <2>2. "resetEip" = "addRule" => work[r].obj.eip = r
    OBVIOUS
  <2> QED
    BY <1>1, <1>2, <1>3, <2>1, <2>2, WorkStep, Zenon
<1>5. TypeInv' /\ Static
  BY <1>2, <1>4, EipsStay, RuleSideTypes, Zenon DEF caches
<1>6. q'["addRule"] = q["addRule"]
  BY <1>2 DEF TypeInv, QueueTypes, Queues, Push
<1> QED
  BY <1>2, <1>4, <1>5, <1>6, Zenon

LEMMA ChangeRuleTypes ==
    ASSUME TypeInv, NEW r \in Rules, ChangeRule(r)
    PROVE  TypeInv'
<1> DEFINE n == PatchedStatus(r, None, 0, FALSE)
<1>1. PICK o : /\ Locks(r, "updRule", o)
               /\ rule' = rule \/ rule' = [rule EXCEPT ![r] = n]
               /\ work' = [work EXCEPT ![r] = Hand("updRule", "marked", o)]
               /\ UNCHANGED <<eip, caches, pod, createdAt, eadd, eupd, env>>
  BY Zenon DEF ChangeRule, Start, Hand
<1>2. PICK w \in Handler :
         /\ Taken(r, "updRule", o, w) /\ wait' = [wait EXCEPT ![r] = w]
         /\ w.by # "updRule" /\ o \in Rule
  BY <1>1, TakenFacts
<1>3. /\ rule[r] \in Rule
      /\ Hand("updRule", "marked", o) \in Handler
      /\ Hand("updRule", "marked", o).by = "updRule"
  BY <1>2, RuleType DEF Hand, Handler
<1>4. n \in Rule
  BY PatchedType, Zenon DEF TypeInv
<1> HIDE DEF n
<1>5. PICK m \in {n, rule[r]} : rule' = [rule EXCEPT ![r] = m]
  BY <1>1, SameAt, Zenon
<1>6. RuleSide /\ OneRule(r, m, crule[r], Hand("updRule", "marked", o), w)
  <2>1. m \in Rule /\ UNCHANGED crule
    BY <1>1, <1>3, <1>4, <1>5 DEF caches
  <2> QED
    BY <1>1, <1>2, <1>3, <1>5, <2>1, TakenStep, Zenon
<1> QED
  BY <1>1, <1>6, EipsStay, RuleSideTypes DEF caches

LEMMA ClearRuleTypes ==
    ASSUME TypeInv, NEW r \in Rules, ClearRule(r)
    PROVE  TypeInv'
<1>1. /\ UNCHANGED <<eip, rule, caches, createdAt, wait, eadd, eupd, env>>
      /\ \/ RowsGone(r, work[r].obj) /\ Goto(r, "cleared") /\ q' = q
         \/ Requeue(r) /\ pod' = pod
  BY Zenon DEF ClearRule, FinalDeleted, RowsGone
<1>2. rule[r] \in Rule /\ work[r].obj \in Rule /\ r \in Names
  BY RuleType
<1>3. CASE Requeue(r) /\ pod' = pod
  <2>1. RuleSide
    BY <1>1, <1>3, RequeueStep DEF caches
  <2> QED
    BY <1>1, <1>3, <2>1, EipsStay, RuleSideTypes DEF caches
<1>4. CASE RowsGone(r, work[r].obj) /\ Goto(r, "cleared") /\ q' = q
  <2>1. PodTypes' /\ SameTimes
    BY <1>2, <1>4, RowsGoneTypes, Zenon
  <2>2. /\ Moved(r, "cleared") \in Handler /\ Moved(r, "cleared").by = work[r].by
        /\ work' = [work EXCEPT ![r] = Moved(r, "cleared")]
    BY <1>4, MovedType
  <2>3. RuleSide /\ OneRule(r, rule[r], crule[r], Moved(r, "cleared"), wait[r])
    BY <1>1, <1>2, <1>4, <2>2, SameAt, WorkStep, Zenon DEF caches
  <2> QED
    BY <1>1, <2>1, <2>3, EipsStay, RuleSideTypes, Zenon DEF caches
<1> QED
  BY <1>1, <1>3, <1>4

LEMMA RedoRuleStep ==
    ASSUME TypeInv, NEW r \in Rules, RedoRule(r)
    PROVE  /\ TypeInv' /\ Static
           /\ \E o \in Rule, w \in Handler :
                 /\ Taken(r, "updRule", o, w) /\ Kept(o) /\ Complete(o)
                 /\ OneRule(r, rule[r], crule[r], Hand("updRule", "redone", o), w)
                 /\ RowMade(r, o.v4ip, o.in, o)
<1>1. PICK o : /\ Locks(r, "updRule", o) /\ Kept(o) /\ Complete(o)
               /\ RowMade(r, o.v4ip, o.in, o)
               /\ work' = [work EXCEPT ![r] = Hand("updRule", "redone", o)]
               /\ UNCHANGED <<eip, rule, caches, createdAt, eadd, eupd, env>>
  BY Zenon DEF RedoRule, RowMade, Start, Hand
<1>2. PICK w \in Handler :
         /\ Taken(r, "updRule", o, w) /\ wait' = [wait EXCEPT ![r] = w]
         /\ w.by # "updRule" /\ o \in Rule
  BY <1>1, TakenFacts
<1>3. /\ rule[r] \in Rule /\ env.kind[r] \in Kinds
      /\ Hand("updRule", "redone", o) \in Handler
      /\ Hand("updRule", "redone", o).by = "updRule"
  BY <1>2, RuleType, Zenon DEF Hand, Handler
<1>4. rule' = [rule EXCEPT ![r] = rule[r]] /\ UNCHANGED crule
  BY <1>1, SameAt, Zenon DEF caches
<1>5. RuleSide /\ OneRule(r, rule[r], crule[r], Hand("updRule", "redone", o), w)
  BY <1>1, <1>2, <1>3, <1>4, TakenStep, Zenon
<1>6. PodTypes' /\ SameTimes
  <2>1. o.v4ip \in Eips /\ o.in \in Inners
    BY <1>1, <1>2 DEF Complete, Rule
  <2>2. getShareBackends(r, o.eip) \in SUBSET Inners /\ PodTypes
    BY BackendsType DEF TypeInv
  <2> QED
    BY <1>1, <1>3, <2>1, <2>2, WithRowTypes, Zenon DEF RowMade
<1>7. TypeInv' /\ Static
  BY <1>1, <1>5, <1>6, EipsStay, RuleSideTypes, Zenon DEF caches
<1> QED
  BY <1>1, <1>2, <1>5, <1>7, Zenon

LEMMA ShowRedoneStep ==
    ASSUME TypeInv, NEW r \in Rules, ShowRedone(r)
    PROVE  /\ TypeInv' /\ Static /\ UNCHANGED <<pod, q>> /\ At(r, "redone")
           /\ OneRule(r, Bound(r, PatchedStatus(r, None, 0, TRUE)), crule[r],
                      Idle, wait[r])
<1> DEFINE n == Bound(r, PatchedStatus(r, None, 0, TRUE))
<1>1. /\ UNCHANGED <<eip, caches, pod, createdAt, q, wait, eadd, eupd, env>>
      /\ At(r, "redone") /\ rule' = [rule EXCEPT ![r] = n]
      /\ work' = [work EXCEPT ![r] = Idle]
  BY Zenon DEF ShowRedone, Stop
<1>2. PatchedStatus(r, None, 0, TRUE) \in Rule
  BY PatchedType, Zenon DEF TypeInv
<1>3. n \in Rule /\ Idle \in Handler /\ r \in Names
  BY <1>2, RuleType, RuleOps, Zenon
<1> HIDE DEF n
<1>4. RuleSide /\ OneRule(r, n, crule[r], Idle, wait[r])
  BY <1>1, <1>3, IdleIs, WorkStep, Zenon DEF caches
<1>5. TypeInv' /\ Static
  BY <1>1, <1>4, EipsStay, RuleSideTypes, Zenon DEF caches
<1> QED
  BY <1>1, <1>4, <1>5, Zenon DEF n

LEMMA KeepRuleStep ==
    ASSUME TypeInv, NEW r \in Rules, KeepRule(r)
    PROVE  /\ TypeInv' /\ Static /\ UNCHANGED pod
           /\ \E o \in Rule, w \in Handler, n \in {rule[r], Bound(r, rule[r])} :
                 /\ Taken(r, "updRule", o, w)
                 /\ OneRule(r, n, crule[r], Idle, w)
<1>1. PICK o : /\ Locks(r, "updRule", o)
               /\ rule' = rule \/ rule' = [rule EXCEPT ![r] = Bound(r, rule[r])]
               /\ UNCHANGED <<eip, caches, pod, createdAt, work, eadd, eupd, env>>
  BY Zenon DEF KeepRule
<1>2. PICK w \in Handler :
         /\ Taken(r, "updRule", o, w) /\ wait' = [wait EXCEPT ![r] = w]
         /\ w.by # "updRule" /\ o \in Rule
  BY <1>1, TakenFacts
<1>3. PICK n \in {rule[r], Bound(r, rule[r])} : rule' = [rule EXCEPT ![r] = n]
  BY <1>1, SameAt
<1>4. n \in Rule /\ Idle \in Handler
  BY <1>3, RuleType, RuleOps, Zenon
<1>5. work' = [work EXCEPT ![r] = Idle] /\ UNCHANGED crule
  BY <1>1, <1>2, SameAt, Zenon DEF Taken, caches
<1>6. RuleSide /\ OneRule(r, n, crule[r], Idle, w)
  BY <1>2, <1>3, <1>4, <1>5, IdleIs, TakenStep, Zenon
<1>7. TypeInv' /\ Static
  BY <1>1, <1>6, EipsStay, RuleSideTypes DEF caches
<1> QED
  BY <1>1, <1>2, <1>3, <1>6, <1>7

LEMMA FailRuleStep ==
    ASSUME TypeInv, NEW r \in Rules, FailRule(r)
    PROVE  TypeInv' /\ Static /\ Requeued(r)
<1>1. /\ env.fails > 0 /\ env' = [env EXCEPT !.fails = @ - 1]
      /\ Requeue(r)
      /\ UNCHANGED <<eip, rule, caches, pod, createdAt, wait, eadd, eupd>>
  BY DEF FailRule
<1>2. RuleSide /\ Requeued(r)
  BY <1>1, RequeueStep DEF caches
<1>3. env \in Scenario /\ env.fails - 1 \in Nat
  BY <1>1 DEF TypeInv, Scenario
<1>4. env' \in Scenario
  BY <1>1, <1>3, Zenon DEF Scenario
<1>5. Static
  BY <1>1, <1>3 DEF Static, Scenario
<1>6. TypeInv'
  BY <1>1, <1>2, <1>4, EipsStay, RuleSideTypes DEF caches
<1> QED
  BY <1>2, <1>5, <1>6

-----------------------------------------------------------------------------
(* Sweeps, restarts and crashes *)

\* What a sweep of g does to a rule.
Swept(r, g) ==
    \/ rule'[r] = rule[r]
    \/ /\ crule[r].here /\ crule[r].label # None
       /\ rule'[r] = PatchedStatus(r, None, initCreateAt(g), FALSE)

LEMMA SweepStep ==
    ASSUME TypeInv, NEW g \in Gws, NEW x \in Queues \ {"addRule"},
           NEW S \in SUBSET Rules, Sweep(x, g, S)
    PROVE  /\ TypeInv' /\ Static /\ UNCHANGED <<crule, work, wait, pod>>
           /\ q'["addRule"] = q["addRule"]
           /\ \A r \in Rules : Swept(r, g)
<1> DEFINE t == initCreateAt(g)
           marked == {r \in S : /\ crule[r].here
                                /\ crule[r].label # None
                                /\ GwOf[crule[r].label] = g
                                /\ crule[r].redo # t}
<1>1. t \in Nat /\ Past(t) /\ g \in Names
  BY SweepTime, PodType
<1>2. /\ createdAt' = t
      /\ eip' = [e \in Eips |-> IF \E r \in marked : crule[r].eip = e
                                THEN patchEipStatus(e, t, FALSE) ELSE eip[e]]
      /\ rule' = [r \in Rules |-> IF r \in marked
                                  THEN PatchedStatus(r, None, t, FALSE)
                                  ELSE rule[r]]
      /\ q' = Pop(x, g)
      /\ UNCHANGED <<caches, pod, workers, env>>
  BY Zenon DEF Sweep
<1>3. \A r \in marked : crule[r].here /\ crule[r].label # None
  OBVIOUS
<1> HIDE DEF marked, t
<1>4. \A e \in Eips : patchEipStatus(e, t, FALSE) \in Eip /\ eip[e] \in Eip
  BY <1>1, PatchedEipType, EipType, Zenon DEF TypeInv
<1>5. EipTypes'
  BY <1>2, <1>4, Zenon DEF TypeInv, EipTypes, caches, workers
<1>6. \A r \in Rules : PatchedStatus(r, None, t, FALSE) \in Rule /\ rule[r] \in Rule
  BY <1>1, PatchedType, RuleType, Zenon DEF TypeInv
<1>7. RuleTypes' /\ LocksApart'
  BY <1>2, <1>6, Zenon DEF TypeInv, RuleTypes, LocksApart, caches, workers
<1>8. QueueAside
  BY <1>1, <1>2, QueueStep, Zenon
<1>9. TimeTypes' /\ PodTypes' /\ env' \in Scenario /\ Static
  <2>1. PodTypes' /\ SameTimes /\ env' \in Scenario /\ Static
    BY <1>2, EipsStay, Zenon
  <2>2. TimeAside
    BY <1>1, <1>2, Zenon DEF TimeAside
  <2>3. TimeTypes'
    BY <2>1, <2>2, TimesKept DEF TypeInv, TimeTypes, TimeAside
  <2> QED
    BY <2>1, <2>3
<1>10. TypeInv'
  BY <1>5, <1>7, <1>8, <1>9, Zenon DEF TypeInv, QueueAside
<1>11. \A r \in Rules : Swept(r, g)
  BY <1>2, <1>3, Zenon DEF Swept, t
<1> QED
  BY <1>2, <1>8, <1>9, <1>10, <1>11, Zenon DEF QueueAside, caches, workers

LEMMA RestartStep ==
    ASSUME TypeInv, NEW g \in Gws, Restart(g)
    PROVE  /\ TypeInv' /\ Static /\ UNCHANGED <<rule, crule, work, wait>>
           /\ q'["addRule"] = q["addRule"]
           /\ \A r \in Rules : work[r] = Idle
           /\ pod'[g].rows = {} /\ pod'[g].created \in Nat
           /\ pod'[g].created > Now /\ pod'[g].created > 1
           /\ \A h \in Gws \ {g} : pod'[h] = pod[h]
           /\ \A t \in Nat : Past(t) => Past(t)' /\ t # pod'[g].created
<1> DEFINE p == NewPod(Now + 1)
<1>1. /\ env.restarts > 0 /\ env' = [env EXCEPT !.restarts = @ - 1]
      /\ \A r \in Rules : work[r] = Idle
      /\ pod' = [pod EXCEPT ![g] = p] /\ q' = Push("init", g)
      /\ UNCHANGED <<eip, rule, caches, createdAt, workers>>
  BY DEF Restart
<1>2. /\ Now \in Nat \ {0}
      /\ \A h \in Gws : pod[h].created <= Now /\ pod[h].created \in Nat
      /\ pod \in [Gws -> Pod] /\ g \in Names
  BY LastPod, PodType, Zenon DEF TypeInv, TimeTypes, PodTypes
<1>3. p \in Pod /\ p.rows = {} /\ p.created = Now + 1
  BY <1>2 DEF NewPod, Pod, Rows
<1> HIDE DEF p
<1>4. pod' \in [Gws -> Pod] /\ pod'[g] = p /\ \A h \in Gws \ {g} : pod'[h] = pod[h]
  BY <1>1, <1>2, <1>3
<1>5. PodTypes'
  <2>1. \A h \in Gws : \A w \in pod'[h].rows : FullRow(w)
    BY <1>3, <1>4 DEF TypeInv, PodTypes
  <2> QED
    BY <1>4, <2>1 DEF PodTypes, FullRow
<1>6. \A h \in Gws : pod'[h].created <= Now + 1
  BY <1>2, <1>3, <1>4
<1>7. Bounded'
  BY <1>3, <1>4, <1>6 DEF Bounded
<1>8. \A t \in Nat : Past(t) => t <= Now
  BY <1>2 DEF Past
<1>9. \A t \in Nat : Past(t) => Past(t)' /\ t # pod'[g].created
  BY <1>2, <1>3, <1>4, <1>8 DEF Past
<1>10. TimeTypes'
  <2>1. createdAt \in Nat /\ Past(createdAt) /\ createdAt' = createdAt
    BY <1>1 DEF TypeInv, TimeTypes
  <2> QED
    BY <1>7, <1>9, <2>1 DEF TimeTypes
<1>11. QueueAside
  BY <1>1, <1>2, QueueStep DEF Queues
<1>12. env' \in Scenario /\ Static
  <2>1. env \in Scenario /\ env.restarts - 1 \in Nat
    BY <1>1 DEF TypeInv, Scenario
  <2>2. env' \in Scenario
    BY <1>1, <2>1, Zenon DEF Scenario
  <2>3. Static
    BY <1>1, <2>1 DEF Static, Scenario
  <2> QED
    BY <2>2, <2>3
<1>13. EipTypes' /\ RuleTypes' /\ LocksApart'
  BY <1>1 DEF TypeInv, EipTypes, RuleTypes, LocksApart, caches, workers
<1>14. TypeInv'
  BY <1>5, <1>10, <1>11, <1>12, <1>13 DEF TypeInv, QueueAside
<1>15. pod'[g].created \in Nat /\ pod'[g].created > Now /\ pod'[g].created > 1
  BY <1>2, <1>3, <1>4
<1>16. UNCHANGED <<rule, crule, work, wait>>
  BY <1>1 DEF caches, workers
<1> QED
  BY <1>1, <1>3, <1>4, <1>9, <1>11, <1>12, <1>14, <1>15, <1>16 DEF QueueAside

LEMMA CrashStep ==
    ASSUME TypeInv, Crash
    PROVE  /\ TypeInv' /\ Static /\ UNCHANGED <<rule, pod>>
           /\ \A r \in Rules : /\ crule'[r] = rule[r]
                               /\ work'[r] = Idle /\ wait'[r] = Idle
                               /\ r \in q'["addRule"] <=> Kept(rule[r])
<1>1. /\ env.crashes > 0 /\ env' = [env EXCEPT !.crashes = @ - 1]
      /\ ceip' = eip /\ crule' = rule /\ createdAt' = 0
      /\ q' = initVpcNatGw
      /\ work' = [r \in Rules |-> Idle] /\ wait' = [r \in Rules |-> Idle]
      /\ eadd' = [e \in Eips |-> NoHandler] /\ eupd' = [e \in Eips |-> NoHandler]
      /\ UNCHANGED <<eip, rule, pod>>
  BY DEF Crash
<1>2. EipTypes'
  BY <1>1, NoEipType DEF TypeInv, EipTypes
<1>3. RuleTypes' /\ LocksApart'
  <2>1. \A r \in Rules : Idle \in Handler
    BY RuleType
  <2>2. RuleTypes'
    BY <1>1, <2>1 DEF TypeInv, RuleTypes
  <2>3. LocksApart'
    BY <1>1, IdleIs DEF LocksApart
  <2> QED
    BY <2>2, <2>3
<1>4. PodTypes' /\ SameTimes
  BY <1>1, EipsStay
<1>5. TimeTypes'
  <2>1. Bounded'
    BY <1>4, TimesKept DEF TypeInv, TimeTypes
  <2>2. \A g \in Gws : pod'[g].created \in Nat
    BY <1>1, PodType
  <2>3. Past(0)'
    BY <2>2, NatGatewayAssumption DEF Past
  <2> QED
    BY <1>1, <2>1, <2>3 DEF TimeTypes
<1>6. QueueTypes'
  <2>1. \A x \in Queues : initVpcNatGw[x] \in SUBSET (Eips \cup Rules \cup Gws)
    BY DEF initVpcNatGw, Queues
  <2>2. initVpcNatGw = [x \in Queues |-> initVpcNatGw[x]]
    BY DEF initVpcNatGw
  <2> QED
    BY <1>1, <2>1, <2>2 DEF QueueTypes
<1>7. env' \in Scenario /\ Static
  <2>1. env \in Scenario /\ env.crashes - 1 \in Nat
    BY <1>1 DEF TypeInv, Scenario
  <2>2. env' \in Scenario
    BY <1>1, <2>1, Zenon DEF Scenario
  <2>3. Static
    BY <1>1, <2>1 DEF Static, Scenario
  <2> QED
    BY <2>2, <2>3
<1>8. \A r \in Rules : r \in q'["addRule"] <=> Kept(rule[r])
  BY <1>1 DEF initVpcNatGw, Queues
<1>9. TypeInv'
  BY <1>2, <1>3, <1>4, <1>5, <1>6, <1>7 DEF TypeInv
<1> QED
  BY <1>1, <1>7, <1>8, <1>9

-----------------------------------------------------------------------------
(* The initial states *)

\* How the rules and pods of a behaviour start.
LEMMA InitFacts ==
    ASSUME Init
    PROVE  /\ TypeInv
           /\ env \in Scenarios
           /\ \A r \in Rules :
                 /\ crule[r] = rule[r] /\ work[r] = Idle /\ wait[r] = Idle
                 /\ r \notin q["addRule"]
                 /\ r \notin env.there => rule[r] = NoRule
                 /\ r \in env.there =>
                       /\ ~env.fresh
                       /\ rule[r] = [NewRule(env.at[r], env.inner[r]) EXCEPT
                                       !.fin = TRUE, !.label = env.at[r],
                                       !.v4ip = env.at[r], !.in = env.inner[r],
                                       !.ready = TRUE]
           /\ \A g \in Gws :
                 pod[g].rows =
                   {Row(env.kind[r], env.at[r],
                        IF env.kind[r] = "share"
                        THEN {env.inner[t] :
                                t \in {u \in {v \in Rules \cap env.there :
                                                env.at[v] = env.at[r]} :
                                         env.kind[u] = "share"}}
                        ELSE {env.inner[r]}) :
                      r \in {u \in Rules \cap env.there : GwOf[env.at[u]] = g}}
<1> DEFINE on(e) == {r \in Rules \cap env.there : env.at[r] = e}
           backends(r) == IF env.kind[r] = "share"
                          THEN {env.inner[t] : t \in {u \in on(env.at[r]) :
                                                        env.kind[u] = "share"}}
                          ELSE {env.inner[r]}
           rows(g) == {Row(env.kind[r], env.at[r], backends(r)) :
                         r \in {u \in Rules \cap env.there : GwOf[env.at[u]] = g}}
           made(r) == [NewRule(env.at[r], env.inner[r]) EXCEPT
                         !.fin = TRUE, !.label = env.at[r],
                         !.v4ip = env.at[r], !.in = env.inner[r],
                         !.ready = TRUE]
           there(e) == [here |-> TRUE, term |-> FALSE, fin |-> TRUE,
                        spec |-> TRUE, ip |-> TRUE, ready |-> TRUE,
                        redo |-> 0, nat |-> {env.kind[r] : r \in on(e)}]
           old(g) == [NewPod(1) EXCEPT
                        !.started = 1, !.chains = TRUE, !.hasInit = TRUE,
                        !.eips = {e \in Eips \cap env.there : GwOf[e] = g},
                        !.rows = rows(g)]
<1>1. /\ env \in Scenarios
      /\ eip = [e \in Eips |-> IF e \in env.there THEN there(e) ELSE NoEip]
      /\ rule = [r \in Rules |-> IF r \in env.there THEN made(r) ELSE NoRule]
      /\ pod = [g \in Gws |-> IF env.fresh THEN NewPod(1) ELSE old(g)]
      /\ createdAt = (IF env.fresh THEN 0 ELSE 1)
      /\ q = [x \in Queues |-> IF x = "init" /\ env.fresh THEN Gws ELSE {}]
      /\ ceip = eip /\ crule = rule
      /\ work = [r \in Rules |-> Idle] /\ wait = [r \in Rules |-> Idle]
      /\ eadd = [e \in Eips |-> NoHandler] /\ eupd = [e \in Eips |-> NoHandler]
  BY Zenon DEF Init
<1>2. /\ env \in Scenario /\ env.there \cap env.makes = {}
      /\ env.fresh => env.there = {}
  BY <1>1, NatGatewayAssumption, Zenon
<1>3. \A r \in Rules : /\ env.kind[r] \in Kinds /\ env.at[r] \in Eips
                       /\ env.inner[r] \in Inners
  BY <1>2 DEF Scenario
<1>4. EipTypes
  <2>1. \A e \in Eips : there(e) \in Eip
    <3>1. \A e \in Eips : {env.kind[r] : r \in on(e)} \in SUBSET Kinds
      BY <1>3
    <3> HIDE DEF on
    <3> QED
      BY <3>1, Zenon DEF Eip
  <2> HIDE DEF there
  <2> QED
    BY <1>1, <2>1, NoEipType, Zenon DEF EipTypes
<1>5. \A r \in Rules : /\ made(r) \in Rule /\ NoRule \in Rule /\ Idle \in Handler
  <2> TAKE r \in Rules
  <2>1. NewRule(env.at[r], env.inner[r]) \in Rule
    BY <1>3, NewRuleType
  <2>2. made(r) \in Rule
    BY <1>3, <2>1, Zenon DEF Rule
  <2> QED
    BY <1>2, <2>2, NoRuleType
<1>6. RuleTypes /\ LocksApart
  <2> HIDE DEF made
  <2> QED
    BY <1>1, <1>5, IdleIs, Zenon DEF RuleTypes, LocksApart
<1>7. \A g \in Gws : /\ rows(g) \in SUBSET Rows
                     /\ \A w \in rows(g) : FullRow(w)
  <2>1. \A r \in Rules \cap env.there :
           /\ backends(r) \in SUBSET Inners
           /\ env.inner[r] \in backends(r)
           /\ env.kind[r] # "share" => backends(r) = {env.inner[r]}
    BY <1>3
  <2> HIDE DEF backends
  <2>2. \A r \in Rules \cap env.there :
           LET w == Row(env.kind[r], env.at[r], backends(r))
           IN  w \in Rows /\ FullRow(w)
    BY <1>3, <2>1, Zenon DEF Row, Rows, FullRow
  <2> QED
    BY <2>2, Zenon
<1>8. PodTypes /\ Bounded
  <2>1. NewPod(1) \in Pod /\ NewPod(1).rows = {} /\ NewPod(1).created = 1
    BY DEF NewPod, Pod, Rows
  <2> HIDE DEF rows
  <2>2. \A g \in Gws : /\ old(g) \in Pod
                       /\ old(g).rows = rows(g) /\ old(g).created = 1
    <3> TAKE g \in Gws
    <3>1. old(g) \in Pod
      BY <1>7, <2>1, Zenon DEF Pod
    <3> QED
      BY <2>1, <3>1, Zenon DEF Pod
  <2> HIDE DEF old
  <2>3. \A g \in Gws : pod[g] = IF env.fresh THEN NewPod(1) ELSE old(g)
    BY <1>1, Zenon
  <2>4. pod \in [Gws -> Pod]
    BY <1>1, <2>1, <2>2, Zenon
  <2>5. \A g \in Gws : \A w \in pod[g].rows : FullRow(w)
    BY <1>7, <2>1, <2>2, <2>3
  <2>6. \A g \in Gws : pod[g].created = 1
    BY <2>1, <2>2, <2>3
  <2> QED
    BY <2>4, <2>5, <2>6, NatGatewayAssumption DEF PodTypes, Bounded
<1>9. TimeTypes
  <2> HIDE DEF old
  <2>1. \A g \in Gws : pod[g].created \in Nat \ {0}
    BY <1>8 DEF PodTypes, Pod
  <2>2. createdAt \in {0, 1}
    BY <1>1, Zenon
  <2>3. Past(createdAt)
    BY <2>1, <2>2, NatGatewayAssumption DEF Past
  <2> QED
    BY <1>8, <2>2, <2>3 DEF TimeTypes
<1>10. QueueTypes
  BY <1>1, Zenon DEF QueueTypes
<1>11. TypeInv
  BY <1>2, <1>4, <1>6, <1>8, <1>9, <1>10 DEF TypeInv
<1>12. \A r \in Rules :
          /\ crule[r] = rule[r] /\ work[r] = Idle /\ wait[r] = Idle
          /\ r \notin q["addRule"]
          /\ r \notin env.there => rule[r] = NoRule
          /\ r \in env.there => ~env.fresh /\ rule[r] = made(r)
  <2> HIDE DEF made
  <2>1. q["addRule"] = {}
    BY <1>1, Zenon DEF Queues
  <2> QED
    BY <1>1, <1>2, <2>1, Zenon
<1>13. \A g \in Gws : pod[g].rows = rows(g)
  <2> TAKE g \in Gws
  <2>1. CASE env.fresh
    <3>1. pod[g].rows = {}
      BY <1>1, <2>1, Zenon DEF NewPod
    <3>2. rows(g) = {}
      BY <1>2, <2>1, Zenon
    <3> QED
      BY <3>1, <3>2, Zenon
  <2>2. CASE ~env.fresh
    <3> HIDE DEF rows
    <3>1. pod[g] = old(g)
      BY <1>1, <2>2, Zenon
    <3>2. old(g).rows = rows(g)
      BY DEF NewPod
    <3> QED
      BY <3>1, <3>2
  <2> QED
    BY <2>1, <2>2, Zenon
<1> QED
  BY <1>1, <1>11, <1>12, <1>13, Zenon

-----------------------------------------------------------------------------
(* Every step is one of these *)

AsideStep ==
    \/ \E e \in Eips : \/ CreateEip(e) \/ DeleteEip(e) \/ FailEip(e)
                       \/ EipEvent(e) \/ EipAddWorker(e)
                       \/ EipUpdateWorker(e) \/ handleResetIptablesEip(e)
    \/ \E g \in Gws : GatewayWorker(g) \/ handleUpdateVpcEip(g)
    \/ UNCHANGED vars

UserStep(r) ==
    \/ CreateRule(r) \/ EditRule(r) \/ DeleteRule(r)
    \/ RuleAdded(r) \/ RuleUpdated(r) \/ RuleDeleted(r)

AddStep(r) ==
    \/ AddRule(r) \/ InstallRule(r) \/ ShowRule(r) \/ LabelRule(r) \/ RefreshEip(r)

UpdateStep(r) ==
    \/ RemoveRule(r) \/ ReleaseRule(r) \/ ChangeRule(r) \/ ClearRule(r)
    \/ RedoRule(r) \/ ShowRedone(r) \/ KeepRule(r)

LockStep(r) ==
    \/ FailRule(r) \/ LockedInVain(r)
    \/ WaitForLock(r, "addRule") \/ WaitForLock(r, "updRule")

RuleStepOf(r) == UserStep(r) \/ AddStep(r) \/ UpdateStep(r) \/ LockStep(r)

SweepOf(g) == \E x \in Queues \ {"addRule"} : \E S \in SUBSET Rules : Sweep(x, g, S)

LEMMA Steps ==
    ASSUME [Next]_vars
    PROVE  \/ AsideStep
           \/ \E r \in Rules : RuleStepOf(r)
           \/ \E g \in Gws : SweepOf(g) \/ Restart(g)
           \/ Crash
<1>1. CASE UNCHANGED vars
  BY <1>1 DEF AsideStep
<1>2. CASE Users
  <2>1. CASE \E e \in Eips : CreateEip(e) \/ DeleteEip(e)
    BY <2>1, Zenon DEF AsideStep
  <2>2. CASE \E r \in Rules : CreateRule(r) \/ EditRule(r) \/ DeleteRule(r)
    BY <2>2, Zenon DEF RuleStepOf, UserStep
  <2> QED
    BY <1>2, <2>1, <2>2, Zenon DEF Users
<1>3. CASE Faults
  <2>1. CASE \E g \in Gws : Restart(g)
    BY <2>1, Zenon
  <2>2. CASE \E r \in Rules : FailRule(r)
    BY <2>2, Zenon DEF RuleStepOf, LockStep
  <2>3. CASE \E e \in Eips : FailEip(e)
    BY <2>3, Zenon DEF AsideStep
  <2> QED
    BY <1>3, <2>1, <2>2, <2>3, Zenon DEF Faults
<1>4. CASE \E e \in Eips : \/ EipEvent(e) \/ EipAddWorker(e)
                           \/ EipUpdateWorker(e) \/ handleResetIptablesEip(e)
  BY <1>4, Zenon DEF AsideStep
<1>5. ASSUME NEW r \in Rules, RuleEvent(r)
      PROVE  RuleStepOf(r)
  BY <1>5, Zenon DEF RuleEvent, RuleStepOf, UserStep,
       enqueueAddIptablesFip, enqueueAddIptablesDnatRule, enqueueAddIptablesSnatRule,
       enqueueUpdateIptablesFip, enqueueUpdateIptablesDnatRule,
       enqueueUpdateIptablesSnatRule,
       enqueueDelIptablesFip, enqueueDelIptablesDnatRule, enqueueDelIptablesSnatRule
<1>6. ASSUME NEW r \in Rules, RuleAddWorker(r)
      PROVE  RuleStepOf(r)
  BY <1>6, Zenon DEF RuleAddWorker, RuleStepOf, AddStep,
       handleAddIptablesFip, handleAddIptablesDnatRule, handleAddIptablesSnatRule
<1>7. ASSUME NEW r \in Rules, RuleUpdateWorker(r)
      PROVE  RuleStepOf(r)
  BY <1>7, Zenon DEF RuleUpdateWorker, RuleStepOf, UpdateStep,
       handleUpdateIptablesFip, handleUpdateIptablesDnatRule,
       handleUpdateIptablesSnatRule
<1>8. ASSUME NEW r \in Rules, RuleWorker(r)
      PROVE  RuleStepOf(r)
  BY <1>8, Zenon DEF RuleWorker, RuleStepOf, AddStep, UpdateStep,
       createFipInPod, createDnatInPod, createNftDnatMapInPod, createSnatInPod,
       patchFipStatus, patchDnatStatus, patchSnatStatus,
       patchFipLabel, patchDnatLabel, patchSnatLabel,
       finalDeleteFipInPod, finalDeleteDnatInPod, cleanupShareDnatInPod,
       finalDeleteSnatInPod, handleDelIptablesFipFinalizer,
       handleDelIptablesDnatFinalizer, handleDelIptablesSnatFinalizer
<1>9. ASSUME NEW r \in Rules,
             \/ LockedInVain(r)
             \/ WaitForLock(r, "addRule") \/ WaitForLock(r, "updRule")
      PROVE  RuleStepOf(r)
  BY <1>9, Zenon DEF RuleStepOf, LockStep
<1>10. ASSUME NEW g \in Gws, SweepWorker(g)
       PROVE  SweepOf(g) \/ handleUpdateVpcEip(g)
  <2>1. /\ {"vpcFip", "vpcDnat", "vpcSnat"} \subseteq Queues \ {"addRule"}
        /\ {r \in Rules : IsFip(r)} \in SUBSET Rules
        /\ {r \in Rules : IsDnat(r)} \in SUBSET Rules
        /\ {r \in Rules : IsSnat(r)} \in SUBSET Rules
    BY DEF Queues
  <2>2. "vpcFip" \in Queues \ {"addRule"} /\ "vpcDnat" \in Queues \ {"addRule"}
        /\ "vpcSnat" \in Queues \ {"addRule"}
    BY <2>1
  <2> QED
    BY <1>10, <2>1, <2>2, Zenon
    DEF SweepWorker, SweepOf, handleUpdateVpcFloatingIP, handleUpdateVpcDnat,
        handleUpdateVpcSnat
<1>11. CASE \E g \in Gws : GatewayWorker(g) \/ SweepWorker(g)
  BY <1>10, <1>11, Zenon DEF AsideStep
<1>12. CASE \E r \in Rules : \/ RuleEvent(r) \/ RuleAddWorker(r)
                             \/ RuleUpdateWorker(r) \/ RuleWorker(r)
                             \/ LockedInVain(r)
                             \/ WaitForLock(r, "addRule")
                             \/ WaitForLock(r, "updRule")
  BY <1>5, <1>6, <1>7, <1>8, <1>9, <1>12, Zenon
<1>13. CASE Crash
  BY <1>13
<1>14. Next => \/ Users \/ Faults
               \/ \E e \in Eips : \/ EipEvent(e) \/ EipAddWorker(e)
                                  \/ EipUpdateWorker(e) \/ handleResetIptablesEip(e)
               \/ \E r \in Rules : \/ RuleEvent(r) \/ RuleAddWorker(r)
                                   \/ RuleUpdateWorker(r) \/ RuleWorker(r)
                                   \/ LockedInVain(r)
                                   \/ WaitForLock(r, "addRule")
                                   \/ WaitForLock(r, "updRule")
               \/ \E g \in Gws : GatewayWorker(g) \/ SweepWorker(g)
  BY Zenon DEF Next
<1> QED
  BY <1>1, <1>2, <1>3, <1>4, <1>11, <1>12, <1>14, Zenon

LEMMA AsideSteps ==
    ASSUME TypeInv, AsideStep
    PROVE  TypeInv' /\ Aside
<1>1. ASSUME NEW e \in Eips,
             \/ CreateEip(e) \/ DeleteEip(e) \/ FailEip(e)
             \/ EipEvent(e) \/ EipAddWorker(e)
             \/ EipUpdateWorker(e) \/ handleResetIptablesEip(e)
      PROVE  TypeInv' /\ Aside
  BY <1>1, CreateEipAside, DeleteEipAside, FailEipAside, EipEventAside,
     EipAddAside, EipUpdateAside, Zenon
<1>2. ASSUME NEW g \in Gws, GatewayWorker(g) \/ handleUpdateVpcEip(g)
      PROVE  TypeInv' /\ Aside
  BY <1>2, GatewayAside, VpcEipAside, Zenon
<1>3. CASE UNCHANGED vars
  <2>1. /\ UNCHANGED <<eip, rule, ceip, crule, pod, createdAt, q>>
        /\ UNCHANGED <<work, wait, eadd, eupd, env>>
    BY <1>3 DEF vars, caches, workers
  <2>2. Aside /\ TimeAside
    BY <2>1, Still DEF Aside
  <2>3. EipTypes'
    BY <2>1, EipsStay
  <2> QED
    BY <2>2, <2>3, AsideTypes
<1> QED
  BY <1>1, <1>2, <1>3, Zenon DEF AsideStep

LEMMA TypeStep ==
    ASSUME TypeInv, [Next]_vars
    PROVE  TypeInv'
<1>1. ASSUME NEW r \in Rules, UserStep(r)
      PROVE  TypeInv'
  BY <1>1, CreateRuleStep, EditRuleTypes, DeleteRuleStep, RuleEventStep, Zenon
  DEF UserStep
<1>2. ASSUME NEW r \in Rules, AddStep(r)
      PROVE  TypeInv'
  BY <1>2, AddRuleStep, InstallRuleStep, ShowRuleStep, LabelRuleStep, RefreshEipStep,
     Zenon DEF AddStep
<1>3. ASSUME NEW r \in Rules, UpdateStep(r)
      PROVE  TypeInv'
  BY <1>3, RemoveRuleStep, ReleaseRuleStep, ChangeRuleTypes, ClearRuleTypes,
     RedoRuleStep, ShowRedoneStep, KeepRuleStep, Zenon DEF UpdateStep
<1>4. ASSUME NEW r \in Rules, LockStep(r)
      PROVE  TypeInv'
  <2>1. "addRule" \in {"addRule", "updRule"} /\ "updRule" \in {"addRule", "updRule"}
    OBVIOUS
  <2> QED
    BY <1>4, <2>1, FailRuleStep, InVainStep, WaitStep, Zenon DEF LockStep
<1>5. ASSUME NEW g \in Gws, SweepOf(g) \/ Restart(g)
      PROVE  TypeInv'
  BY <1>5, SweepStep, RestartStep, Zenon DEF SweepOf
<1> QED
  BY <1>1, <1>2, <1>3, <1>4, <1>5, Steps, AsideSteps, CrashStep, Zenon DEF RuleStepOf

\* Every variable keeps its type, no row is without an address, and a handler
\* never waits for the lock of a rule that it holds itself (TypeOK).
THEOREM TypeCorrect == Spec => []TypeOK
<1>1. Init => TypeInv
  BY InitFacts, Zenon
<1>2. TypeInv /\ [Next]_vars => TypeInv'
  BY TypeStep
<1>3. TypeInv => TypeOK
  <2> SUFFICES ASSUME TypeInv
               PROVE  TypeOK
    OBVIOUS
  <2>1. Now \in Nat /\ \A g \in Gws : pod[g].created <= Now
    BY LastPod DEF TypeInv, TimeTypes
  <2>2. createdAt \in Nat /\ \A g \in Gws : pod[g].created \in Nat
    BY PodType DEF TypeInv, TimeTypes
  <2>3. PICK g \in Gws : createdAt <= pod[g].created
    BY DEF TypeInv, TimeTypes, Past
  <2>4. createdAt \in 0..Now
    BY <2>1, <2>2, <2>3
  <2>5. \A h \in Gws : /\ pod[h].eips \subseteq Eips
                       /\ \A w \in pod[h].rows : w.type \in Kinds /\ w.of # {}
    <3> TAKE h \in Gws
    <3>1. pod[h].eips \subseteq Eips /\ pod[h].rows \subseteq Rows
      BY PodType DEF Pod
    <3>2. \A w \in pod[h].rows : w.of # {}
      BY DEF TypeInv, PodTypes, FullRow
    <3> QED
      BY <3>1, <3>2 DEF Rows
  <2>6. \A x \in Queues : q[x] \subseteq Eips \cup Rules \cup Gws
    BY DEF TypeInv, QueueTypes
  <2> QED
    BY <2>4, <2>5, <2>6, Zenon DEF TypeInv, EipTypes, RuleTypes, LocksApart, TypeOK
<1> QED
  BY <1>1, <1>2, <1>3, PTL DEF Spec

-----------------------------------------------------------------------------
(* The versions of a rule that nobody edits, step by step *)

\* What a step makes of a rule keeps what earlier versions are owed.
Grows(o, n) ==
    /\ Kept(n) => Kept(o)
    /\ n.here => /\ o.here
                 /\ (o.fin => n.fin) /\ (o.v4ip # None => n.v4ip # None)

LEMMA NoRuleVersion ==
    ASSUME env \in Scenario, NEW r \in Rules
    PROVE  /\ Version(r, NoRule)
           /\ \A c \in Rule : Follows(c, NoRule) /\ Follows(NoRule, c) /\ Grows(c, NoRule)
<1>1. NoRule \in Rule /\ ~NoRule.here /\ ~NoRule.term /\ ~NoRule.fin
  BY NoRuleType
<1> QED
  BY <1>1, Zenon DEF Version, Follows, Grows, Kept

LEMMA FollowsOn ==
    ASSUME NEW c, NEW o, NEW n, Follows(c, o), Grows(o, n)
    PROVE  Follows(c, n)
BY Zenon DEF Follows, Grows

LEMMA FollowsSelf == \A o : Follows(o, o) /\ Grows(o, o)
BY Zenon DEF Follows, Grows, Kept

\* A step of r that does not change the cache.
LEMMA LaterLived ==
    ASSUME env \in Scenario, NEW r \in Rules,
           NEW o \in Rule, NEW c \in Rule, NEW h \in Handler, NEW w \in Handler,
           NEW n \in Rule, NEW h2 \in Handler, NEW w2 \in Handler,
           Lived(r, o, c, h, w), Grows(o, n), Version(r, n),
           h2.obj \in {h.obj, w.obj, c, NoRule}, w2.obj \in {w.obj, c, NoRule},
           Position(n, h2, w2)
    PROVE  /\ Lived(r, n, c, h2, w2)
           /\ NoneOf(o, c, h, w) => NoneOf(n, c, h2, w2)
<1>1. /\ Version(r, NoRule) /\ ~NoRule.here
      /\ Follows(NoRule, c) /\ Follows(NoRule, n)
  BY NoRuleType, NoRuleVersion
<1>2. /\ Version(r, o) /\ Version(r, c) /\ Version(r, h.obj) /\ Version(r, w.obj)
      /\ Follows(c, o) /\ Follows(h.obj, c) /\ Follows(h.obj, o)
      /\ Follows(w.obj, c) /\ Follows(w.obj, o)
      /\ h.obj.here \/ w.obj.here => (o.here => c.here)
  BY Zenon DEF Lived, Versions, Ordered
<1>3. Follows(c, n) /\ Follows(h.obj, n) /\ Follows(w.obj, n) /\ Follows(c, c)
  BY <1>2, FollowsOn, FollowsSelf, Zenon
<1>4. n.here => o.here
  BY Zenon DEF Grows
<1>5. \A x \in {h.obj, w.obj, c, NoRule} :
         /\ Version(r, x) /\ Follows(x, c) /\ Follows(x, n)
         /\ x.here => (n.here => c.here)
  <2> TAKE x \in {h.obj, w.obj, c, NoRule}
  <2>1. CASE x = h.obj
    BY <1>2, <1>3, <1>4, <2>1, Zenon
  <2>2. CASE x = w.obj
    BY <1>2, <1>3, <1>4, <2>2, Zenon
  <2>3. CASE x = c
    BY <1>2, <1>3, <2>3, Zenon
  <2>4. CASE x = NoRule
    BY <1>1, <2>4, Zenon
  <2> QED
    BY <2>1, <2>2, <2>3, <2>4, Zenon
<1>6. w2.obj \in {h.obj, w.obj, c, NoRule}
  OBVIOUS
<1>7. Versions(r, n, c, h2, w2)
  BY <1>2, <1>5, <1>6, Zenon DEF Versions
<1>8. Ordered(n, c, h2, w2)
  BY <1>3, <1>5, <1>6, Zenon DEF Ordered
<1>9. ASSUME NoneOf(o, c, h, w)
      PROVE  NoneOf(n, c, h2, w2)
  <2>1. \A x \in {h.obj, w.obj, c, NoRule} : ~x.here
    BY <1>1, <1>9, Zenon DEF NoneOf
  <2> QED
    BY <1>4, <1>6, <1>9, <2>1, Zenon DEF NoneOf
<1> QED
  BY <1>7, <1>8, <1>9, Zenon DEF Lived

LEMMA HistoryOf ==
    ASSUME HistoryInv, NEW r \in Rules
    PROVE  /\ Lived(r, rule[r], crule[r], work[r], wait[r])
           /\ r \in env.makes => NoneOf(rule[r], crule[r], work[r], wait[r])
BY Zenon DEF HistoryInv, History

\* What a version says depends on what does not change.
LEMMA HistoryAt ==
    ASSUME Static, NEW r \in Rules, NEW o, NEW c, NEW h, NEW w,
           rule'[r] = o, crule'[r] = c, work'[r] = h, wait'[r] = w,
           Lived(r, o, c, h, w),
           r \in env'.makes => NoneOf(o, c, h, w)
    PROVE  History(r)'
<1>1. env'.at[r] = env.at[r] /\ env'.inner[r] = env.inner[r]
  BY DEF Static
<1>2. \A v : Version(r, v) => (Version(r, v))'
  BY <1>1, Zenon DEF Version
<1>3. Versions(r, o, c, h, w) /\ Ordered(o, c, h, w) /\ Position(o, h, w)
  BY Zenon DEF Lived
<1>4. (Versions(r, rule[r], crule[r], work[r], wait[r]))'
  BY <1>2, <1>3, Zenon DEF Versions
<1>5. /\ Ordered(o, c, h, w)' /\ Position(o, h, w)'
      /\ r \in env'.makes => NoneOf(o, c, h, w)'
  BY <1>3, Zenon DEF Ordered, Follows, Position, NoneOf, Kept
<1> QED
  BY <1>3, <1>4, Zenon DEF History, Lived

LEMMA UntouchedHistory ==
    ASSUME HistoryInv, Static, NEW s \in Rules, 
           rule'[s] = rule[s], crule'[s] = crule[s],
           work'[s] = work[s], wait'[s] = wait[s]
    PROVE  History(s)'
<1>1. /\ Lived(s, rule[s], crule[s], work[s], wait[s])
      /\ s \in env'.makes => NoneOf(rule[s], crule[s], work[s], wait[s])
  BY HistoryOf, Zenon DEF Static
<1> QED
  BY <1>1, HistoryAt, Zenon

LEMMA UneditedStays ==
    ASSUME HistoryInv, Static
    PROVE  Unedited'
BY DEF HistoryInv, Static, Unedited

LEMMA OneHistory ==
    ASSUME HistoryInv, Static, NEW r \in Rules, NEW o, NEW c, NEW h, NEW w,
           OneRule(r, o, c, h, w), Lived(r, o, c, h, w),
           r \in env'.makes => NoneOf(o, c, h, w)
    PROVE  HistoryInv'
<1>1. History(r)'
  BY HistoryAt, Zenon DEF OneRule
<1>2. \A s \in Rules \ {r} : History(s)'
  BY UntouchedHistory, Zenon DEF OneRule, Untouched
<1>3. \A s \in Rules : History(s)'
  BY <1>1, <1>2, Zenon
<1> QED
  BY <1>3, UneditedStays, Zenon DEF HistoryInv

LEMMA LaterHistory ==
    ASSUME TypeInv, HistoryInv, Static, NEW r \in Rules,
           NEW n \in Rule, NEW h \in Handler, NEW w \in Handler,
           OneRule(r, n, crule[r], h, w),
           Grows(rule[r], n), Version(r, n),
           h.obj \in {work[r].obj, wait[r].obj, crule[r], NoRule},
           w.obj \in {wait[r].obj, crule[r], NoRule},
           Position(n, h, w)
    PROVE  HistoryInv'
<1>1. /\ Lived(r, rule[r], crule[r], work[r], wait[r])
      /\ r \in env.makes => NoneOf(rule[r], crule[r], work[r], wait[r])
  BY HistoryOf, Zenon
<1>2. /\ rule[r] \in Rule /\ crule[r] \in Rule
      /\ work[r] \in Handler /\ wait[r] \in Handler /\ env \in Scenario
  BY RuleType, Zenon DEF TypeInv
<1>3. /\ Lived(r, n, crule[r], h, w)
      /\ NoneOf(rule[r], crule[r], work[r], wait[r]) => NoneOf(n, crule[r], h, w)
  BY <1>1, <1>2, LaterLived, Zenon
<1>4. r \in env'.makes => NoneOf(n, crule[r], h, w)
  BY <1>1, <1>3, Zenon DEF Static
<1> QED
  BY <1>3, <1>4, OneHistory, Zenon

\* A rule with its finalizer, and what Bound makes of a rule.
LEMMA FinalizedFields ==
    ASSUME NEW o \in Rule, NEW n, n = [o EXCEPT !.fin = TRUE]
    PROVE  /\ n.here = o.here /\ n.term = o.term /\ n.fin
           /\ n.eip = o.eip /\ n.inner = o.inner /\ n.label = o.label
           /\ n.v4ip = o.v4ip /\ n.in = o.in /\ n.ready = o.ready /\ n.redo = o.redo
BY DEF Rule

SameButFin(o, n) ==
    /\ n.here = o.here /\ n.term = o.term /\ (o.fin => n.fin)
    /\ n.eip = o.eip /\ n.inner = o.inner /\ n.label = o.label
    /\ n.v4ip = o.v4ip /\ n.in = o.in /\ n.ready = o.ready /\ n.redo = o.redo
    /\ ~o.here => n = o

LEMMA BoundFields ==
    ASSUME NEW o \in Rule, NEW r
    PROVE  SameButFin(o, Bound(r, o))
<1>1. CASE Bound(r, o) = o
  BY <1>1, Zenon DEF SameButFin
<1>2. CASE Bound(r, o) = [o EXCEPT !.fin = TRUE] /\ o.here
  BY <1>2, FinalizedFields, Zenon DEF SameButFin
<1> QED
  BY <1>1, <1>2, Zenon DEF Bound, Finalized

LEMMA SameButFinGrows ==
    ASSUME NEW r, NEW o \in Rule, NEW n, SameButFin(o, n), Version(r, o)
    PROVE  Grows(o, n) /\ Version(r, n)
<1>1. CASE o.here
  BY <1>1, Zenon DEF SameButFin, Grows, Version, Kept
<1>2. CASE ~o.here
  BY <1>2, FollowsSelf, Zenon DEF SameButFin
<1> QED
  BY <1>1, <1>2

LEMMA BoundGrows ==
    ASSUME NEW r, NEW o \in Rule, Version(r, o)
    PROVE  Grows(o, Bound(r, o)) /\ Version(r, Bound(r, o))
BY BoundFields, SameButFinGrows, Zenon

LEMMA DeletedGrows ==
    ASSUME env \in Scenario, NEW r \in Rules, NEW o \in Rule, Version(r, o)
    PROVE  Grows(o, Deleted(o, NoRule)) /\ Version(r, Deleted(o, NoRule))
<1>1. CASE ~o.fin
  BY <1>1, NoRuleVersion, Zenon DEF Deleted
<1>2. CASE o.fin
  <2> DEFINE n == [o EXCEPT !.term = TRUE]
  <2>1. /\ n.here = o.here /\ n.term /\ n.fin = o.fin
        /\ n.eip = o.eip /\ n.inner = o.inner /\ n.label = o.label
        /\ n.v4ip = o.v4ip /\ n.in = o.in /\ n.ready = o.ready
    BY DEF Rule
  <2> HIDE DEF n
  <2>2. o.here
    BY <1>2 DEF Version
  <2>3. Grows(o, n) /\ Version(r, n)
    BY <1>2, <2>1, <2>2, Zenon DEF Grows, Version, Kept
  <2> QED
    BY <1>2, <2>3, Zenon DEF Deleted, n
<1> QED
  BY <1>1, <1>2

\* A patch of the status, with or without an address, of a rule that has one in
\* the cache or gets it now.
LEMMA PatchedGrows ==
    ASSUME NEW r \in Rules, NEW o \in Rule, NEW c \in Rule, NEW p \in Rule,
           Version(r, o), Version(r, c), Follows(c, o),
           p.here = o.here, p.term = o.term, p.fin = o.fin,
           p.eip = o.eip, p.inner = o.inner, p.label = o.label,
           c.here, o.here, o.fin,
           p.v4ip = env.at[r] \/ (p.v4ip = c.v4ip /\ c.v4ip # None),
           p.in = c.inner \/ p.in = c.in, p.ready => p.in = c.inner,
           p.v4ip # c.v4ip => p.in = c.inner, env.at[r] # None
    PROVE  Grows(o, p) /\ Version(r, p) /\ p.v4ip # None
<1>1. /\ c.eip = env.at[r] /\ c.inner = env.inner[r]
      /\ c.v4ip # None => c.v4ip = c.eip /\ c.in = c.inner
  BY Zenon DEF Version
<1>2. p.v4ip = env.at[r] /\ p.in = env.inner[r]
  BY <1>1, Zenon
<1> QED
  BY <1>2, Zenon DEF Version, Grows, Kept

LEMMA IdlePosition ==
    ASSUME NEW o, NEW h, NEW w, Position(o, h, w)
    PROVE  \A n : Position(n, Idle, w) /\ Position(n, Idle, Idle)
BY IdleIs, Zenon DEF Position

\* What the invariant says of r now, ready for use.
LEMMA NowLived ==
    ASSUME TypeInv, HistoryInv, NEW r \in Rules
    PROVE  /\ env \in Scenario
           /\ Version(r, rule[r]) /\ Version(r, crule[r])
           /\ Version(r, work[r].obj) /\ Version(r, wait[r].obj)
           /\ Follows(crule[r], rule[r])
           /\ Follows(work[r].obj, crule[r]) /\ Follows(work[r].obj, rule[r])
           /\ Follows(wait[r].obj, crule[r]) /\ Follows(wait[r].obj, rule[r])
           /\ work[r].obj.here \/ wait[r].obj.here => (rule[r].here => crule[r].here)
           /\ Position(rule[r], work[r], wait[r])
           /\ env.at[r] # None /\ env.at[r] \in Eips
<1>1. Lived(r, rule[r], crule[r], work[r], wait[r])
  BY HistoryOf, Zenon
<1>2. env.at[r] \in Eips /\ env.at[r] # None
  BY RuleType, NatGatewayAssumption, Zenon
<1> QED
  BY <1>1, <1>2, Zenon DEF Lived, Versions, Ordered, TypeInv

\* The handler of r is done.
LEMMA StopHistory ==
    ASSUME TypeInv, HistoryInv, Static, NEW r \in Rules, NEW n \in Rule,
           NEW w \in {wait[r], Idle},
           OneRule(r, n, crule[r], Idle, w), Grows(rule[r], n), Version(r, n)
    PROVE  HistoryInv'
<1>1. Position(n, Idle, w)
  BY NowLived, IdlePosition, Zenon
<1>2. Idle \in Handler /\ wait[r] \in Handler /\ Idle.obj = NoRule
  BY RuleType, IdleIs, Zenon
<1>3. w \in Handler /\ w.obj \in {wait[r].obj, crule[r], NoRule}
  BY <1>2, Zenon
<1>4. Idle.obj \in {work[r].obj, wait[r].obj, crule[r], NoRule}
  BY <1>2, Zenon
<1> QED
  BY <1>1, <1>2, <1>3, <1>4, LaterHistory, Zenon

LEMMA RequeuedHistory ==
    ASSUME TypeInv, HistoryInv, Static, NEW r \in Rules, Requeued(r)
    PROVE  HistoryInv'
<1>1. OneRule(r, rule[r], crule[r], Idle, wait[r])
  BY Zenon DEF Requeued
<1>2. rule[r] \in Rule /\ Grows(rule[r], rule[r]) /\ Version(r, rule[r])
  BY RuleType, FollowsSelf, NowLived, Zenon
<1>3. wait[r] \in {wait[r], Idle}
  OBVIOUS
<1> QED
  BY <1>1, <1>2, <1>3, StopHistory, Zenon

LEMMA CreateHistory ==
    ASSUME TypeInv, HistoryInv, NEW r \in Rules, CreateRule(r)
    PROVE  HistoryInv'
<1> DEFINE n == NewRule(env.at[r], env.inner[r])
<1>1. /\ Static /\ OneRule(r, n, crule[r], work[r], wait[r])
      /\ env'.makes = env.makes \ {r}
  BY CreateRuleStep, Zenon
<1>2. r \in env.makes
  BY DEF CreateRule
<1>3. NoneOf(rule[r], crule[r], work[r], wait[r])
  BY <1>2, HistoryOf, Zenon
<1>4. Position(rule[r], work[r], wait[r])
  BY NowLived, Zenon
<1>5. work[r] = Idle /\ wait[r] = Idle
  BY <1>3, <1>4, Zenon DEF NoneOf, Position
<1>6. /\ n.here /\ ~n.term /\ ~n.fin /\ n.eip = env.at[r] /\ n.inner = env.inner[r]
      /\ n.in = None /\ n.v4ip = None /\ n.label = None /\ ~n.ready
  BY Zenon DEF NewRule
<1>7. Version(r, n)
  <2> HIDE DEF n
  <2> QED
    BY <1>6, Zenon DEF Version
<1>8. Position(n, work[r], wait[r])
  BY <1>4, <1>5, IdlePosition, Zenon
<1>9. Versions(r, n, crule[r], work[r], wait[r])
  BY <1>7, NowLived, Zenon DEF Versions
<1>10. Ordered(n, crule[r], work[r], wait[r])
  BY <1>3, NowLived, Zenon DEF Ordered, NoneOf, Follows
<1> HIDE DEF n
<1> QED
  BY <1>1, <1>8, <1>9, <1>10, OneHistory, Zenon DEF Lived

LEMMA DeleteHistory ==
    ASSUME TypeInv, HistoryInv, NEW r \in Rules, DeleteRule(r)
    PROVE  HistoryInv'
<1> DEFINE n == Deleted(rule[r], NoRule)
<1>1. Static /\ OneRule(r, n, crule[r], work[r], wait[r])
  BY DeleteRuleStep, Zenon
<1>2. n \in Rule /\ work[r] \in Handler /\ wait[r] \in Handler /\ rule[r] \in Rule
  BY RuleType, RuleOps, Zenon
<1>3. Grows(rule[r], n) /\ Version(r, n)
  BY <1>2, NowLived, DeletedGrows, Zenon
<1>4. n.here => rule[r].here /\ (rule[r].fin => n.fin)
                /\ (rule[r].v4ip # None => n.v4ip # None)
  BY <1>3, Zenon DEF Grows
<1> HIDE DEF n
<1>5. Position(n, work[r], wait[r])
  BY <1>4, NowLived, Zenon DEF Position
<1>6. work[r].obj \in {work[r].obj, wait[r].obj, crule[r], NoRule}
      /\ wait[r].obj \in {wait[r].obj, crule[r], NoRule}
  BY Zenon
<1> QED
  BY <1>1, <1>2, <1>3, <1>5, <1>6, LaterHistory, Zenon

LEMMA EventHistory ==
    ASSUME TypeInv, HistoryInv, NEW r \in Rules,
           RuleAdded(r) \/ RuleUpdated(r) \/ RuleDeleted(r)
    PROVE  HistoryInv'
<1> DEFINE c == IF rule[r].here THEN rule[r] ELSE NoRule
<1>1. Static /\ OneRule(r, rule[r], c, work[r], wait[r])
  BY RuleEventStep, Zenon
<1>2. /\ NoRule \in Rule /\ ~NoRule.here /\ Version(r, NoRule)
      /\ \A v \in Rule : Follows(v, NoRule) /\ Follows(NoRule, v)
      /\ work[r].obj \in Rule /\ wait[r].obj \in Rule /\ rule[r] \in Rule
  BY NoRuleType, NoRuleVersion, RuleType, Zenon DEF TypeInv
<1>3. /\ Version(r, c) /\ Follows(c, rule[r])
      /\ Follows(work[r].obj, c) /\ Follows(wait[r].obj, c)
      /\ rule[r].here => c.here
      /\ c.here => rule[r].here
  <2>1. CASE rule[r].here
    BY <2>1, NowLived, FollowsSelf, Zenon
  <2>2. CASE ~rule[r].here
    BY <1>2, <2>2, Zenon
  <2> QED
    BY <2>1, <2>2, Zenon
<1> HIDE DEF c
<1>4. Lived(r, rule[r], c, work[r], wait[r])
  BY <1>3, NowLived, Zenon DEF Lived, Versions, Ordered
<1>5. r \in env'.makes => NoneOf(rule[r], c, work[r], wait[r])
  <2>1. r \in env'.makes => NoneOf(rule[r], crule[r], work[r], wait[r])
    BY <1>1, HistoryOf, Zenon DEF Static
  <2> QED
    BY <1>3, <2>1, Zenon DEF NoneOf
<1> QED
  BY <1>1, <1>4, <1>5, OneHistory, Zenon

\* Which version a worker took, and who waits then.
LEMMA TakenVersion ==
    ASSUME TypeInv, HistoryInv, NEW r \in Rules, NEW by, NEW o, NEW w, Taken(r, by, o, w)
    PROVE  /\ o \in {wait[r].obj, crule[r]} /\ w \in {wait[r], Idle}
           /\ o \in Rule /\ Version(r, o) /\ Follows(o, crule[r]) /\ Follows(o, rule[r])
           /\ o.here => (rule[r].here => crule[r].here)
<1>1. o \in {wait[r].obj, crule[r]} /\ w \in {wait[r], Idle}
  BY Zenon DEF Taken
<1>2. wait[r].obj \in Rule /\ crule[r] \in Rule
  BY RuleType, Zenon
<1>3. Follows(crule[r], crule[r])
  BY FollowsSelf
<1> QED
  BY <1>1, <1>2, <1>3, NowLived, Zenon

\* A worker has the lock of r and goes on with o from p.
LEMMA StartHistory ==
    ASSUME TypeInv, HistoryInv, Static, NEW r \in Rules,
           NEW by \in {"addRule", "updRule"}, NEW o, NEW w,
           Taken(r, by, o, w), o.here,
           NEW n \in Rule, Grows(rule[r], n), Version(r, n),
           NEW p \in {"bound", "gone", "redone"},
           OneRule(r, n, crule[r], Hand(by, p, o), w),
           \/ by = "addRule" /\ p = "bound" /\ (n.here => n.fin)
           \/ by = "updRule" /\ p = "gone" /\ o.term
           \/ by = "updRule" /\ p = "redone" /\ o.v4ip # None
    PROVE  HistoryInv'
<1> DEFINE h == Hand(by, p, o)
<1>1. o \in {wait[r].obj, crule[r]} /\ w \in {wait[r], Idle} /\ o \in Rule
  BY TakenVersion, Zenon
<1>2. h \in Handler /\ h.by = by /\ h.at = p /\ h.obj = o
  BY <1>1, Zenon DEF Hand, Handler
<1> HIDE DEF h
<1>3. w \in Handler /\ w.obj \in {wait[r].obj, crule[r], NoRule}
  BY <1>1, RuleType, IdleIs, Zenon
<1>4. Position(n, Idle, w)
  BY <1>1, NowLived, IdlePosition, Zenon
<1>5. w = Idle \/ (w.by \in {"addRule", "updRule"} /\ w.obj.here)
  BY <1>4, Zenon DEF Position
<1>6. Position(n, h, w)
  BY <1>2, <1>5, Zenon DEF Position
<1>7. h.obj \in {work[r].obj, wait[r].obj, crule[r], NoRule}
  BY <1>1, <1>2, Zenon
<1>8. OneRule(r, n, crule[r], h, w)
  BY Zenon DEF h
<1> QED
  BY <1>2, <1>3, <1>6, <1>7, <1>8, LaterHistory, Zenon

LEMMA AddHistory ==
    ASSUME TypeInv, HistoryInv, NEW r \in Rules, AddRule(r)
    PROVE  HistoryInv'
<1>1. Static
  BY AddRuleStep, Zenon
<1>2. PICK o \in Rule, w \in Handler :
         Taken(r, "addRule", o, w) /\ (AddedNot(r, o, w) \/ AddedBound(r, o, w))
  BY AddRuleStep, Zenon
<1>3. /\ w \in {wait[r], Idle}
      /\ o.here => (rule[r].here => crule[r].here)
  BY <1>2, TakenVersion, Zenon
<1>4. rule[r] \in Rule /\ Grows(rule[r], rule[r]) /\ Version(r, rule[r])
  BY RuleType, FollowsSelf, NowLived, Zenon
<1>5. CASE AddedNot(r, o, w)
  <2>1. OneRule(r, rule[r], crule[r], Idle, w)
    BY <1>5, Zenon DEF AddedNot
  <2> QED
    BY <1>1, <1>3, <1>4, <2>1, StopHistory, Zenon
<1>6. CASE AddedBound(r, o, w)
  <2> DEFINE n == Bound(r, rule[r])
  <2>1. o.here /\ OneRule(r, n, crule[r], Hand("addRule", "bound", o), w)
    BY <1>6, Zenon DEF AddedBound
  <2>2. n \in Rule /\ Grows(rule[r], n) /\ Version(r, n)
    BY <1>4, RuleType, RuleOps, BoundGrows, Zenon
  <2>3. ASSUME n.here
        PROVE  n.fin
    <3>1. rule[r].here /\ crule[r].here /\ (rule[r].fin => n.fin)
      BY <1>3, <2>1, <2>2, <2>3, Zenon DEF Grows
    <3>2. CASE crule[r].fin
      BY <3>1, <3>2, NowLived, Zenon DEF Follows
    <3>3. CASE rule[r].term
      BY <3>1, <3>3, <1>4, Zenon DEF Version
    <3>4. CASE ~crule[r].fin /\ ~rule[r].term
      <4>1. Kept(crule[r])
        BY <3>1, <3>4, NowLived, Zenon DEF Kept, Version
      <4>2. n = [rule[r] EXCEPT !.fin = TRUE]
        BY <3>1, <3>4, <4>1, Zenon DEF Bound, Finalized
      <4> QED
        BY <1>4, <4>2, FinalizedFields
    <3> QED
      BY <3>2, <3>3, <3>4, Zenon
  <2> HIDE DEF n
  <2>4. "addRule" \in {"addRule", "updRule"} /\ "bound" \in {"bound", "gone", "redone"}
    OBVIOUS
  <2> QED
    BY <1>1, <1>2, <2>1, <2>2, <2>3, <2>4, StartHistory, Zenon
<1> QED
  BY <1>2, <1>5, <1>6

\* The add handler of r goes on.
LEMMA GotoHistory ==
    ASSUME TypeInv, HistoryInv, Static, NEW r \in Rules,
           work[r].at \in {"bound", "made", "shown"},
           NEW n \in Rule, Grows(rule[r], n), Version(r, n),
           NEW p \in {"made", "shown", "labelled"},
           p \in {"shown", "labelled"} => (n.here => n.v4ip # None),
           OneRule(r, n, crule[r], Moved(r, p), wait[r])
    PROVE  HistoryInv'
<1>1. /\ Moved(r, p) \in Handler /\ Moved(r, p).by = work[r].by
      /\ Moved(r, p).at = p /\ Moved(r, p).obj = work[r].obj
  <2>1. p \in {"made", "shown", "labelled", "cleared"}
    OBVIOUS
  <2> QED
    BY <2>1, MovedType, Zenon
<1>2. Position(rule[r], work[r], wait[r])
  BY NowLived, Zenon
<1>3. /\ work[r].by = "addRule" /\ work[r].obj.here
      /\ wait[r] = Idle \/ (wait[r].by \in {"addRule", "updRule"} /\ wait[r].obj.here)
      /\ rule[r].here => rule[r].fin
  <2>1. work[r] # Idle
    BY IdleIs, Zenon
  <2> QED
    BY <1>2, <2>1, Zenon DEF Position
<1>4. n.here => n.fin
  BY <1>3, Zenon DEF Grows
<1>5. Position(n, Moved(r, p), wait[r])
  BY <1>1, <1>3, <1>4, Zenon DEF Position
<1>6. /\ Moved(r, p).obj \in {work[r].obj, wait[r].obj, crule[r], NoRule}
      /\ wait[r].obj \in {wait[r].obj, crule[r], NoRule}
      /\ wait[r] \in Handler
  BY <1>1, RuleType, Zenon
<1> QED
  BY <1>1, <1>5, <1>6, LaterHistory, Zenon

LEMMA InstallHistory ==
    ASSUME TypeInv, HistoryInv, NEW r \in Rules, InstallRule(r)
    PROVE  HistoryInv'
<1>1. Static /\ (At(r, "bound") \/ At(r, "cleared"))
      /\ (Requeued(r) \/ OneRule(r, rule[r], crule[r], Moved(r, "made"), wait[r]))
  BY InstallRuleStep, Zenon
<1>2. work[r].at \in {"bound", "made", "shown"}
  <2>1. work[r] # Idle
    BY <1>1, IdleIs, Zenon DEF At
  <2> QED
    BY <1>1, <2>1, NowLived, Zenon DEF At, Position
<1>3. rule[r] \in Rule /\ Grows(rule[r], rule[r]) /\ Version(r, rule[r])
  BY RuleType, FollowsSelf, NowLived, Zenon
<1>4. "made" \in {"made", "shown", "labelled"} /\ "made" \notin {"shown", "labelled"}
  OBVIOUS
<1>5. CASE OneRule(r, rule[r], crule[r], Moved(r, "made"), wait[r])
  BY <1>1, <1>2, <1>3, <1>4, <1>5, GotoHistory, Zenon
<1> QED
  BY <1>1, <1>5, RequeuedHistory, Zenon

\* What ShowRule writes, and that the rule has a status then.
LEMMA ShownGrows ==
    ASSUME TypeInv, HistoryInv, NEW r \in Rules, At(r, "made"),
           NEW n, n = PatchedStatus(r, work[r].obj.eip, 0, TRUE)
    PROVE  /\ n \in Rule /\ Grows(rule[r], n) /\ Version(r, n)
           /\ n.here => n.v4ip # None
<1> DEFINE o == rule[r]
           c == crule[r]
           v == work[r].obj.eip
<1>1. o \in Rule /\ c \in Rule /\ work[r].obj \in Rule
  BY RuleType, Zenon
<1>2. v \in Eips /\ v # None /\ v \in Eips \cup {None}
  BY <1>1, NatGatewayAssumption, Zenon DEF Rule
<1>3. Patched(r, v, 0, TRUE, n)
  BY <1>2, PatchedFacts, Zenon DEF TypeInv
<1>4. work[r] # Idle
  BY IdleIs, Zenon DEF At
<1>5. work[r].obj.here /\ (o.here => o.fin)
  BY <1>4, NowLived, Zenon DEF At, Position
<1>6. v = env.at[r] /\ (o.here => c.here)
  BY <1>5, NowLived, Zenon DEF Version
<1>7. CASE n = o /\ (c.here /\ o.here => c.v4ip = v)
  <2>1. o.here => o.v4ip # None
    BY <1>2, <1>6, <1>7, NowLived, Zenon DEF Follows
  <2> QED
    BY <1>1, <1>7, <2>1, NowLived, FollowsSelf, Zenon
<1>8. CASE /\ c.here /\ o.here /\ n.ready = TRUE
           /\ n.v4ip = v /\ n.in = c.inner
  <2>1. /\ n \in Rule
        /\ n.here = o.here /\ n.term = o.term /\ n.fin = o.fin
        /\ n.eip = o.eip /\ n.inner = o.inner /\ n.label = o.label
    BY <1>3, Zenon DEF Patched
  <2>2. Version(r, o) /\ Version(r, c) /\ Follows(c, o) /\ env.at[r] # None
    BY NowLived, Zenon
  <2> HIDE DEF o, c, v
  <2>3. /\ n.v4ip = env.at[r] \/ (n.v4ip = c.v4ip /\ c.v4ip # None)
        /\ n.in = c.inner \/ n.in = c.in
        /\ n.ready => n.in = c.inner
        /\ n.v4ip # c.v4ip => n.in = c.inner
        /\ c.here /\ o.here /\ o.fin
    BY <1>5, <1>6, <1>8, Zenon
  <2>4. Grows(o, n) /\ Version(r, n) /\ n.v4ip # None
    BY <1>1, <2>1, <2>2, <2>3, PatchedGrows, Zenon
  <2> QED
    BY <2>1, <2>4, Zenon DEF o
<1> QED
  BY <1>2, <1>3, <1>7, <1>8, Zenon DEF Patched

LEMMA ShowHistory ==
    ASSUME TypeInv, HistoryInv, NEW r \in Rules, ShowRule(r)
    PROVE  HistoryInv'
<1> DEFINE n == PatchedStatus(r, work[r].obj.eip, 0, TRUE)
<1>1. Static /\ At(r, "made") /\ OneRule(r, n, crule[r], Moved(r, "shown"), wait[r])
  BY ShowRuleStep, Zenon
<1>2. n \in Rule /\ Grows(rule[r], n) /\ Version(r, n) /\ (n.here => n.v4ip # None)
  BY <1>1, ShownGrows, Zenon
<1> HIDE DEF n
<1>3. "shown" \in {"made", "shown", "labelled"} /\ work[r].at \in {"bound", "made", "shown"}
  BY <1>1, Zenon DEF At
<1> QED
  BY <1>1, <1>2, <1>3, GotoHistory, Zenon

LEMMA LabelHistory ==
    ASSUME TypeInv, HistoryInv, NEW r \in Rules, LabelRule(r)
    PROVE  HistoryInv'
<1> DEFINE n == LabelledRule(r)
<1>1. /\ Static /\ At(r, "shown")
      /\ Requeued(r) \/ OneRule(r, n, crule[r], Moved(r, "labelled"), wait[r])
  BY LabelRuleStep, Zenon
<1>2. rule[r] \in Rule /\ work[r].obj \in Rule /\ work[r].obj.eip \in Eips
  BY RuleType, Zenon DEF Rule
<1>3. work[r] # Idle
  BY <1>1, IdleIs DEF At
<1>4. work[r].obj.here /\ (rule[r].here => rule[r].v4ip # None)
  BY <1>1, <1>3, NowLived, Zenon DEF At, Position
<1>5. work[r].obj.eip = env.at[r] /\ Version(r, rule[r])
  BY <1>4, NowLived, Zenon DEF Version
<1>6. n \in Rule /\ Grows(rule[r], n) /\ Version(r, n) /\ (n.here => n.v4ip # None)
  <2>1. CASE ~rule[r].here
    BY <1>2, <1>5, <2>1, FollowsSelf, Zenon DEF LabelledRule
  <2>2. CASE rule[r].here
    <3> DEFINE m == [rule[r] EXCEPT !.label = work[r].obj.eip]
    <3>1. m \in Rule
      BY <1>2, Zenon DEF Rule
    <3>2. /\ m.here = rule[r].here /\ m.term = rule[r].term /\ m.fin = rule[r].fin
          /\ m.eip = rule[r].eip /\ m.inner = rule[r].inner /\ m.label = env.at[r]
          /\ m.v4ip = rule[r].v4ip /\ m.in = rule[r].in /\ m.ready = rule[r].ready
      BY <1>2, <1>5 DEF Rule
    <3> HIDE DEF m
    <3>3. Grows(rule[r], m) /\ Version(r, m)
      BY <1>4, <1>5, <2>2, <3>2, Zenon DEF Grows, Version, Kept
    <3>4. n = m
      BY <2>2 DEF LabelledRule, m
    <3> QED
      BY <1>4, <2>2, <3>1, <3>2, <3>3, <3>4, Zenon
  <2> QED
    BY <2>1, <2>2, Zenon
<1> HIDE DEF n
<1>7. /\ "labelled" \in {"made", "shown", "labelled"}
      /\ work[r].at \in {"bound", "made", "shown"}
  BY <1>1, Zenon DEF At
<1>8. CASE OneRule(r, n, crule[r], Moved(r, "labelled"), wait[r])
  BY <1>1, <1>6, <1>7, <1>8, GotoHistory, Zenon
<1> QED
  BY <1>1, <1>8, RequeuedHistory, Zenon

\* A handler ends, and may have left the finalizer.
LEMMA BoundHistory ==
    ASSUME TypeInv, HistoryInv, Static, NEW r \in Rules,
           NEW n \in {rule[r], Bound(r, rule[r])}, NEW w \in {wait[r], Idle},
           OneRule(r, n, crule[r], Idle, w)
    PROVE  HistoryInv'
<1>1. rule[r] \in Rule /\ NoRule \in Rule
  BY RuleType, Zenon
<1>2. /\ Bound(r, rule[r]) \in Rule
      /\ Grows(rule[r], Bound(r, rule[r])) /\ Version(r, Bound(r, rule[r]))
  BY <1>1, RuleOps, NowLived, BoundGrows, Zenon
<1>3. n \in Rule /\ Grows(rule[r], n) /\ Version(r, n)
  BY <1>1, <1>2, NowLived, FollowsSelf, Zenon
<1> QED
  BY <1>3, StopHistory, Zenon

LEMMA RefreshHistory ==
    ASSUME TypeInv, HistoryInv, NEW r \in Rules, RefreshEip(r)
    PROVE  HistoryInv'
<1>1. Static /\ \E n \in {rule[r], Bound(r, rule[r])} :
                   OneRule(r, n, crule[r], Idle, wait[r])
  BY RefreshEipStep, Zenon
<1>2. wait[r] \in {wait[r], Idle}
  OBVIOUS
<1> QED
  BY <1>1, <1>2, BoundHistory, Zenon

LEMMA KeepHistory ==
    ASSUME TypeInv, HistoryInv, NEW r \in Rules, KeepRule(r)
    PROVE  HistoryInv'
<1>1. Static /\ \E o \in Rule, w \in Handler, n \in {rule[r], Bound(r, rule[r])} :
                   /\ Taken(r, "updRule", o, w)
                   /\ OneRule(r, n, crule[r], Idle, w)
  BY KeepRuleStep, Zenon
<1> QED
  BY <1>1, TakenVersion, BoundHistory, Zenon

LEMMA RemoveHistory ==
    ASSUME TypeInv, HistoryInv, NEW r \in Rules, RemoveRule(r)
    PROVE  HistoryInv'
<1>1. Static /\ \E o \in Rule, w \in Handler :
                   /\ Taken(r, "updRule", o, w) /\ o.here /\ o.term
                   /\ OneRule(r, rule[r], crule[r], Hand("updRule", "gone", o), w)
  BY RemoveRuleStep, Zenon
<1>2. rule[r] \in Rule /\ Grows(rule[r], rule[r]) /\ Version(r, rule[r])
  BY RuleType, FollowsSelf, NowLived, Zenon
<1>3. "updRule" \in {"addRule", "updRule"} /\ "gone" \in {"bound", "gone", "redone"}
  OBVIOUS
<1> QED
  BY <1>1, <1>2, <1>3, StartHistory, Zenon

LEMMA RedoHistory ==
    ASSUME TypeInv, HistoryInv, NEW r \in Rules, RedoRule(r)
    PROVE  HistoryInv'
<1>1. Static /\ \E o \in Rule, w \in Handler :
                   /\ Taken(r, "updRule", o, w) /\ Kept(o) /\ Complete(o)
                   /\ OneRule(r, rule[r], crule[r], Hand("updRule", "redone", o), w)
  BY RedoRuleStep, Zenon
<1>2. rule[r] \in Rule /\ Grows(rule[r], rule[r]) /\ Version(r, rule[r])
  BY RuleType, FollowsSelf, NowLived, Zenon
<1>3. "updRule" \in {"addRule", "updRule"} /\ "redone" \in {"bound", "gone", "redone"}
  OBVIOUS
<1> QED
  BY <1>1, <1>2, <1>3, StartHistory, Zenon DEF Kept, Complete

\* The finalizer goes only with the rule.
LEMMA ReleasedGoes ==
    ASSUME TypeInv, HistoryInv, NEW r \in Rules, At(r, "gone")
    PROVE  ReleasedRule(r) \in {rule[r], NoRule}
<1>1. work[r] # Idle
  BY IdleIs DEF At
<1>2. work[r].obj.here /\ work[r].obj.term
  BY <1>1, NowLived, Zenon DEF At, Position
<1>3. ~Kept(rule[r])
  BY <1>2, NowLived, Zenon DEF Follows
<1>4. rule[r].here => rule[r].term
  BY <1>3, Zenon DEF Kept
<1> QED
  BY <1>4, Zenon DEF ReleasedRule, Unfinalized

LEMMA ReleaseHistory ==
    ASSUME TypeInv, HistoryInv, NEW r \in Rules, ReleaseRule(r)
    PROVE  HistoryInv'
<1> DEFINE n == ReleasedRule(r)
<1>1. Static /\ At(r, "gone") /\ OneRule(r, n, crule[r], Idle, wait[r])
  BY ReleaseRuleStep
<1>2. n \in {rule[r], NoRule}
  BY <1>1, ReleasedGoes, Zenon
<1> HIDE DEF n
<1>3. rule[r] \in Rule /\ NoRule \in Rule /\ env \in Scenario
  BY RuleType, Zenon DEF TypeInv
<1>4. n \in Rule /\ Grows(rule[r], n) /\ Version(r, n)
  BY <1>2, <1>3, NowLived, FollowsSelf, NoRuleVersion, Zenon
<1>5. wait[r] \in {wait[r], Idle}
  OBVIOUS
<1> QED
  BY <1>1, <1>4, <1>5, StopHistory, Zenon

\* A patch of a status that the cache has.
LEMMA KnownGrows ==
    ASSUME TypeInv, HistoryInv, NEW r \in Rules, NEW t \in Nat, NEW b \in BOOLEAN,
           NEW n, n = PatchedStatus(r, None, t, b),
           crule[r].here /\ rule[r].here => crule[r].v4ip # None
    PROVE  n \in Rule /\ Grows(rule[r], n) /\ Version(r, n)
<1> DEFINE o == rule[r]
           c == crule[r]
<1>1. o \in Rule /\ c \in Rule
  BY RuleType, Zenon
<1>2. None \in Eips \cup {None}
  BY Zenon
<1>3. Patched(r, None, t, b, n)
  BY <1>2, PatchedFacts DEF TypeInv
<1>4. Version(r, o) /\ Version(r, c) /\ Follows(c, o) /\ env.at[r] # None
  BY NowLived, Zenon
<1>5. c.here /\ o.here => c.v4ip # None
  OBVIOUS
<1> HIDE DEF o, c
<1>6. CASE n = o
  BY <1>1, <1>4, <1>6, FollowsSelf, Zenon DEF o
<1>7. CASE /\ c.here /\ o.here /\ n.ready = b /\ n.v4ip = c.v4ip
           /\ n.in = (IF b THEN c.inner ELSE c.in)
  <2>1. /\ n \in Rule
        /\ n.here = o.here /\ n.term = o.term /\ n.fin = o.fin
        /\ n.eip = o.eip /\ n.inner = o.inner /\ n.label = o.label
    BY <1>3, Zenon DEF Patched, o
  <2>2. /\ n.v4ip = env.at[r] \/ (n.v4ip = c.v4ip /\ c.v4ip # None)
        /\ n.in = c.inner \/ n.in = c.in
        /\ n.ready => n.in = c.inner
        /\ n.v4ip # c.v4ip => n.in = c.inner
        /\ c.here /\ o.here
    BY <1>5, <1>7, Zenon
  <2>3. o.fin
    BY <1>4, <1>5, <2>2, Zenon DEF Version, Follows
  <2>4. Grows(o, n) /\ Version(r, n) /\ n.v4ip # None
    BY <1>1, <1>4, <2>1, <2>2, <2>3, PatchedGrows, Zenon
  <2> QED
    BY <2>1, <2>4, Zenon DEF o
<1> QED
  BY <1>3, <1>6, <1>7, Zenon DEF Patched, o, c

LEMMA ShowRedoneHistory ==
    ASSUME TypeInv, HistoryInv, NEW r \in Rules, ShowRedone(r)
    PROVE  HistoryInv'
<1> DEFINE m == PatchedStatus(r, None, 0, TRUE)
           n == Bound(r, m)
<1>1. Static /\ At(r, "redone") /\ OneRule(r, n, crule[r], Idle, wait[r])
  BY ShowRedoneStep, Zenon
<1>2. work[r] # Idle
  BY <1>1, IdleIs, Zenon DEF At
<1>3. work[r].obj.here /\ work[r].obj.v4ip # None
  BY <1>1, <1>2, NowLived, Zenon DEF At, Position
<1>4. crule[r].here => crule[r].v4ip # None
  BY <1>3, NowLived, Zenon DEF Follows
<1>5. m \in Rule /\ Grows(rule[r], m) /\ Version(r, m)
  BY <1>4, KnownGrows, Zenon
<1> HIDE DEF m
<1>6. n \in Rule /\ Grows(m, n) /\ Version(r, n)
  BY <1>5, RuleType, RuleOps, BoundGrows, Zenon
<1> HIDE DEF n
<1>7. Grows(rule[r], n)
  BY <1>5, <1>6, Zenon DEF Grows
<1>8. wait[r] \in {wait[r], Idle}
  OBVIOUS
<1> QED
  BY <1>1, <1>6, <1>7, <1>8, StopHistory, Zenon

LEMMA LockHistory ==
    ASSUME TypeInv, HistoryInv, NEW r \in Rules, LockStep(r)
    PROVE  HistoryInv'
<1>1. rule[r] \in Rule /\ Grows(rule[r], rule[r]) /\ Version(r, rule[r])
      /\ work[r] \in Handler /\ Idle \in Handler /\ crule[r] \in Rule
  BY RuleType, FollowsSelf, NowLived, Zenon
<1>2. work[r].obj \in {work[r].obj, wait[r].obj, crule[r], NoRule}
  OBVIOUS
<1>3. Position(rule[r], work[r], wait[r])
  BY NowLived, Zenon
<1>4. ASSUME NEW by \in {"addRule", "updRule"}, WaitForLock(r, by)
      PROVE  HistoryInv'
  <2> DEFINE w == Hand(by, "waiting", crule[r])
  <2>1. Static /\ OneRule(r, rule[r], crule[r], work[r], w)
    BY <1>4, WaitStep, Zenon
  <2>2. crule[r].here
    BY <1>4, Zenon DEF WaitForLock
  <2>3. w \in Handler /\ w.by = by /\ w.obj = crule[r]
    BY <1>1, Zenon DEF Hand, Handler
  <2> HIDE DEF w
  <2>4. Position(rule[r], work[r], w)
    BY <1>3, <2>2, <2>3, Zenon DEF Position
  <2>5. w.obj \in {wait[r].obj, crule[r], NoRule}
    BY <2>3
  <2> QED
    BY <1>1, <1>2, <2>1, <2>3, <2>4, <2>5, LaterHistory, Zenon
<1>5. CASE LockedInVain(r)
  <2>1. Static /\ OneRule(r, rule[r], crule[r], work[r], Idle)
    BY <1>5, InVainStep, Zenon
  <2>2. Position(rule[r], work[r], Idle)
    BY <1>3, Zenon DEF Position
  <2>3. Idle.obj \in {wait[r].obj, crule[r], NoRule}
    BY IdleIs
  <2> QED
    BY <1>1, <1>2, <2>1, <2>2, <2>3, LaterHistory, Zenon
<1>6. CASE FailRule(r)
  BY <1>6, FailRuleStep, RequeuedHistory, Zenon
<1>7. "addRule" \in {"addRule", "updRule"} /\ "updRule" \in {"addRule", "updRule"}
  OBVIOUS
<1> QED
  BY <1>4, <1>5, <1>6, <1>7, Zenon DEF LockStep

\* Without an edit there is nothing to change.
LEMMA NothingChanges ==
    ASSUME TypeInv, HistoryInv, NEW r \in Rules
    PROVE  ~EditRule(r) /\ ~ChangeRule(r) /\ ~ClearRule(r)
<1>1. ~EditRule(r)
  BY DEF HistoryInv, Unedited, EditRule
<1>2. ~ChangeRule(r)
  <2> SUFFICES ASSUME NEW o \in {crule[r], wait[r].obj}, Kept(o), Complete(o), Changed(o)
               PROVE  FALSE
    BY Zenon DEF ChangeRule
  <2>1. Version(r, o)
    BY NowLived, Zenon
  <2> QED
    BY <2>1, Zenon DEF Version, Kept, Complete, Changed
<1>3. ~ClearRule(r)
  <2> SUFFICES ASSUME work[r].at = "marked"
               PROVE  FALSE
    BY DEF ClearRule, At
  <2>1. work[r] # Idle
    BY IdleIs
  <2> QED
    BY <2>1, NowLived, Zenon DEF Position
<1> QED
  BY <1>1, <1>2, <1>3

\* Nothing but the rule at the API server changes.
LEMMA SweepHistory ==
    ASSUME TypeInv, HistoryInv, NEW g \in Gws, SweepOf(g)
    PROVE  HistoryInv'
<1>1. /\ Static /\ UNCHANGED <<crule, work, wait>>
      /\ \A r \in Rules : Swept(r, g)
  BY SweepStep, Zenon DEF SweepOf
<1>2. ASSUME NEW r \in Rules
      PROVE  History(r)'
  <2> DEFINE n == rule'[r]
  <2>1. n \in Rule /\ Grows(rule[r], n) /\ Version(r, n)
    <3>1. CASE n = rule[r]
      BY <3>1, RuleType, FollowsSelf, NowLived, Zenon
    <3>2. CASE /\ crule[r].here /\ crule[r].label # None
               /\ n = PatchedStatus(r, None, initCreateAt(g), FALSE)
      <4>1. crule[r].v4ip # None
        BY <3>2, NowLived, Zenon DEF Version
      <4>2. initCreateAt(g) \in Nat
        BY SweepTime
      <4> QED
        BY <3>2, <4>1, <4>2, KnownGrows, Zenon
    <3> QED
      BY <1>1, <3>1, <3>2, Zenon DEF Swept
  <2>2. Position(rule[r], work[r], wait[r])
    BY NowLived, Zenon
  <2> HIDE DEF n
  <2>3. Position(n, work[r], wait[r])
    BY <2>1, <2>2, Zenon DEF Position, Grows
  <2>4. /\ work[r].obj \in {work[r].obj, wait[r].obj, crule[r], NoRule}
        /\ wait[r].obj \in {wait[r].obj, crule[r], NoRule}
    OBVIOUS
  <2>5. /\ rule[r] \in Rule /\ crule[r] \in Rule /\ work[r] \in Handler
        /\ wait[r] \in Handler /\ env \in Scenario
    BY RuleType, Zenon DEF TypeInv
  <2>6. /\ Lived(r, rule[r], crule[r], work[r], wait[r])
        /\ r \in env'.makes => NoneOf(rule[r], crule[r], work[r], wait[r])
    BY <1>1, HistoryOf, Zenon DEF Static
  <2>7. /\ Lived(r, n, crule[r], work[r], wait[r])
        /\ r \in env'.makes => NoneOf(n, crule[r], work[r], wait[r])
    BY <2>1, <2>3, <2>4, <2>5, <2>6, LaterLived, Zenon
  <2>8. rule'[r] = n /\ crule'[r] = crule[r] /\ work'[r] = work[r] /\ wait'[r] = wait[r]
    BY <1>1, Zenon DEF n
  <2> QED
    BY <1>1, <2>7, <2>8, HistoryAt, Zenon
<1> QED
  BY <1>1, <1>2, UneditedStays, Zenon DEF HistoryInv

\* The cache is the API server and no handler is at work.
LEMMA FreshLived ==
    ASSUME env \in Scenario, NEW r \in Rules, NEW o \in Rule, Version(r, o)
    PROVE  Lived(r, o, o, Idle, Idle)
<1>1. /\ Version(r, NoRule) /\ Follows(NoRule, o) /\ ~NoRule.here
      /\ Idle.obj = NoRule /\ Idle.by = "none" /\ Idle.at = "idle"
  BY NoRuleVersion, NoRuleType, IdleIs
<1>2. Follows(o, o)
  BY FollowsSelf
<1>3. Position(o, Idle, Idle)
  BY <1>1 DEF Position
<1>4. Versions(r, o, o, Idle, Idle) /\ Ordered(o, o, Idle, Idle)
  BY <1>1, <1>2, Zenon DEF Versions, Ordered
<1> QED
  BY <1>3, <1>4, Zenon DEF Lived

LEMMA CrashHistory ==
    ASSUME TypeInv, HistoryInv, Crash
    PROVE  HistoryInv'
<1>1. /\ Static
      /\ \A r \in Rules : /\ rule'[r] = rule[r] /\ crule'[r] = rule[r]
                          /\ work'[r] = Idle /\ wait'[r] = Idle
  BY CrashStep, Zenon
<1>2. ASSUME NEW r \in Rules
      PROVE  History(r)'
  <2>1. Lived(r, rule[r], rule[r], Idle, Idle)
    BY NowLived, RuleType, FreshLived, Zenon
  <2>2. r \in env'.makes => NoneOf(rule[r], crule[r], work[r], wait[r])
    BY <1>1, HistoryOf, Zenon DEF Static
  <2>3. ~Idle.obj.here
    BY NowLived, NoRuleType, IdleIs, Zenon
  <2>4. r \in env'.makes => NoneOf(rule[r], rule[r], Idle, Idle)
    BY <2>2, <2>3, Zenon DEF NoneOf
  <2> QED
    BY <1>1, <2>1, <2>4, HistoryAt, Zenon
<1> QED
  BY <1>1, <1>2, UneditedStays, Zenon DEF HistoryInv

LEMMA StillHistory ==
    ASSUME HistoryInv, Static, UNCHANGED <<rule, crule, work, wait>>
    PROVE  HistoryInv'
<1>1. \A r \in Rules : History(r)'
  BY UntouchedHistory
<1> QED
  BY <1>1, UneditedStays, Zenon DEF HistoryInv

LEMMA HistoryStep ==
    ASSUME TypeInv, HistoryInv, [Next]_vars
    PROVE  HistoryInv'
<1>1. CASE AsideStep
  <2>1. Aside
    BY <1>1, AsideSteps
  <2>2. Static /\ UNCHANGED <<rule, crule, work, wait>>
    BY <2>1 DEF Aside, EnvAside
  <2> QED
    BY <2>2, StillHistory
<1>2. ASSUME NEW r \in Rules, UserStep(r)
      PROVE  HistoryInv'
  BY <1>2, CreateHistory, DeleteHistory, EventHistory, NothingChanges, Zenon
  DEF UserStep
<1>3. ASSUME NEW r \in Rules, AddStep(r)
      PROVE  HistoryInv'
  BY <1>3, AddHistory, InstallHistory, ShowHistory, LabelHistory, RefreshHistory,
     Zenon DEF AddStep
<1>4. ASSUME NEW r \in Rules, UpdateStep(r)
      PROVE  HistoryInv'
  BY <1>4, RemoveHistory, ReleaseHistory, NothingChanges, RedoHistory,
     ShowRedoneHistory, KeepHistory, Zenon DEF UpdateStep
<1>5. ASSUME NEW g \in Gws, Restart(g)
      PROVE  HistoryInv'
  <2>1. Static /\ UNCHANGED <<rule, crule, work, wait>>
    BY <1>5, RestartStep, Zenon
  <2> QED
    BY <2>1, StillHistory
<1> QED
  BY <1>1, <1>2, <1>3, <1>4, <1>5, Steps, LockHistory, SweepHistory, CrashHistory,
     Zenon DEF RuleStepOf

LEMMA HistoryInit ==
    ASSUME Init, Unedited
    PROVE  HistoryInv
<1>1. TypeInv /\ env \in Scenarios /\ env \in Scenario
  BY InitFacts, Zenon DEF TypeInv
<1>2. ASSUME NEW r \in Rules
      PROVE  History(r)
  <2> DEFINE n == [NewRule(env.at[r], env.inner[r]) EXCEPT
                     !.fin = TRUE, !.label = env.at[r],
                     !.v4ip = env.at[r], !.in = env.inner[r], !.ready = TRUE]
  <2>1. /\ crule[r] = rule[r] /\ work[r] = Idle /\ wait[r] = Idle
        /\ r \notin env.there => rule[r] = NoRule
        /\ r \in env.there => rule[r] = n
    BY InitFacts, Zenon
  <2>2. env.there \cap env.makes = {}
    BY <1>1, NatGatewayAssumption
  <2>3. ~NoRule.here /\ Version(r, NoRule) /\ Idle.obj = NoRule
    BY <1>1, NoRuleType, NoRuleVersion, IdleIs, Zenon
  <2>4. Version(r, n)
    <3>1. /\ n.here /\ ~n.term /\ n.fin /\ n.eip = env.at[r] /\ n.inner = env.inner[r]
          /\ n.in = env.inner[r] /\ n.v4ip = env.at[r] /\ n.label = env.at[r]
      BY DEF NewRule
    <3>2. env.at[r] # None
      BY <1>1, RuleType, NatGatewayAssumption
    <3> HIDE DEF n
    <3> QED
      BY <3>1, <3>2, Zenon DEF Version
  <2> HIDE DEF n
  <2>5. Version(r, rule[r]) /\ rule[r] \in Rule
    BY <1>1, <2>1, <2>3, <2>4, RuleType, Zenon
  <2>6. Lived(r, rule[r], crule[r], work[r], wait[r])
    BY <1>1, <2>1, <2>5, FreshLived, Zenon
  <2>7. r \in env.makes => NoneOf(rule[r], crule[r], work[r], wait[r])
    <3>1. r \in env.makes => rule[r] = NoRule
      BY <2>1, <2>2
    <3> QED
      BY <2>1, <2>3, <3>1, Zenon DEF NoneOf
  <2> QED
    BY <2>6, <2>7, Zenon DEF History
<1> QED
  BY <1>2, Zenon DEF HistoryInv

-----------------------------------------------------------------------------
(* The rows of the pods *)

\* What WithRow makes of the rows of a gateway.
NewRows(old, k, e, i, b) ==
    IF k = "share"
    THEN {w \in old : ~Same(w, k, e)} \cup {Row(k, e, b \cup {i})}
    ELSE old \cup {Row(k, e, {i})}

LEMMA WithRowRows ==
    ASSUME TypeInv, NEW k \in Kinds, NEW e \in Eips, NEW i \in Inners,
           NEW b \in SUBSET Inners, pod' = WithRow(k, e, i, b)
    PROVE  /\ \A g \in Gws \ {GwOf[e]} : pod'[g] = pod[g]
           /\ pod'[GwOf[e]].rows = NewRows(pod[GwOf[e]].rows, k, e, i, b)
<1> DEFINE new == NewRows(pod[GwOf[e]].rows, k, e, i, b)
<1>1. GwOf[e] \in Gws /\ pod \in [Gws -> Pod] /\ pod[GwOf[e]] \in Pod
  BY EipType DEF TypeInv, PodTypes
<1>2. pod' = [pod EXCEPT ![GwOf[e]].rows = new]
  BY DEF WithRow, NewRows
<1> HIDE DEF new
<1>3. pod'[GwOf[e]].rows = new /\ \A g \in Gws \ {GwOf[e]} : pod'[g] = pod[g]
  BY <1>1, <1>2 DEF Pod
<1> QED
  BY <1>3 DEF new

\* What is deleted for a version of r that is there is r's own row.
LEMMA TargetsOwn ==
    ASSUME TypeInv, NEW r \in Rules, NEW o \in Rule, Version(r, o), o.here
    PROVE  \A t \in Targets(o) : t[1] = env.at[r] /\ t[2] = env.inner[r]
<1>1. /\ o.eip = env.at[r] /\ o.inner = env.inner[r]
      /\ o.v4ip # None => o.v4ip = env.at[r]
      /\ o.in # None => o.in = env.inner[r]
  BY Zenon DEF Version
<1>2. /\ (IF o.v4ip # None THEN o.v4ip ELSE o.eip) = env.at[r]
      /\ (IF o.in # None THEN o.in ELSE o.inner) = env.inner[r]
  BY <1>1
<1>3. Targets(o) \subseteq {<<env.at[r], env.inner[r]>>}
  BY <1>1, <1>2 DEF Targets
<1> QED
  BY <1>3

\* The rows of the rules that are there at the start.
FirstRow(r) ==
    Row(env.kind[r], env.at[r],
        IF env.kind[r] = "share"
        THEN {env.inner[t] : t \in {u \in {v \in Rules \cap env.there :
                                             env.at[v] = env.at[r]} :
                                      env.kind[u] = "share"}}
        ELSE {env.inner[r]})

LEMMA FirstRows ==
    ASSUME Init
    PROVE  \A g \in Gws : pod[g].rows = {FirstRow(r) :
                             r \in {u \in Rules \cap env.there : GwOf[env.at[u]] = g}}
BY InitFacts, Zenon DEF FirstRow

=============================================================================
