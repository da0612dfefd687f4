--------------------------- MODULE RouteRulesProofs -------------------------
(***************************************************************************)
(* Proofs about RouteRules, for any number of lists, versions and editors, *)
(* and about ListRefresh, for any number of savers, timers and settings.   *)
(* RouteRules: whatever is stored and not yet in use has somebody who is   *)
(* going to apply it: an editor on its way to the timer, the timer, or a   *)
(* run that reads after the change.  Rules and lists have an invariant     *)
(* each.  ListRefresh: what a call has read is still so, unless the        *)
(* history says that it was overtaken.                                     *)
(***************************************************************************)
EXTENDS MCRouting, TLAPS

USE SMTT(30)

EditorPC == {"idle", "saved", "at", "timer", "done"}
ApplyPC == {"idle", "read", "reset", "add", "mark", "store"}
Holding == {"build", "swap", "mark", "store", "unlock"}
RefreshPC == Holding \cup {"idle", "stop", "lock", "applied", "stopApply"}
EditorType == [pc : EditorPC, v : Nat]
ApplyType == [pc : ApplyPC, v : Nat, got : SUBSET Lists, todo : SUBSET Lists,
              val : {<<>>} \cup (Lists \X (Nat \ {0}))]
RefreshType == [pc : RefreshPC, v : Nat, todo : SUBSET Lists, new : [Lists -> Nat]]
ActivationType == [applyVersion : Nat, applyAt : BOOLEAN, refreshVersion : Nat,
                   refreshAt : BOOLEAN]
MishapType == [dropped : SUBSET Lists, overlap : BOOLEAN, stale : BOOLEAN, failed : BOOLEAN]
Editors == RuleEditors \cup ListEditors

Types ==
    /\ rules \subseteq Lists /\ matchers \subseteq Lists
    /\ contents \in [Lists -> Nat] /\ trie \in [Lists -> Nat]
    /\ activation \in ActivationType /\ mishap \in MishapType
    /\ applyTimer \in Nat /\ listTimer \in BOOLEAN
    /\ editor \in [Editors -> EditorType]
    /\ apply \in [Runs -> ApplyType] /\ refresh \in [Runs -> RefreshType]
    /\ mu \in Runs \cup {"free"}

\* A refresh holds the lock while it works; a list is in hand only while lists
\* are added; the API applies once; versions that are handed on are not 0.
Courses ==
    /\ \A r \in Runs : refresh[r].pc \in Holding => mu = r
    /\ \A r \in Runs : apply[r].val # <<>> => apply[r].pc = "add"
    /\ refresh["api"].pc # "idle" \/ refresh["api"].v = 0 => apply["api"].pc = "idle"
    /\ refresh["api"].pc \in {"stop", "lock"} => activation.refreshVersion # 0
    /\ refresh["api"].pc \in Holding \cup {"applied", "stopApply"} => refresh["api"].v # 0
    /\ \A e \in RuleEditors : editor[e].pc \in {"at", "timer"} => editor[e].v # 0

\* Somebody is going to look at applyVersion once more and clear applyAt.
Clearing ==
    \/ applyTimer # 0 /\ applyTimer = activation.applyVersion
    \/ \E e \in RuleEditors : editor[e].pc \in {"at", "timer"}
    \/ refresh["api"].pc = "stopApply" \/ apply["api"].pc # "idle"
    \/ /\ apply["timer"].pc \in {"read", "reset", "add", "mark"}
       /\ apply["timer"].v = activation.applyVersion
    \/ apply["timer"].pc = "store"

\* Somebody is going to read the rules, or has read those that are stored.
Applying ==
    \/ applyTimer # 0 /\ applyTimer = activation.applyVersion
    \/ \E e \in RuleEditors : editor[e].pc \in {"saved", "at", "timer"}
    \/ refresh["api"].pc = "stopApply"
    \/ \E r \in Runs : apply[r].pc = "read"
    \/ \E r \in Runs : apply[r].pc \in {"reset", "add"} /\ apply[r].got = rules

RulesKept ==
    /\ activation.applyAt => mishap.stale \/ mishap.failed \/ Clearing
    /\ \/ mishap.overlap \/ mishap.failed \/ mishap.stale
       \/ Applying
       \/ /\ matchers = rules
          /\ \A r \in Runs : apply[r].pc \in {"reset", "add"} => apply[r].got = rules

\* A refresh is going to begin.
Coming ==
    \/ listTimer
    \/ \E e \in ListEditors : editor[e].pc \in {"saved", "at", "timer"}
    \/ \E r \in Runs : refresh[r].pc \in {"stop", "lock"}

\* Somebody is going to look at refreshVersion once more and clear refreshAt.
Marking ==
    \/ listTimer
    \/ \E e \in ListEditors : editor[e].pc \in {"at", "timer"}
    \/ \E r \in Runs : refresh[r].pc \in {"stop", "lock", "store"}
    \/ \E r \in Runs : /\ refresh[r].pc \in {"build", "swap", "mark"}
                       /\ refresh[r].v = activation.refreshVersion

Building(r, l) ==
    \/ refresh[r].pc = "build" /\ l \in refresh[r].todo
    \/ refresh[r].pc \in {"build", "swap"} /\ refresh[r].new[l] \in {0, contents[l]}

\* An indexed list is as it is stored, or is going to be.
IndexFresh ==
    /\ \A l \in Lists :
         \/ trie[l] = 0 \/ trie[l] = contents[l] \/ l \in mishap.dropped
         \/ Coming \/ \E r \in Runs : Building(r, l)
    /\ \A r \in Runs : refresh[r].pc \in {"build", "swap"} =>
         \A l \in Lists : refresh[r].new[l] \in {0, contents[l]} \/ Coming

\* The lists of a run that no other run disturbs.
InIndex(l) == trie[l] # 0 \/ l \in mishap.dropped
Alone(r) == apply[r].pc = "add" /\ \A q \in Runs \ {r} : apply[q].pc # "add"
IndexFull ==
    \/ mishap.overlap
    \/ /\ (\A r \in Runs : apply[r].pc # "add") => \A l \in matchers : InIndex(l)
       /\ \A r \in Runs : Alone(r) =>
            \A l \in apply[r].got :
                \/ InIndex(l) \/ l \in apply[r].todo
                \/ apply[r].val # <<>> /\ apply[r].val[1] = l

ListsKept == (activation.refreshAt => Marking) /\ IndexFresh /\ IndexFull
-----------------------------------------------------------------------------
(* What the steps do. *)

Ed(e, pc, v) ==
    /\ editor' \in [Editors -> EditorType] /\ editor'[e].pc = pc /\ editor'[e].v = v
    /\ \A f \in Editors \ {e} : editor'[f] = editor[f]
Ap(r, pc, v, got, todo, val) ==
    /\ apply' \in [Runs -> ApplyType]
    /\ apply'[r].pc = pc /\ apply'[r].v = v /\ apply'[r].got = got /\ apply'[r].todo = todo
    /\ apply'[r].val = val
    /\ \A q \in Runs \ {r} : apply'[q] = apply[q]
Re(r, pc, v, todo, new) ==
    /\ refresh' \in [Runs -> RefreshType]
    /\ refresh'[r].pc = pc /\ refresh'[r].v = v /\ refresh'[r].todo = todo
    /\ refresh'[r].new = new
    /\ \A q \in Runs \ {r} : refresh'[q] = refresh[q]
Act(av, aa, rv, ra) ==
    /\ activation' \in ActivationType
    /\ activation'.applyVersion = av /\ activation'.applyAt = aa
    /\ activation'.refreshVersion = rv /\ activation'.refreshAt = ra
Mis(dropped, overlap, stale, failed) ==
    /\ mishap' \in MishapType /\ mishap'.dropped = dropped /\ mishap'.overlap = overlap
    /\ mishap'.stale = stale /\ mishap'.failed = failed


LEMMA ApPut ==
    ASSUME Types, NEW r \in Runs, NEW x \in ApplyType, apply' = [apply EXCEPT ![r] = x]
    PROVE  Ap(r, x.pc, x.v, x.got, x.todo, x.val)
  BY Zenon DEF Types, Ap
LEMMA RePut ==
    ASSUME Types, NEW r \in Runs, NEW x \in RefreshType, refresh' = [refresh EXCEPT ![r] = x]
    PROVE  Re(r, x.pc, x.v, x.todo, x.new)
  BY Zenon DEF Types, Re
LEMMA EdPut ==
    ASSUME Types, NEW e \in Editors, NEW x \in EditorType, editor' = [editor EXCEPT ![e] = x]
    PROVE  Ed(e, x.pc, x.v)
  BY Zenon DEF Types, Ed

LEMMA ApFields ==
    ASSUME Types, NEW r \in Runs
    PROVE  /\ apply[r] \in ApplyType /\ apply[r].pc \in ApplyPC /\ apply[r].v \in Nat
           /\ apply[r].got \in SUBSET Lists /\ apply[r].todo \in SUBSET Lists
           /\ apply[r].val \in {<<>>} \cup (Lists \X (Nat \ {0}))
  BY Zenon DEF Types, ApplyType


LEMMA ReFields ==
    ASSUME Types, NEW r \in Runs
    PROVE  /\ refresh[r] \in RefreshType /\ refresh[r].pc \in RefreshPC
           /\ refresh[r].v \in Nat /\ refresh[r].todo \in SUBSET Lists
           /\ refresh[r].new \in [Lists -> Nat]
  BY Zenon DEF Types, RefreshType

LEMMA EdFields ==
    ASSUME Types, NEW e \in Editors
    PROVE  editor[e] \in EditorType /\ editor[e].pc \in EditorPC /\ editor[e].v \in Nat
  BY Zenon DEF Types, EditorType

LEMMA OtherFields ==
    ASSUME Types
    PROVE  /\ activation.applyVersion \in Nat /\ activation.applyAt \in BOOLEAN
           /\ activation.refreshVersion \in Nat /\ activation.refreshAt \in BOOLEAN
           /\ mishap.dropped \in SUBSET Lists /\ mishap.overlap \in BOOLEAN
           /\ mishap.stale \in BOOLEAN /\ mishap.failed \in BOOLEAN
  BY Zenon DEF Types, ActivationType, MishapType

\* Steps that only move a program counter.
LEMMA ApStep ==
    ASSUME Types, NEW r \in Runs, NEW pc \in ApplyPC, apply' = [apply EXCEPT ![r].pc = pc]
    PROVE  Ap(r, pc, apply[r].v, apply[r].got, apply[r].todo, apply[r].val)
<1> DEFINE x == [apply[r] EXCEPT !.pc = pc]
<1>1. apply' = [apply EXCEPT ![r] = x]
  BY Zenon
<1>2. x \in ApplyType
  BY ApFields, Zenon DEF ApplyType
<1>3. /\ x.pc = pc /\ x.v = apply[r].v /\ x.got = apply[r].got /\ x.todo = apply[r].todo
      /\ x.val = apply[r].val
  BY ApFields, Zenon DEF ApplyType
<1> HIDE DEF x
<1> QED
  BY <1>1, <1>2, <1>3, ApPut, Zenon

LEMMA ReStep ==
    ASSUME Types, NEW r \in Runs, NEW pc \in RefreshPC, refresh' = [refresh EXCEPT ![r].pc = pc]
    PROVE  Re(r, pc, refresh[r].v, refresh[r].todo, refresh[r].new)
<1> DEFINE x == [refresh[r] EXCEPT !.pc = pc]
<1>1. refresh' = [refresh EXCEPT ![r] = x]
  BY Zenon
<1>2. x \in RefreshType
  BY ReFields, Zenon DEF RefreshType
<1>3. x.pc = pc /\ x.v = refresh[r].v /\ x.todo = refresh[r].todo /\ x.new = refresh[r].new
  BY ReFields, Zenon DEF RefreshType
<1> HIDE DEF x
<1> QED
  BY <1>1, <1>2, <1>3, RePut, Zenon

LEMMA EdStep ==
    ASSUME Types, NEW e \in Editors, NEW pc \in EditorPC, editor' = [editor EXCEPT ![e].pc = pc]
    PROVE  Ed(e, pc, editor[e].v)
<1> DEFINE x == [editor[e] EXCEPT !.pc = pc]
<1>1. editor' = [editor EXCEPT ![e] = x]
  BY Zenon
<1>2. x \in EditorType /\ x.pc = pc /\ x.v = editor[e].v
  BY EdFields, Zenon DEF EditorType
<1> HIDE DEF x
<1> QED
  BY <1>1, <1>2, EdPut, Zenon

LEMMA EditorSets == /\ RuleEditors \subseteq Editors /\ ListEditors \subseteq Editors
                    /\ \A e \in RuleEditors : e \notin ListEditors
  BY RouteRulesConstants, Zenon DEF Editors

LEMMA NoApplyFields ==
    /\ NoApply \in ApplyType /\ NoApply.pc = "idle" /\ NoApply.v = 0 /\ NoApply.got = {}
    /\ NoApply.todo = {} /\ NoApply.val = <<>>
  BY DEF NoApply, ApplyType, ApplyPC

LEMMA EmptyFields == Empty \in [Lists -> Nat] /\ \A l \in Lists : Empty[l] = 0
  BY DEF Empty

\* The names of places that are compared below.
LEMMA Places ==
    /\ {"saved", "at", "timer", "done"} \subseteq EditorPC
    /\ {"read", "reset", "add", "mark", "store"} \subseteq ApplyPC
    /\ {"stop", "lock", "build", "swap", "mark", "store", "unlock", "applied", "stopApply",
        "idle"} \subseteq RefreshPC
    /\ "api" \in Runs /\ "timer" \in Runs
  BY Zenon DEF EditorPC, ApplyPC, RefreshPC, Holding, Runs
-----------------------------------------------------------------------------
(* What the two invariants look at. *)

RulesFrame ==
    /\ UNCHANGED <<rules, matchers, applyTimer>>
    /\ activation'.applyAt = activation.applyAt
    /\ activation'.applyVersion = activation.applyVersion
    /\ mishap'.overlap = mishap.overlap /\ mishap'.stale = mishap.stale
    /\ mishap'.failed = mishap.failed
    /\ \A e \in RuleEditors : editor'[e].pc = editor[e].pc
    /\ \A r \in Runs : /\ apply'[r].pc = apply[r].pc /\ apply'[r].v = apply[r].v
                       /\ apply'[r].got = apply[r].got
    /\ refresh'["api"].pc = "stopApply" <=> refresh["api"].pc = "stopApply"

LEMMA RulesSame ==
    ASSUME RulesKept, RulesFrame
    PROVE  RulesKept'
<1>1. Clearing => Clearing'
  BY Places, Zenon DEF RulesFrame, Clearing
<1>2. Applying => Applying'
  BY Places, Zenon DEF RulesFrame, Applying
<1> QED
  BY <1>1, <1>2, Zenon DEF RulesKept, RulesFrame

\* The lists are as fresh as they were, and they are all there.
LEMMA FreshSame ==
    ASSUME IndexFresh, UNCHANGED <<contents, trie>>, mishap.dropped \subseteq mishap'.dropped,
           Coming => Coming',
           \A r \in Runs : \/ refresh'[r] = refresh[r]
                           \/ /\ refresh'[r].pc \notin {"build", "swap"}
                              /\ refresh[r].pc \notin {"build", "swap"}
    PROVE  IndexFresh'
<1>1. ASSUME NEW r \in Runs, NEW l \in Lists, Building(r, l)
      PROVE  Building(r, l)'
  BY <1>1, Zenon DEF Building
<1> QED
  BY <1>1, Zenon DEF IndexFresh

LEMMA FreshComing ==
    ASSUME Coming'
    PROVE  IndexFresh'
  BY Zenon DEF IndexFresh

LEMMA FullSame ==
    ASSUME Types, IndexFull, UNCHANGED matchers, mishap'.overlap = mishap.overlap,
           \A l \in Lists : InIndex(l) => InIndex(l)',
           \A r \in Runs : /\ apply'[r].pc = "add" <=> apply[r].pc = "add"
                           /\ apply[r].pc = "add" => apply'[r] = apply[r]
    PROVE  IndexFull'
<1>1. ASSUME NEW r \in Runs, Alone(r)'
      PROVE  Alone(r) /\ apply'[r] = apply[r]
  BY <1>1, Zenon DEF Alone
<1>2. CASE mishap.overlap
  BY <1>2, Zenon DEF IndexFull
<1>3. CASE ~mishap.overlap
  <2>1. (\A r \in Runs : apply'[r].pc # "add") => \A l \in matchers' : InIndex(l)'
    BY <1>3, Zenon DEF IndexFull, Types
  <2>2. ASSUME NEW r \in Runs, Alone(r)', NEW l \in apply'[r].got
        PROVE  \/ InIndex(l)' \/ l \in apply'[r].todo
               \/ apply'[r].val # <<>> /\ apply'[r].val[1] = l
    <3>1. Alone(r) /\ apply'[r] = apply[r] /\ l \in apply[r].got
      BY <1>1, <2>2, Zenon
    <3>2. l \in Lists
      BY <3>1, ApFields, Zenon
    <3>3. \/ InIndex(l) \/ l \in apply[r].todo
          \/ apply[r].val # <<>> /\ apply[r].val[1] = l
      BY <1>3, <3>1, Zenon DEF IndexFull
    <3> QED
      BY <3>1, <3>2, <3>3, Zenon
  <2> QED
    BY <2>1, <2>2, Zenon DEF IndexFull
<1> QED
  BY <1>2, <1>3, Zenon

Working == {"stop", "lock", "build", "swap", "mark", "store"}

ListsFrame ==
    /\ UNCHANGED <<contents, trie, matchers, listTimer>>
    /\ activation'.refreshAt = activation.refreshAt
    /\ activation'.refreshVersion = activation.refreshVersion
    /\ mishap'.dropped = mishap.dropped /\ mishap'.overlap = mishap.overlap
    /\ \A e \in ListEditors : editor'[e].pc = editor[e].pc
    /\ \A r \in Runs :
         /\ \/ refresh'[r] = refresh[r]
            \/ refresh'[r].pc \notin Working /\ refresh[r].pc \notin Working
         /\ apply'[r].pc = "add" <=> apply[r].pc = "add"
         /\ apply[r].pc = "add" => apply'[r] = apply[r]

LEMMA ListsSame ==
    ASSUME Types, ListsKept, ListsFrame
    PROVE  ListsKept'
<1>1. Coming => Coming'
  BY Zenon DEF ListsFrame, Coming, Working
<1>2. Marking => Marking'
  BY Zenon DEF ListsFrame, Marking, Working
<1>3. IndexFresh'
  BY <1>1, FreshSame, Zenon DEF ListsFrame, ListsKept, Working
<1>4. \A l \in Lists : InIndex(l) => InIndex(l)'
  BY Zenon DEF ListsFrame, InIndex
<1>5. IndexFull'
  BY <1>4, FullSame, Zenon DEF ListsFrame, ListsKept
<1> QED
  BY <1>2, <1>3, <1>5, Zenon DEF ListsKept, ListsFrame

Inv == Types /\ Courses /\ RulesKept /\ ListsKept

LEMMA InitInv == Init => Inv
<1> SUFFICES ASSUME Init PROVE Inv
  OBVIOUS
<1>1. Types
  <2>1. [pc |-> "idle", v |-> 0, todo |-> {}, new |-> Empty] \in RefreshType
    BY EmptyFields DEF RefreshType, RefreshPC
  <2>2. [pc |-> "idle", v |-> 0] \in EditorType
    BY DEF EditorType, EditorPC
  <2>3. activation \in ActivationType /\ mishap \in MishapType
    BY DEF Init, ActivationType, MishapType
  <2>4. apply \in [Runs -> ApplyType]
    BY NoApplyFields, Zenon DEF Init
  <2>5. refresh \in [Runs -> RefreshType] /\ editor \in [Editors -> EditorType]
    BY <2>1, <2>2, Zenon DEF Init, Editors
  <2>6. /\ rules \subseteq Lists /\ matchers \subseteq Lists
        /\ contents \in [Lists -> Nat] /\ trie \in [Lists -> Nat]
        /\ applyTimer \in Nat /\ listTimer \in BOOLEAN /\ mu \in Runs \cup {"free"}
    <3>1. 0 \in Nat /\ 1 \in Nat
      OBVIOUS
    <3> QED
      BY <3>1, Zenon DEF Init
  <2> QED
    BY <2>3, <2>4, <2>5, <2>6, Zenon DEF Types
<1>2. /\ \A r \in Runs : apply[r].pc = "idle" /\ refresh[r].pc = "idle" /\ apply[r].val = <<>>
      /\ \A e \in Editors : editor[e].pc = "idle"
      /\ ~activation.applyAt /\ ~activation.refreshAt
      /\ matchers = rules /\ trie = contents /\ \A l \in Lists : trie[l] = 1
      /\ matchers = Lists
  BY NoApplyFields DEF Init, Editors
<1>3. Courses
  BY <1>2, Places, EditorSets, Zenon DEF Courses, Holding
<1>4. RulesKept
  BY <1>2, Zenon DEF RulesKept
<1>5. ListsKept
  <2>1. IndexFresh
    BY <1>2, Zenon DEF IndexFresh
  <2>2. IndexFull
    BY <1>2 DEF IndexFull, InIndex, Alone
  <2> QED
    BY <1>2, <2>1, <2>2, Zenon DEF ListsKept
<1> QED
  BY <1>1, <1>3, <1>4, <1>5, Zenon DEF Inv
-----------------------------------------------------------------------------
(* The calls that save rules. *)

LEMMA SaveRuleKeeps ==
    ASSUME Inv, NEW e \in RuleEditors, NEW L \in SUBSET Lists, SaveRule(e, L)
    PROVE  Inv'
<1>1. /\ Ed(e, "saved", editor[e].v) /\ editor[e].pc = "idle" /\ rules' = L
      /\ UNCHANGED <<contents, matchers, trie, activation, applyTimer, listTimer, apply, refresh,
                     mu, mishap>>
  BY EdStep, Places, EditorSets, Zenon DEF SaveRule, Inv
<1>2. Types'
  BY <1>1, Zenon DEF Inv, Types, Ed
<1>3. Courses'
  BY <1>1, EditorSets, Zenon DEF Inv, Courses, Ed
<1>4. RulesKept'
  <2>1. Clearing => Clearing'
    BY <1>1, EditorSets, Zenon DEF Clearing, Ed
  <2>2. Applying'
    BY <1>1, Zenon DEF Applying, Ed
  <2> QED
    BY <1>1, <2>1, <2>2, Zenon DEF Inv, RulesKept
<1>5. ListsKept'
  <2>1. ListsFrame
    BY <1>1, EditorSets, Zenon DEF ListsFrame, Ed
  <2> QED
    BY <2>1, ListsSame, Zenon DEF Inv
<1> QED
  BY <1>2, <1>3, <1>4, <1>5, Zenon DEF Inv

LEMMA ScheduleVersionKeeps ==
    ASSUME Inv, NEW e \in RuleEditors, ScheduleVersion(e)
    PROVE  Inv'
<1> DEFINE n == activation.applyVersion + 1
<1>1. n \in Nat /\ n # 0
  BY OtherFields DEF Inv
<1>2. Act(n, activation.applyAt, activation.refreshVersion, activation.refreshAt)
  <2>1. activation' = [activation EXCEPT !.applyVersion = n]
    BY Zenon DEF ScheduleVersion
  <2> HIDE DEF n
  <2> QED
    BY <1>1, <2>1, Zenon DEF Act, Inv, Types, ActivationType
<1>3. Ed(e, "at", n)
  <2> DEFINE x == [pc |-> "at", v |-> n]
  <2>1. editor' = [editor EXCEPT ![e] = x]
    BY Zenon DEF ScheduleVersion
  <2> HIDE DEF n
  <2>2. x \in EditorType /\ x.pc = "at" /\ x.v = n
    BY <1>1, Places, Zenon DEF EditorType
  <2> HIDE DEF x
  <2> QED
    BY <2>1, <2>2, EdPut, EditorSets, Zenon DEF Inv
<1>4. /\ editor[e].pc = "saved"
      /\ UNCHANGED <<rules, contents, matchers, trie, applyTimer, listTimer, apply, refresh, mu,
                     mishap>>
  BY Zenon DEF ScheduleVersion, stored
<1> HIDE DEF n
<1>5. Types'
  BY <1>2, <1>3, <1>4, Zenon DEF Inv, Types, Ed, Act
<1>6. Courses'
  BY <1>1, <1>2, <1>3, <1>4, EditorSets, Zenon DEF Inv, Courses, Ed, Act
<1>7. RulesKept'
  <2>1. Clearing' /\ Applying'
    BY <1>3, Zenon DEF Clearing, Applying, Ed
  <2> QED
    BY <2>1, Zenon DEF RulesKept
<1>8. ListsKept'
  <2>1. ListsFrame
    BY <1>2, <1>3, <1>4, EditorSets, Zenon DEF ListsFrame, Ed, Act
  <2> QED
    BY <2>1, ListsSame, Zenon DEF Inv
<1> QED
  BY <1>5, <1>6, <1>7, <1>8, Zenon DEF Inv

LEMMA ScheduleAtKeeps ==
    ASSUME Inv, NEW e \in RuleEditors, ScheduleAt(e)
    PROVE  Inv'
<1>1. Act(activation.applyVersion, TRUE, activation.refreshVersion, activation.refreshAt)
  BY Zenon DEF ScheduleAt, Act, Inv, Types, ActivationType
<1>2. /\ Ed(e, "timer", editor[e].v) /\ editor[e].pc = "at"
      /\ UNCHANGED <<rules, contents, matchers, trie, applyTimer, listTimer, apply, refresh, mu,
                     mishap>>
  BY EdStep, Places, EditorSets, Zenon DEF ScheduleAt, Inv, stored
<1>3. Types'
  BY <1>1, <1>2, Zenon DEF Inv, Types, Ed, Act
<1>4. Courses'
  <2>1. \A f \in RuleEditors : editor'[f].pc \in {"at", "timer"} => editor'[f].v # 0
    BY <1>2, EditorSets, Zenon DEF Inv, Courses, Ed
  <2> QED
    BY <1>1, <1>2, <2>1, Zenon DEF Inv, Courses, Act
<1>5. RulesKept'
  <2>1. Clearing' /\ Applying'
    BY <1>2, Zenon DEF Clearing, Applying, Ed
  <2> QED
    BY <2>1, Zenon DEF RulesKept
<1>6. ListsKept'
  <2>1. ListsFrame
    BY <1>1, <1>2, EditorSets, Zenon DEF ListsFrame, Ed, Act
  <2> QED
    BY <2>1, ListsSame, Zenon DEF Inv
<1> QED
  BY <1>3, <1>4, <1>5, <1>6, Zenon DEF Inv

LEMMA ScheduleTimerKeeps ==
    ASSUME Inv, NEW e \in RuleEditors, ScheduleTimer(e)
    PROVE  Inv'
<1>1. Mis(mishap.dropped, mishap.overlap,
          mishap.stale \/ editor[e].v # activation.applyVersion, mishap.failed)
  BY Zenon DEF ScheduleTimer, Mis, Inv, Types, MishapType
<1>2. Ed(e, "done", 0)
  <2> DEFINE x == [pc |-> "done", v |-> 0]
  <2>1. editor' = [editor EXCEPT ![e] = x]
    BY Zenon DEF ScheduleTimer
  <2>2. 0 \in Nat
    OBVIOUS
  <2>3. x \in EditorType /\ x.pc = "done" /\ x.v = 0
    BY <2>2, Places, Zenon DEF EditorType
  <2> HIDE DEF x
  <2> QED
    BY <2>1, <2>3, EdPut, EditorSets, Zenon DEF Inv
<1>3. /\ editor[e].pc = "timer" /\ applyTimer' = editor[e].v /\ editor[e].v \in Nat
      /\ UNCHANGED <<rules, contents, matchers, trie, activation, listTimer, apply, refresh, mu>>
  BY EdFields, EditorSets, Zenon DEF ScheduleTimer, stored, Inv
<1>4. Types'
  BY <1>1, <1>2, <1>3, Zenon DEF Inv, Types, Ed, Mis
<1>5. Courses'
  <2>1. \A f \in RuleEditors : editor'[f].pc \in {"at", "timer"} => editor'[f].v # 0
    BY <1>2, EditorSets, Zenon DEF Inv, Courses, Ed
  <2> QED
    BY <1>3, <2>1, Zenon DEF Inv, Courses
<1>6. RulesKept'
  <2>1. CASE editor[e].v = activation.applyVersion
    <3>1. editor[e].v # 0
      BY <1>3, Zenon DEF Inv, Courses
    <3>2. Clearing' /\ Applying'
      BY <1>3, <2>1, <3>1, Zenon DEF Clearing, Applying
    <3> QED
      BY <3>2, Zenon DEF RulesKept
  <2>2. CASE editor[e].v # activation.applyVersion
    BY <1>1, <2>2, Zenon DEF RulesKept, Mis
  <2> QED
    BY <2>1, <2>2, Zenon
<1>7. ListsKept'
  <2>1. ListsFrame
    BY <1>1, <1>2, <1>3, EditorSets, Zenon DEF ListsFrame, Ed, Mis
  <2> QED
    BY <2>1, ListsSame, Zenon DEF Inv
<1> QED
  BY <1>4, <1>5, <1>6, <1>7, Zenon DEF Inv
-----------------------------------------------------------------------------
(* The runs of applyStored. *)

LEMMA ApplyFiresKeeps ==
    ASSUME Inv, ApplyFires
    PROVE  Inv'
<1>1. /\ applyTimer # 0 /\ apply["timer"].pc = "idle" /\ applyTimer' = 0 /\ applyTimer \in Nat
      /\ 0 \in Nat
      /\ UNCHANGED <<rules, contents, matchers, trie, activation, listTimer, editor, refresh, mu,
                     mishap>>
  BY Zenon DEF ApplyFires, stored, Inv, Types
<1>2. CASE activation.applyVersion # applyTimer
  <2>1. UNCHANGED apply
    BY <1>2, Places, Zenon DEF ApplyFires, Inv, Types
  <2>2. Types' /\ Courses'
    BY <1>1, <2>1, Zenon DEF Inv, Types, Courses
  <2>3. RulesKept'
    <3>1. (Clearing => Clearing') /\ (Applying => Applying')
      BY <1>1, <1>2, <2>1, Zenon DEF Clearing, Applying
    <3> QED
      BY <1>1, <2>1, <3>1, Zenon DEF Inv, RulesKept
  <2>4. ListsKept'
    <3>1. ListsFrame
      BY <1>1, <2>1, Zenon DEF ListsFrame
    <3> QED
      BY <3>1, ListsSame, Zenon DEF Inv
  <2> QED
    BY <2>2, <2>3, <2>4, Zenon DEF Inv
<1>3. CASE activation.applyVersion = applyTimer
  <2>1. Ap("timer", "read", applyTimer, apply["timer"].got, apply["timer"].todo,
           apply["timer"].val)
    <3> DEFINE x == [apply["timer"] EXCEPT !.pc = "read", !.v = applyTimer]
    <3>1. apply' = [apply EXCEPT !["timer"] = x]
      BY <1>3, Zenon DEF ApplyFires
    <3>2. x \in ApplyType
      BY <1>1, ApFields, Places, Zenon DEF ApplyType, Inv
    <3>3. /\ x.pc = "read" /\ x.v = applyTimer /\ x.got = apply["timer"].got
          /\ x.todo = apply["timer"].todo /\ x.val = apply["timer"].val
      BY ApFields, Places, Zenon DEF ApplyType, Inv
    <3> HIDE DEF x
    <3> QED
      BY <3>1, <3>2, <3>3, ApPut, Places, Zenon DEF Inv
  <2>2. Types'
    BY <1>1, <2>1, Zenon DEF Inv, Types, Ap
  <2>3. Courses'
    BY <1>1, <2>1, Places, Zenon DEF Inv, Courses, Ap, Runs
  <2>4. RulesKept'
    <3>1. Clearing' /\ Applying'
      BY <1>1, <1>3, <2>1, Places, Zenon DEF Clearing, Applying, Ap
    <3> QED
      BY <3>1, Zenon DEF RulesKept
  <2>5. ListsKept'
    <3>1. ListsFrame
      BY <1>1, <2>1, Zenon DEF ListsFrame, Ap
    <3> QED
      BY <3>1, ListsSame, Zenon DEF Inv
  <2> QED
    BY <2>2, <2>3, <2>4, <2>5, Zenon DEF Inv
<1> QED
  BY <1>2, <1>3, Zenon

LEMMA ApplyReadKeeps ==
    ASSUME Inv, NEW r \in Runs, ApplyRead(r)
    PROVE  Inv'
<1>1. Ap(r, "reset", apply[r].v, rules, apply[r].todo, apply[r].val)
  <2> DEFINE x == [apply[r] EXCEPT !.pc = "reset", !.got = rules]
  <2>1. apply' = [apply EXCEPT ![r] = x]
    BY Zenon DEF ApplyRead
  <2>2. rules \in SUBSET Lists
    BY Zenon DEF Inv, Types
  <2>3. x \in ApplyType
    BY <2>2, ApFields, Places, Zenon DEF ApplyType, Inv
  <2>4. /\ x.pc = "reset" /\ x.v = apply[r].v /\ x.got = rules /\ x.todo = apply[r].todo
        /\ x.val = apply[r].val
    BY ApFields, Zenon DEF ApplyType, Inv
  <2> HIDE DEF x
  <2> QED
    BY <2>1, <2>3, <2>4, ApPut, Zenon DEF Inv
<1>2. /\ apply[r].pc = "read"
      /\ UNCHANGED <<rules, contents, matchers, trie, activation, applyTimer, listTimer, editor,
                     refresh, mu, mishap>>
  BY Zenon DEF ApplyRead, stored
<1>3. Types'
  BY <1>1, <1>2, Zenon DEF Inv, Types, Ap
<1>4. Courses'
  BY <1>1, <1>2, Places, Zenon DEF Inv, Courses, Ap
<1>5. RulesKept'
  <2>1. Clearing => Clearing'
    BY <1>1, <1>2, Places, Zenon DEF Clearing, Ap
  <2>2. Applying'
    BY <1>1, <1>2, Zenon DEF Applying, Ap
  <2> QED
    BY <1>2, <2>1, <2>2, Zenon DEF Inv, RulesKept
<1>6. ListsKept'
  <2>1. ListsFrame
    BY <1>1, <1>2, Zenon DEF ListsFrame, Ap
  <2> QED
    BY <2>1, ListsSame, Zenon DEF Inv
<1> QED
  BY <1>3, <1>4, <1>5, <1>6, Zenon DEF Inv

LEMMA ApplyFailsKeeps ==
    ASSUME Inv, NEW r \in Runs, ApplyFails(r)
    PROVE  Inv'
<1>1. Ap(r, "idle", 0, {}, {}, <<>>)
  BY ApPut, NoApplyFields, Zenon DEF ApplyFails, Inv
<1>2. Mis(mishap.dropped, mishap.overlap, mishap.stale, TRUE)
  BY Zenon DEF ApplyFails, Mis, Inv, Types, MishapType
<1>3. /\ apply[r].pc \in {"read", "mark"}
      /\ UNCHANGED <<rules, contents, matchers, trie, activation, applyTimer, listTimer, editor,
                     refresh, mu>>
  BY Zenon DEF ApplyFails, stored
<1>4. Types'
  BY <1>1, <1>2, <1>3, Zenon DEF Inv, Types, Ap, Mis
<1>5. Courses'
  BY <1>1, <1>3, Places, Zenon DEF Inv, Courses, Ap
<1>6. RulesKept'
  BY <1>2, Zenon DEF RulesKept, Mis
<1>7. ListsKept'
  <2>1. ListsFrame
    BY <1>1, <1>2, <1>3, Zenon DEF ListsFrame, Ap, Mis
  <2> QED
    BY <2>1, ListsSame, Zenon DEF Inv
<1> QED
  BY <1>4, <1>5, <1>6, <1>7, Zenon DEF Inv

LEMMA ApplyResetKeeps ==
    ASSUME Inv, NEW r \in Runs, ApplyReset(r)
    PROVE  Inv'
<1>1. Ap(r, "add", apply[r].v, apply[r].got, apply[r].got, apply[r].val)
  <2> DEFINE x == [apply[r] EXCEPT !.pc = "add", !.todo = apply[r].got]
  <2>1. apply' = [apply EXCEPT ![r] = x]
    BY Zenon DEF ApplyReset, ApplyResets
  <2>2. x \in ApplyType
    BY ApFields, Places, Zenon DEF ApplyType, Inv
  <2>3. /\ x.pc = "add" /\ x.v = apply[r].v /\ x.got = apply[r].got
        /\ x.todo = apply[r].got /\ x.val = apply[r].val
    BY ApFields, Zenon DEF ApplyType, Inv
  <2> HIDE DEF x
  <2> QED
    BY <2>1, <2>2, <2>3, ApPut, Zenon DEF Inv
<1>2. /\ apply[r].pc = "reset" /\ trie' = Empty
      /\ \A q \in Runs : refresh[q].pc # "build"
      /\ UNCHANGED <<rules, contents, matchers, activation, applyTimer, listTimer, editor,
                     refresh, mu, mishap>>
  BY Zenon DEF ApplyReset, ApplyResets, Ranging, stored
<1>3. Types'
  BY <1>1, <1>2, EmptyFields, Zenon DEF Inv, Types, Ap
<1>4. Courses'
  BY <1>1, <1>2, Places, Zenon DEF Inv, Courses, Ap
<1>5. RulesKept'
  <2>1. (Clearing => Clearing') /\ (Applying => Applying')
    BY <1>1, <1>2, Places, Zenon DEF Clearing, Applying, Ap
  <2>2. ASSUME \A q \in Runs : apply[q].pc \in {"reset", "add"} => apply[q].got = rules
        PROVE  \A q \in Runs : apply'[q].pc \in {"reset", "add"} => apply'[q].got = rules
    BY <1>1, <1>2, <2>2, Zenon DEF Ap
  <2> QED
    BY <1>2, <2>1, <2>2, Zenon DEF Inv, RulesKept
<1>6. ListsKept'
  <2>1. Marking => Marking'
    BY <1>2, Zenon DEF Marking
  <2>2. Coming => Coming'
    BY <1>2, Zenon DEF Coming
  <2>3. IndexFresh'
    BY <1>2, <2>2, EmptyFields, Zenon DEF Inv, ListsKept, IndexFresh
  <2>4. \A l \in apply'[r].got : l \in apply'[r].todo
    BY <1>1, Zenon DEF Ap
  <2>5. ~(\A q \in Runs : apply'[q].pc # "add")
    BY <1>1, Zenon DEF Ap
  <2>6. \A q \in Runs : Alone(q)' => q = r
    BY <1>1, Zenon DEF Ap, Alone
  <2>7. IndexFull'
    BY <2>4, <2>5, <2>6, Zenon DEF IndexFull
  <2> QED
    BY <1>2, <2>1, <2>3, <2>7, Zenon DEF Inv, ListsKept
<1> QED
  BY <1>3, <1>4, <1>5, <1>6, Zenon DEF Inv

LEMMA Pair ==
    ASSUME NEW l, NEW n
    PROVE  <<l, n>> # <<>> /\ <<l, n>>[1] = l /\ <<l, n>>[2] = n
  OBVIOUS

LEMMA ApplyGetKeeps ==
    ASSUME Inv, NEW r \in Runs, NEW l \in Lists, NEW version \in Reads(l),
           ApplyGet(r, l, version)
    PROVE  Inv'
<1> DEFINE val == IF version = 0 THEN <<>> ELSE <<l, version>>
           dropped == IF version = 0 THEN mishap.dropped \cup {l} ELSE mishap.dropped
           todo == apply[r].todo \ {l}
<1>1. /\ apply[r].pc = "add" /\ apply[r].val = <<>> /\ l \in apply[r].todo
      /\ UNCHANGED <<rules, contents, matchers, trie, activation, applyTimer, listTimer, editor,
                     refresh, mu>>
  BY Zenon DEF ApplyGet, stored
<1>2. /\ val \in {<<>>} \cup (Lists \X (Nat \ {0})) /\ dropped \in SUBSET Lists
      /\ todo \in SUBSET Lists
  <2>1. version \in Nat
    BY DEF Inv, Types, Reads
  <2>2. val \in {<<>>} \cup (Lists \X (Nat \ {0}))
    BY <2>1
  <2>3. dropped \in SUBSET Lists /\ todo \in SUBSET Lists
    BY OtherFields, ApFields, Zenon DEF Inv
  <2> QED
    BY <2>2, <2>3, Zenon
<1>3. /\ mishap.dropped \subseteq dropped /\ \A k \in apply[r].todo : k = l \/ k \in todo
      /\ l \in dropped \/ (val # <<>> /\ val[1] = l)
  BY Pair, Zenon
<1>4. Ap(r, "add", apply[r].v, apply[r].got, todo, val)
  <2> DEFINE x == [apply[r] EXCEPT !.todo = todo, !.val = val]
  <2>1. apply' = [apply EXCEPT ![r] = x]
    BY DEF ApplyGet
  <2> HIDE DEF val, todo
  <2>2. x \in ApplyType
    BY <1>2, ApFields, Zenon DEF ApplyType, Inv
  <2>3. /\ x.pc = "add" /\ x.v = apply[r].v /\ x.got = apply[r].got
        /\ x.todo = todo /\ x.val = val
    BY <1>1, ApFields, Zenon DEF ApplyType, Inv
  <2> HIDE DEF x
  <2> QED
    BY <2>1, <2>2, <2>3, ApPut, Zenon DEF Inv
<1>5. Mis(dropped, mishap.overlap, mishap.stale, mishap.failed)
  <2>1. mishap' = [mishap EXCEPT !.dropped = dropped]
    BY Zenon DEF ApplyGet
  <2> HIDE DEF dropped
  <2> QED
    BY <1>2, <2>1, Zenon DEF Mis, Inv, Types, MishapType
<1> HIDE DEF val, todo, dropped
<1>6. Types'
  BY <1>1, <1>4, <1>5, Zenon DEF Inv, Types, Ap, Mis
<1>7. Courses'
  BY <1>1, <1>4, Places, Zenon DEF Inv, Courses, Ap
<1>8. RulesKept'
  <2>1. RulesFrame
    BY <1>1, <1>4, <1>5, Zenon DEF RulesFrame, Ap, Mis
  <2> QED
    BY <2>1, RulesSame, Zenon DEF Inv
<1>9. ListsKept'
  <2>1. (Marking => Marking') /\ (Coming => Coming')
    BY <1>1, Zenon DEF Marking, Coming
  <2>2. IndexFresh'
    BY <1>1, <1>3, <1>5, <2>1, FreshSame, Zenon DEF Inv, ListsKept, Mis
  <2>3. \A k \in Lists : InIndex(k) => InIndex(k)'
    BY <1>1, <1>3, <1>5, Zenon DEF InIndex, Mis
  <2>4. ~(\A q \in Runs : apply'[q].pc # "add")
    BY <1>4, Zenon DEF Ap
  <2>5. ASSUME NEW q \in Runs, Alone(q)', ~mishap.overlap, NEW k \in apply'[q].got
        PROVE  \/ InIndex(k)' \/ k \in apply'[q].todo
               \/ apply'[q].val # <<>> /\ apply'[q].val[1] = k
    <3>1. q = r /\ Alone(r)
      BY <1>1, <1>4, <2>5, Zenon DEF Ap, Alone
    <3>2. k \in apply[r].got /\ k \in Lists
      BY <1>4, <2>5, <3>1, ApFields, Zenon DEF Ap, Inv
    <3>3. InIndex(k) \/ k \in apply[r].todo
      BY <1>1, <2>5, <3>1, <3>2, Zenon DEF Inv, ListsKept, IndexFull
    <3>4. l \in dropped => InIndex(l)'
      BY <1>5, Zenon DEF InIndex, Mis
    <3> QED
      BY <1>3, <1>4, <2>3, <3>1, <3>2, <3>3, <3>4, Zenon DEF Ap
  <2>6. IndexFull'
    BY <1>5, <2>4, <2>5, Zenon DEF IndexFull, Mis
  <2> QED
    BY <1>1, <2>1, <2>2, <2>6, Zenon DEF Inv, ListsKept
<1> QED
  BY <1>6, <1>7, <1>8, <1>9, Zenon DEF Inv

LEMMA ApplyAddKeeps ==
    ASSUME Inv, NEW r \in Runs, ApplyAdd(r)
    PROVE  Inv'
<1>0. PICK l, n : l = apply[r].val[1] /\ n = apply[r].val[2]
  OBVIOUS
<1> DEFINE dropped == IF contents[l] = n THEN mishap.dropped \ {l} ELSE mishap.dropped \cup {l}
<1>1. /\ apply[r].val # <<>> /\ apply[r].pc = "add"
      /\ UNCHANGED <<rules, contents, matchers, activation, applyTimer, listTimer, editor,
                     refresh, mu>>
  BY Zenon DEF ApplyAdd, Inv, Courses, stored
<1>2. l \in Lists /\ n \in Nat /\ n # 0
  <2>1. apply[r].val \in Lists \X (Nat \ {0})
    BY <1>1, ApFields, Zenon DEF Inv
  <2> QED
    BY <1>0, <2>1
<1>3. trie' = [trie EXCEPT ![l] = n] /\ trie'[l] = n
  BY <1>0, <1>2, Zenon DEF ApplyAdd, Inv, Types
<1>4. mishap' = [mishap EXCEPT !.dropped = dropped]
  BY <1>0, <1>3, Zenon DEF ApplyAdd
<1>5. Ap(r, "add", apply[r].v, apply[r].got, apply[r].todo, <<>>)
  <2> DEFINE x == [apply[r] EXCEPT !.val = <<>>]
  <2>1. apply' = [apply EXCEPT ![r] = x]
    BY Zenon DEF ApplyAdd
  <2>2. x \in ApplyType
    BY ApFields, Zenon DEF ApplyType, Inv
  <2>3. /\ x.pc = "add" /\ x.v = apply[r].v /\ x.got = apply[r].got
        /\ x.todo = apply[r].todo /\ x.val = <<>>
    BY <1>1, ApFields, Zenon DEF ApplyType, Inv
  <2> HIDE DEF x
  <2> QED
    BY <2>1, <2>2, <2>3, ApPut, Zenon DEF Inv
<1>6. /\ dropped \in SUBSET Lists /\ (contents[l] = n \/ l \in dropped)
      /\ \A k \in Lists \ {l} : k \in dropped <=> k \in mishap.dropped
  BY <1>2, OtherFields, Zenon DEF Inv
<1> HIDE DEF dropped
<1>7. Mis(dropped, mishap.overlap, mishap.stale, mishap.failed)
  BY <1>4, <1>6, Zenon DEF Mis, Inv, Types, MishapType
<1>8. trie' \in [Lists -> Nat] /\ \A k \in Lists \ {l} : trie'[k] = trie[k]
  BY <1>2, <1>3, Zenon DEF Inv, Types
<1>9. Types'
  BY <1>1, <1>5, <1>7, <1>8, Zenon DEF Inv, Types, Ap, Mis
<1>10. Courses'
  BY <1>1, <1>5, Places, Zenon DEF Inv, Courses, Ap
<1>11. RulesKept'
  <2>1. RulesFrame
    BY <1>1, <1>5, <1>7, Zenon DEF RulesFrame, Ap, Mis
  <2> QED
    BY <2>1, RulesSame, Zenon DEF Inv
<1>12. ListsKept'
  <2>1. (Marking => Marking') /\ (Coming => Coming')
    BY <1>1, Zenon DEF Marking, Coming
  <2>2. \A q \in Runs, k \in Lists : Building(q, k) => Building(q, k)'
    BY <1>1, Zenon DEF Building
  <2>3. \A k \in Lists : InIndex(k) => InIndex(k)'
    BY <1>2, <1>3, <1>6, <1>7, <1>8, Zenon DEF InIndex, Mis
  <2>4. InIndex(l)'
    BY <1>2, <1>3, Zenon DEF InIndex
  <2>5. ASSUME NEW k \in Lists
        PROVE  \/ trie'[k] = 0 \/ trie'[k] = contents'[k] \/ k \in mishap'.dropped
               \/ Coming' \/ \E q \in Runs : Building(q, k)'
    <3>1. CASE k = l
      BY <1>1, <1>3, <1>6, <1>7, <3>1, Zenon DEF Mis
    <3>2. CASE k # l
      BY <1>1, <1>6, <1>7, <1>8, <2>1, <2>2, <3>2, Zenon DEF Inv, ListsKept, IndexFresh, Mis
    <3> QED
      BY <3>1, <3>2, Zenon
  <2>6. IndexFresh'
    BY <1>1, <2>1, <2>5, Zenon DEF Inv, ListsKept, IndexFresh
  <2>7. ~(\A q \in Runs : apply'[q].pc # "add")
    BY <1>5, Zenon DEF Ap
  <2>8. ASSUME NEW q \in Runs, Alone(q)', ~mishap.overlap, NEW k \in apply'[q].got
        PROVE  \/ InIndex(k)' \/ k \in apply'[q].todo
               \/ apply'[q].val # <<>> /\ apply'[q].val[1] = k
    <3>1. q = r /\ Alone(r)
      BY <1>1, <1>5, <2>8, Zenon DEF Ap, Alone
    <3>2. k \in apply[r].got /\ k \in Lists
      BY <1>5, <2>8, <3>1, ApFields, Zenon DEF Ap, Inv
    <3>3. InIndex(k) \/ k \in apply[r].todo \/ k = l
      BY <1>0, <1>1, <2>8, <3>1, <3>2, Zenon DEF Inv, ListsKept, IndexFull
    <3> QED
      BY <1>5, <2>3, <2>4, <3>1, <3>2, <3>3, Zenon DEF Ap
  <2>9. IndexFull'
    BY <1>7, <2>7, <2>8, Zenon DEF IndexFull, Mis
  <2> QED
    BY <1>1, <2>1, <2>6, <2>9, Zenon DEF Inv, ListsKept
<1> QED
  BY <1>9, <1>10, <1>11, <1>12, Zenon DEF Inv

LEMMA ApplySwapKeeps ==
    ASSUME Inv, NEW r \in Runs, ApplySwap(r)
    PROVE  Inv'
<1> DEFINE overlap == mishap.overlap \/ \E q \in Runs \ {r} : apply[q].pc \in {"reset", "add"}
<1>1. Mis(mishap.dropped, overlap, mishap.stale, mishap.failed)
  <2>1. mishap' = [mishap EXCEPT !.overlap = overlap] /\ overlap \in BOOLEAN
    BY Zenon DEF ApplySwap
  <2> HIDE DEF overlap
  <2> QED
    BY <2>1, Zenon DEF Mis, Inv, Types, MishapType
<1>2. /\ apply[r].pc = "add" /\ apply[r].todo = {} /\ apply[r].val = <<>>
      /\ matchers' = apply[r].got
      /\ UNCHANGED <<rules, contents, trie, activation, applyTimer, listTimer, editor, refresh,
                     mu>>
  BY Zenon DEF ApplySwap, stored
<1>3. Ap(r, "mark", apply[r].v, apply[r].got, {}, <<>>)
  BY <1>2, ApStep, Places, Zenon DEF ApplySwap, Inv
<1>4. Types'
  <2>1. apply[r].got \in SUBSET Lists
    BY ApFields, Zenon DEF Inv
  <2> QED
    BY <1>1, <1>2, <1>3, <2>1, Zenon DEF Inv, Types, Ap, Mis
<1>5. Courses'
  BY <1>2, <1>3, Places, Zenon DEF Inv, Courses, Ap
<1>6. CASE overlap
  <2>1. mishap'.overlap
    BY <1>1, <1>6, Zenon DEF Mis
  <2>2. (Clearing => Clearing') /\ (Marking => Marking') /\ (Coming => Coming')
    BY <1>2, <1>3, Places, Zenon DEF Clearing, Ap, Marking, Coming
  <2>3. RulesKept'
    BY <1>1, <1>2, <2>1, <2>2, Zenon DEF Inv, RulesKept, Mis
  <2>4. IndexFresh'
    BY <1>1, <1>2, <2>2, FreshSame, Zenon DEF Inv, ListsKept, Mis
  <2>5. ListsKept'
    BY <1>2, <2>1, <2>2, <2>4, Zenon DEF Inv, ListsKept, IndexFull
  <2> QED
    BY <1>4, <1>5, <2>3, <2>5, Zenon DEF Inv
<1>7. CASE ~overlap
  <2>1. ~mishap.overlap /\ \A q \in Runs \ {r} : apply[q].pc \notin {"reset", "add"}
    BY <1>7, Zenon
  <2>2. (Clearing => Clearing') /\ (Marking => Marking') /\ (Coming => Coming')
    BY <1>2, <1>3, Places, Zenon DEF Clearing, Ap, Marking, Coming
  <2>3. Applying => Applying' \/ apply[r].got = rules
    BY <1>2, <1>3, <2>1, Zenon DEF Applying, Ap
  <2>4. \A q \in Runs : apply'[q].pc \notin {"reset", "add"}
    BY <1>3, <2>1, Zenon DEF Ap
  <2>5. RulesKept'
    BY <1>1, <1>2, <2>1, <2>2, <2>3, <2>4, Zenon DEF Inv, RulesKept, Mis
  <2>6. IndexFresh'
    BY <1>1, <1>2, <2>2, FreshSame, Zenon DEF Inv, ListsKept, Mis
  <2>7. Alone(r)
    BY <1>2, <2>1, Zenon DEF Alone
  <2>8. \A l \in matchers' : InIndex(l)
    BY <1>2, <2>1, <2>7, Zenon DEF Inv, ListsKept, IndexFull
  <2>9. IndexFull'
    BY <1>1, <1>2, <2>4, <2>8, Zenon DEF IndexFull, InIndex, Alone, Mis
  <2> QED
    BY <1>2, <1>4, <1>5, <2>2, <2>5, <2>6, <2>9, Zenon DEF Inv, ListsKept
<1> QED
  BY <1>6, <1>7, Zenon

LEMMA ApplyCompareKeeps ==
    ASSUME Inv, ApplyCompare
    PROVE  Inv'
<1>1. /\ apply["timer"].pc = "mark"
      /\ UNCHANGED <<rules, contents, matchers, trie, activation, applyTimer, listTimer, editor,
                     refresh, mu, mishap>>
  BY Zenon DEF ApplyCompare, stored
<1>2. PICK pc \in {"idle", "store"} :
        /\ Ap("timer", pc, 0, {}, {}, <<>>)
        /\ activation.applyVersion = apply["timer"].v => pc = "store"
  <2>1. CASE activation.applyVersion = apply["timer"].v
    <3> DEFINE x == [NoApply EXCEPT !.pc = "store"]
    <3>1. apply' = [apply EXCEPT !["timer"] = x]
      BY <2>1, Zenon DEF ApplyCompare
    <3>2. /\ x \in ApplyType /\ x.pc = "store" /\ x.v = 0 /\ x.got = {} /\ x.todo = {}
          /\ x.val = <<>>
      BY NoApplyFields, Places, Zenon DEF ApplyType
    <3> HIDE DEF x
    <3>3. Ap("timer", "store", 0, {}, {}, <<>>)
      BY <3>1, <3>2, ApPut, Places, Zenon DEF Inv
    <3> QED
      BY <3>3, Zenon
  <2>2. CASE activation.applyVersion # apply["timer"].v
    <3>1. apply' = [apply EXCEPT !["timer"] = NoApply]
      BY <2>2, Zenon DEF ApplyCompare
    <3>2. Ap("timer", "idle", 0, {}, {}, <<>>)
      BY <3>1, NoApplyFields, ApPut, Places, Zenon DEF Inv
    <3> QED
      BY <2>2, <3>2, Zenon
  <2> QED
    BY <2>1, <2>2, Zenon
<1>3. Types'
  BY <1>1, <1>2, Zenon DEF Inv, Types, Ap
<1>4. Courses'
  BY <1>1, <1>2, Places, Zenon DEF Inv, Courses, Ap, Runs
<1>5. RulesKept'
  <2>1. Clearing => Clearing'
    <3>1. CASE pc = "store"
      BY <1>2, <3>1, Zenon DEF Clearing, Ap
    <3>2. CASE pc # "store"
      BY <1>1, <1>2, <3>2, Places, Zenon DEF Clearing, Ap
    <3> QED
      BY <3>1, <3>2, Zenon
  <2>2. Applying => Applying'
    BY <1>1, <1>2, Places, Zenon DEF Applying, Ap
  <2>3. \A r \in Runs : apply'[r].pc \in {"reset", "add"} => apply'[r] = apply[r]
    BY <1>2, Zenon DEF Ap
  <2> QED
    BY <1>1, <2>1, <2>2, <2>3, Zenon DEF Inv, RulesKept
<1>6. ListsKept'
  <2>1. ListsFrame
    BY <1>1, <1>2, Zenon DEF ListsFrame, Ap
  <2> QED
    BY <2>1, ListsSame, Zenon DEF Inv
<1> QED
  BY <1>3, <1>4, <1>5, <1>6, Zenon DEF Inv

LEMMA ApplyStoreKeeps ==
    ASSUME Inv, NEW r \in Runs, ApplyStore(r)
    PROVE  Inv'
<1>1. Ap(r, "idle", 0, {}, {}, <<>>)
  BY ApPut, NoApplyFields, Zenon DEF ApplyStore, Inv
<1>2. Act(activation.applyVersion, FALSE, activation.refreshVersion, activation.refreshAt)
  BY Zenon DEF ApplyStore, Act, Inv, Types, ActivationType
<1>3. /\ apply[r].pc \in {"mark", "store"}
      /\ UNCHANGED <<rules, contents, matchers, trie, applyTimer, listTimer, editor, refresh, mu,
                     mishap>>
  BY Zenon DEF ApplyStore, stored
<1>4. Types'
  BY <1>1, <1>2, <1>3, Zenon DEF Inv, Types, Ap, Act
<1>5. Courses'
  BY <1>1, <1>2, <1>3, Places, Zenon DEF Inv, Courses, Ap, Act
<1>6. RulesKept'
  <2>1. Applying => Applying'
    BY <1>1, <1>2, <1>3, Zenon DEF Applying, Ap, Act
  <2>2. \A q \in Runs : apply'[q].pc \in {"reset", "add"} => apply'[q] = apply[q]
    BY <1>1, Zenon DEF Ap
  <2> QED
    BY <1>2, <1>3, <2>1, <2>2, Zenon DEF Inv, RulesKept, Act
<1>7. ListsKept'
  <2>1. ListsFrame
    BY <1>1, <1>2, <1>3, Zenon DEF ListsFrame, Ap, Act
  <2> QED
    BY <2>1, ListsSame, Zenon DEF Inv
<1> QED
  BY <1>4, <1>5, <1>6, <1>7, Zenon DEF Inv
-----------------------------------------------------------------------------
(* The calls that save lists. *)

\* What a call that saves a list leaves alone.
LEMMA ListCallKeeps ==
    ASSUME Inv, NEW e \in ListEditors, NEW pc \in EditorPC, Ed(e, pc, editor[e].v),
           activation' \in ActivationType,
           activation'.applyVersion = activation.applyVersion,
           activation'.applyAt = activation.applyAt,
           activation.refreshVersion # 0 => activation'.refreshVersion # 0,
           UNCHANGED <<rules, matchers, trie, applyTimer, apply, refresh, mu, mishap>>,
           contents' \in [Lists -> Nat], listTimer' \in BOOLEAN
    PROVE  /\ Types' /\ Courses' /\ RulesKept'
           /\ IndexFull'
           /\ \A f \in ListEditors \ {e} : editor'[f] = editor[f]
<1>1. \A f \in RuleEditors : editor'[f] = editor[f]
  BY EditorSets, Zenon DEF Ed
<1>2. Types'
  BY Zenon DEF Inv, Types, Ed
<1>3. Courses'
  BY <1>1, Zenon DEF Inv, Courses
<1>4. RulesFrame
  BY <1>1, Zenon DEF RulesFrame
<1>5. IndexFull'
  BY FullSame, Zenon DEF Inv, ListsKept, InIndex
<1> QED
  BY <1>2, <1>3, <1>4, <1>5, RulesSame, EditorSets, Zenon DEF Inv, Ed

LEMMA SaveListKeeps ==
    ASSUME Inv, NEW e \in ListEditors, NEW l \in Lists, SaveList(e, l)
    PROVE  Inv'
<1>1. /\ Ed(e, "saved", editor[e].v) /\ editor[e].pc = "idle"
      /\ UNCHANGED <<rules, matchers, trie, activation, applyTimer, listTimer, apply, refresh,
                     mu, mishap>>
  BY EdStep, Places, EditorSets, Zenon DEF SaveList, Inv
<1>2. contents' \in [Lists -> Nat]
  <2>1. contents \in [Lists -> Nat] /\ contents[l] + 1 \in Nat /\ 0 \in Nat
    BY DEF Inv, Types
  <2> QED
    BY <2>1, Zenon DEF SaveList
<1>3. Types' /\ Courses' /\ RulesKept' /\ IndexFull'
      /\ \A f \in ListEditors \ {e} : editor'[f] = editor[f]
  BY <1>1, <1>2, ListCallKeeps, Places, Zenon DEF Inv, Types
<1>4. Coming' /\ (Marking => Marking')
  BY <1>1, <1>3, Zenon DEF Coming, Marking, Ed
<1> QED
  BY <1>1, <1>3, <1>4, FreshComing, Zenon DEF Inv, ListsKept

LEMMA NotifyVersionKeeps ==
    ASSUME Inv, NEW e \in ListEditors, NotifyVersion(e)
    PROVE  Inv'
<1> DEFINE n == activation.refreshVersion + 1
<1>1. n \in Nat /\ n # 0
  BY OtherFields DEF Inv
<1>2. Act(activation.applyVersion, activation.applyAt, n, activation.refreshAt)
  <2>1. activation' = [activation EXCEPT !.refreshVersion = n]
    BY Zenon DEF NotifyVersion
  <2> HIDE DEF n
  <2> QED
    BY <1>1, <2>1, Zenon DEF Act, Inv, Types, ActivationType
<1> HIDE DEF n
<1>3. /\ Ed(e, "at", editor[e].v)
      /\ UNCHANGED <<rules, contents, matchers, trie, applyTimer, listTimer, apply, refresh, mu,
                     mishap>>
  BY EdStep, Places, EditorSets, Zenon DEF NotifyVersion, Inv, stored
<1>4. Types' /\ Courses' /\ RulesKept' /\ IndexFull'
  BY <1>1, <1>2, <1>3, ListCallKeeps, Places, Zenon DEF Inv, Types, Act
<1>5. Coming' /\ Marking'
  BY <1>3, Zenon DEF Coming, Marking, Ed
<1> QED
  BY <1>4, <1>5, FreshComing, Zenon DEF Inv, ListsKept

LEMMA NotifyAtKeeps ==
    ASSUME Inv, NEW e \in ListEditors, NotifyAt(e)
    PROVE  Inv'
<1>1. Act(activation.applyVersion, activation.applyAt, activation.refreshVersion, TRUE)
  BY Zenon DEF NotifyAt, Act, Inv, Types, ActivationType
<1>2. /\ Ed(e, "timer", editor[e].v)
      /\ UNCHANGED <<rules, contents, matchers, trie, applyTimer, listTimer, apply, refresh, mu,
                     mishap>>
  BY EdStep, Places, EditorSets, Zenon DEF NotifyAt, Inv, stored
<1>3. Types' /\ Courses' /\ RulesKept' /\ IndexFull'
  BY <1>1, <1>2, ListCallKeeps, Places, Zenon DEF Inv, Types, Act
<1>4. Coming' /\ Marking'
  BY <1>2, Zenon DEF Coming, Marking, Ed
<1> QED
  BY <1>3, <1>4, FreshComing, Zenon DEF Inv, ListsKept

LEMMA NotifyResetKeeps ==
    ASSUME Inv, NEW e \in ListEditors, NotifyReset(e)
    PROVE  Inv'
<1>1. /\ Ed(e, "done", editor[e].v) /\ listTimer' = TRUE
      /\ UNCHANGED <<rules, contents, matchers, trie, activation, applyTimer, apply, refresh, mu,
                     mishap>>
  BY EdStep, Places, EditorSets, Zenon DEF NotifyReset, NotifyResets, Inv, stored
<1>2. Types' /\ Courses' /\ RulesKept' /\ IndexFull'
  BY <1>1, ListCallKeeps, Places, Zenon DEF Inv, Types
<1>3. Coming' /\ Marking'
  BY <1>1, Zenon DEF Coming, Marking
<1> QED
  BY <1>2, <1>3, FreshComing, Zenon DEF Inv, ListsKept
-----------------------------------------------------------------------------
(* The API call that applies all, and the refreshes of the index. *)

\* What a step of refresh r that leaves the index alone keeps.
LEMMA RefreshCallKeeps ==
    ASSUME Inv, NEW r \in Runs, NEW pc, NEW v, NEW todo, NEW new, Re(r, pc, v, todo, new),
           pc # "stopApply", refresh[r].pc # "stopApply",
           activation' \in ActivationType,
           activation'.applyVersion = activation.applyVersion,
           activation'.applyAt = activation.applyAt,
           UNCHANGED <<rules, contents, matchers, trie, applyTimer, editor, apply, mishap>>,
           listTimer' \in BOOLEAN, mu' \in Runs \cup {"free"}
    PROVE  Types' /\ RulesKept' /\ IndexFull'
<1>1. Types'
  BY Zenon DEF Inv, Types, Re
<1>2. RulesFrame
  BY Places, Zenon DEF RulesFrame, Re
<1>3. IndexFull'
  BY FullSame, Zenon DEF Inv, ListsKept, InIndex
<1> QED
  BY <1>1, <1>2, <1>3, RulesSame, Zenon DEF Inv

LEMMA ApplyNowKeeps ==
    ASSUME Inv, ApplyNow
    PROVE  Inv'
<1> DEFINE n == activation.refreshVersion + 1
<1>1. n \in Nat /\ n # 0
  BY OtherFields DEF Inv
<1>2. Act(activation.applyVersion, activation.applyAt, n, activation.refreshAt)
  <2>1. activation' = [activation EXCEPT !.refreshVersion = n]
    BY Zenon DEF ApplyNow
  <2> HIDE DEF n
  <2> QED
    BY <1>1, <2>1, Zenon DEF Act, Inv, Types, ActivationType
<1> HIDE DEF n
<1>3. /\ Re("api", "stop", refresh["api"].v, refresh["api"].todo, refresh["api"].new)
      /\ refresh["api"].pc = "idle" /\ refresh["api"].v = 0
      /\ UNCHANGED <<rules, contents, matchers, trie, applyTimer, listTimer, editor, apply, mu,
                     mishap>>
  BY ReStep, Places, Zenon DEF ApplyNow, Inv, stored
<1>4. Types' /\ RulesKept' /\ IndexFull'
  BY <1>2, <1>3, RefreshCallKeeps, Places, Zenon DEF Inv, Types, Act
<1>5. Courses'
  BY <1>1, <1>2, <1>3, Places, Zenon DEF Inv, Courses, Re, Act, Holding
<1>6. Coming' /\ Marking'
  BY <1>3, Places, Zenon DEF Coming, Marking, Re
<1> QED
  BY <1>4, <1>5, <1>6, FreshComing, Zenon DEF Inv, ListsKept

LEMMA StopListTimerKeeps ==
    ASSUME Inv, StopListTimer
    PROVE  Inv'
<1>1. /\ Re("api", "lock", refresh["api"].v, refresh["api"].todo, refresh["api"].new)
      /\ refresh["api"].pc = "stop" /\ listTimer' = FALSE
      /\ UNCHANGED <<rules, contents, matchers, trie, activation, applyTimer, editor, apply, mu,
                     mishap>>
  BY ReStep, Places, Zenon DEF StopListTimer, Inv, stored
<1>2. Types' /\ RulesKept' /\ IndexFull'
  BY <1>1, RefreshCallKeeps, Places, Zenon DEF Inv, Types
<1>3. Courses'
  BY <1>1, Places, Zenon DEF Inv, Courses, Re, Holding
<1>4. Coming' /\ Marking'
  BY <1>1, Places, Zenon DEF Coming, Marking, Re
<1> QED
  BY <1>2, <1>3, <1>4, FreshComing, Zenon DEF Inv, ListsKept

LEMMA RefreshFiresKeeps ==
    ASSUME Inv, RefreshFires
    PROVE  Inv'
<1>1. /\ Re("timer", "lock", refresh["timer"].v, refresh["timer"].todo, refresh["timer"].new)
      /\ refresh["timer"].pc = "idle" /\ listTimer' = FALSE
      /\ UNCHANGED <<rules, contents, matchers, trie, activation, applyTimer, editor, apply, mu,
                     mishap>>
  BY ReStep, Places, Zenon DEF RefreshFires, Inv, stored
<1>2. Types' /\ RulesKept' /\ IndexFull'
  BY <1>1, RefreshCallKeeps, Places, Zenon DEF Inv, Types
<1>3. Courses'
  <2>1. refresh'["api"] = refresh["api"]
    BY <1>1, Places, Zenon DEF Re
  <2> QED
    BY <1>1, <2>1, Zenon DEF Inv, Courses, Re, Holding
<1>4. Coming' /\ Marking'
  BY <1>1, Places, Zenon DEF Coming, Marking, Re
<1> QED
  BY <1>2, <1>3, <1>4, FreshComing, Zenon DEF Inv, ListsKept

LEMMA ApplyRulesNowKeeps ==
    ASSUME Inv, ApplyRulesNow
    PROVE  Inv'
<1> DEFINE n == activation.applyVersion + 1
<1>1. n \in Nat
  BY OtherFields DEF Inv
<1>2. Act(n, activation.applyAt, activation.refreshVersion, activation.refreshAt)
  <2>1. activation' = [activation EXCEPT !.applyVersion = n]
    BY Zenon DEF ApplyRulesNow
  <2> HIDE DEF n
  <2> QED
    BY <1>1, <2>1, Zenon DEF Act, Inv, Types, ActivationType
<1> HIDE DEF n
<1>3. /\ Re("api", "stopApply", refresh["api"].v, refresh["api"].todo, refresh["api"].new)
      /\ refresh["api"].pc = "applied"
      /\ UNCHANGED <<rules, contents, matchers, trie, applyTimer, listTimer, editor, apply, mu,
                     mishap>>
  BY ReStep, Places, Zenon DEF ApplyRulesNow, Inv, stored
<1>4. Types'
  BY <1>2, <1>3, Zenon DEF Inv, Types, Re, Act
<1>5. Courses'
  BY <1>2, <1>3, Places, Zenon DEF Inv, Courses, Re, Act, Holding
<1>6. Clearing' /\ Applying'
  BY <1>3, Zenon DEF Clearing, Applying, Re
<1>7. ListsFrame
  BY <1>2, <1>3, Zenon DEF ListsFrame, Re, Act, Working
<1> QED
  BY <1>4, <1>5, <1>6, <1>7, ListsSame, Zenon DEF Inv, RulesKept

LEMMA StopApplyTimerKeeps ==
    ASSUME Inv, StopApplyTimer
    PROVE  Inv'
<1>1. /\ Re("api", "idle", refresh["api"].v, refresh["api"].todo, refresh["api"].new)
      /\ refresh["api"].pc = "stopApply" /\ applyTimer' = 0
      /\ UNCHANGED <<rules, contents, matchers, trie, activation, listTimer, editor, mu, mishap>>
  BY ReStep, Places, Zenon DEF StopApplyTimer, Inv, stored
<1>2. /\ Ap("api", "read", apply["api"].v, apply["api"].got, apply["api"].todo,
            apply["api"].val)
      /\ apply["api"].pc = "idle" /\ refresh["api"].v # 0
  BY <1>1, ApStep, Places, Zenon DEF StopApplyTimer, Inv, Courses
<1>3. Types'
  <2>1. 0 \in Nat
    OBVIOUS
  <2> QED
    BY <1>1, <1>2, <2>1, Zenon DEF Inv, Types, Re, Ap
<1>4. Courses'
  BY <1>1, <1>2, Places, ZenonT(40) DEF Inv, Courses, Re, Ap, Holding
<1>5. Clearing' /\ Applying'
  BY <1>2, Places, Zenon DEF Clearing, Applying, Ap
<1>6. ListsFrame
  BY <1>1, <1>2, Zenon DEF ListsFrame, Re, Ap, Working
<1> QED
  BY <1>3, <1>4, <1>5, <1>6, ListsSame, Zenon DEF Inv, RulesKept

LEMMA RefreshBeginKeeps ==
    ASSUME Inv, NEW r \in Runs, RefreshBegin(r)
    PROVE  Inv'
<1>1. /\ refresh[r].pc = "lock" /\ mu = "free" /\ mu' = r
      /\ UNCHANGED <<rules, contents, matchers, trie, activation, applyTimer, listTimer, editor,
                     apply, mishap>>
  BY Zenon DEF RefreshBegin, stored
<1>2. Re(r, "build", activation.refreshVersion, Indexed(trie), Empty)
  <2> DEFINE x == [pc |-> "build", v |-> activation.refreshVersion, todo |-> Indexed(trie),
                   new |-> Empty]
  <2>1. refresh' = [refresh EXCEPT ![r] = x]
    BY Zenon DEF RefreshBegin
  <2>2. Indexed(trie) \in SUBSET Lists
    BY Zenon DEF Indexed
  <2>3. /\ x \in RefreshType /\ x.pc = "build" /\ x.v = activation.refreshVersion
        /\ x.todo = Indexed(trie) /\ x.new = Empty
    BY <2>2, EmptyFields, OtherFields, Places, Zenon DEF RefreshType, Inv
  <2> HIDE DEF x
  <2> QED
    BY <2>1, <2>3, RePut, Zenon DEF Inv
<1>3. Types' /\ RulesKept' /\ IndexFull'
  BY <1>1, <1>2, RefreshCallKeeps, Zenon DEF Inv, Types
<1>4. \A q \in Runs \ {r} : refresh'[q] = refresh[q] /\ refresh[q].pc \notin Holding
  BY <1>1, <1>2, Zenon DEF Inv, Courses, Re, Runs
<1>5. Courses'
  BY <1>1, <1>2, <1>4, Places, Zenon DEF Inv, Courses, Re, Holding
<1>6. Marking'
  BY <1>1, <1>2, Zenon DEF Marking, Re
<1>7. \A l \in Lists : trie[l] # 0 => Building(r, l)'
  BY <1>2, Zenon DEF Building, Re, Indexed
<1>8. IndexFresh'
  BY <1>1, <1>2, <1>4, <1>7, EmptyFields, ZenonT(40) DEF IndexFresh, Re, Holding
<1> QED
  BY <1>3, <1>5, <1>6, <1>8, Zenon DEF Inv, ListsKept

LEMMA RefreshBuildKeeps ==
    ASSUME Inv, NEW r \in Runs, NEW l \in Lists, NEW version \in Reads(l),
           RefreshBuild(r, l, version)
    PROVE  Inv'
<1> DEFINE new == [refresh[r].new EXCEPT ![l] = version]
           todo == refresh[r].todo \ {l}
<1>1. /\ refresh[r].pc = "build" /\ l \in refresh[r].todo
      /\ UNCHANGED <<rules, contents, matchers, trie, activation, applyTimer, listTimer, editor,
                     apply, mu, mishap>>
  BY Zenon DEF RefreshBuild, stored
<1>0. version \in Nat /\ version \in {0, contents[l]}
  BY DEF Inv, Types, Reads
<1>2. /\ new \in [Lists -> Nat] /\ new[l] \in {0, contents[l]}
      /\ \A k \in Lists \ {l} : new[k] = refresh[r].new[k]
      /\ todo \in SUBSET Lists /\ \A k \in refresh[r].todo : k = l \/ k \in todo
  BY <1>0, ReFields, Zenon DEF Inv, Types
<1>3. Re(r, "build", refresh[r].v, todo, new)
  <2> DEFINE x == [refresh[r] EXCEPT !.todo = todo, !.new = new]
  <2>1. refresh' = [refresh EXCEPT ![r] = x]
    BY ReFields DEF RefreshBuild, Inv, RefreshType
  <2> HIDE DEF new, todo
  <2>2. x \in RefreshType
    BY <1>2, ReFields, Zenon DEF RefreshType, Inv
  <2>3. x.pc = "build" /\ x.v = refresh[r].v /\ x.todo = todo /\ x.new = new
    BY <1>1, ReFields, Zenon DEF RefreshType, Inv
  <2> HIDE DEF x
  <2> QED
    BY <2>1, <2>2, <2>3, RePut, Zenon DEF Inv
<1> HIDE DEF new, todo
<1>4. Types' /\ RulesKept' /\ IndexFull'
  BY <1>1, <1>3, RefreshCallKeeps, Zenon DEF Inv, Types
<1>5. Courses'
  BY <1>1, <1>3, Places, Zenon DEF Inv, Courses, Re, Holding
<1>6. (Marking => Marking') /\ (Coming => Coming')
  BY <1>1, <1>3, Zenon DEF Marking, Coming, Re
<1>7. ASSUME NEW q \in Runs, NEW k \in Lists, Building(q, k)
      PROVE  Building(q, k)'
  <2>1. CASE q # r
    BY <1>1, <1>3, <1>7, <2>1, Zenon DEF Building, Re
  <2>2. CASE q = r
    BY <1>1, <1>2, <1>3, <1>7, <2>2, Zenon DEF Building, Re
  <2> QED
    BY <2>1, <2>2, Zenon
<1>8. ASSUME NEW q \in Runs, refresh'[q].pc \in {"build", "swap"}, NEW k \in Lists
      PROVE  refresh'[q].new[k] \in {0, contents[k]} \/ Coming'
  <2>1. CASE q # r
    BY <1>3, <1>6, <1>8, <2>1, Zenon DEF Re, Inv, ListsKept, IndexFresh
  <2>2. CASE q = r
    BY <1>1, <1>2, <1>3, <1>6, <2>2, Zenon DEF Re, Inv, ListsKept, IndexFresh
  <2> QED
    BY <2>1, <2>2, Zenon
<1>9. IndexFresh'
  BY <1>1, <1>6, <1>7, <1>8, Zenon DEF Inv, ListsKept, IndexFresh
<1> QED
  BY <1>1, <1>4, <1>5, <1>6, <1>9, Zenon DEF Inv, ListsKept

LEMMA RefreshBuiltKeeps ==
    ASSUME Inv, NEW r \in Runs, RefreshBuilt(r)
    PROVE  Inv'
<1>1. /\ Re(r, "swap", refresh[r].v, refresh[r].todo, refresh[r].new)
      /\ refresh[r].pc = "build" /\ refresh[r].todo = {}
      /\ UNCHANGED <<rules, contents, matchers, trie, activation, applyTimer, listTimer, editor,
                     apply, mu, mishap>>
  BY ReStep, Places, Zenon DEF RefreshBuilt, Inv, stored
<1>2. Types' /\ RulesKept' /\ IndexFull'
  BY <1>1, RefreshCallKeeps, Zenon DEF Inv, Types
<1>3. Courses'
  BY <1>1, Places, Zenon DEF Inv, Courses, Re, Holding
<1>4. (Marking => Marking') /\ (Coming => Coming')
  BY <1>1, Zenon DEF Marking, Coming, Re
<1>5. ASSUME NEW q \in Runs, NEW l \in Lists, Building(q, l)
      PROVE  Building(q, l)'
  BY <1>1, <1>5, Zenon DEF Building, Re
<1>6. ASSUME NEW q \in Runs, refresh'[q].pc \in {"build", "swap"}, NEW l \in Lists
      PROVE  refresh'[q].new[l] \in {0, contents[l]} \/ Coming'
  BY <1>1, <1>4, <1>6, Zenon DEF Re, Inv, ListsKept, IndexFresh
<1>7. IndexFresh'
  BY <1>1, <1>4, <1>5, <1>6, Zenon DEF Inv, ListsKept, IndexFresh
<1> QED
  BY <1>1, <1>2, <1>3, <1>4, <1>7, Zenon DEF Inv, ListsKept

LEMMA RefreshSwapKeeps ==
    ASSUME Inv, NEW r \in Runs, RefreshSwap(r)
    PROVE  Inv'
<1> DEFINE dropped == mishap.dropped \cup (Indexed(trie) \ Indexed(refresh[r].new))
<1>1. /\ refresh[r].pc = "swap" /\ trie' = refresh[r].new
      /\ UNCHANGED <<rules, contents, matchers, activation, applyTimer, listTimer, editor, apply,
                     mu>>
  BY Zenon DEF RefreshSwap, stored
<1>2. Re(r, "mark", refresh[r].v, refresh[r].todo, Empty)
  <2> DEFINE x == [refresh[r] EXCEPT !.pc = "mark", !.new = Empty]
  <2>1. refresh' = [refresh EXCEPT ![r] = x]
    BY Zenon DEF RefreshSwap
  <2>2. x \in RefreshType
    BY ReFields, EmptyFields, Places, Zenon DEF RefreshType, Inv
  <2>3. x.pc = "mark" /\ x.v = refresh[r].v /\ x.todo = refresh[r].todo /\ x.new = Empty
    BY ReFields, Zenon DEF RefreshType, Inv
  <2> HIDE DEF x
  <2> QED
    BY <2>1, <2>2, <2>3, RePut, Zenon DEF Inv
<1>3. /\ dropped \in SUBSET Lists /\ mishap.dropped \subseteq dropped
      /\ \A l \in Lists : trie[l] # 0 => refresh[r].new[l] # 0 \/ l \in dropped
  BY OtherFields, Zenon DEF Inv, Indexed
<1>4. Mis(dropped, mishap.overlap, mishap.stale, mishap.failed)
  <2>1. mishap' = [mishap EXCEPT !.dropped = dropped]
    BY Zenon DEF RefreshSwap
  <2> HIDE DEF dropped
  <2> QED
    BY <1>3, <2>1, Zenon DEF Mis, Inv, Types, MishapType
<1> HIDE DEF dropped
<1>5. Types'
  BY <1>1, <1>2, <1>4, ReFields, Zenon DEF Inv, Types, Re, Mis
<1>6. Courses'
  BY <1>1, <1>2, Places, Zenon DEF Inv, Courses, Re, Holding
<1>7. RulesKept'
  <2>1. RulesFrame
    BY <1>1, <1>2, <1>4, Places, Zenon DEF RulesFrame, Re, Mis
  <2> QED
    BY <2>1, RulesSame, Zenon DEF Inv
<1>8. (Marking => Marking') /\ (Coming => Coming')
  BY <1>1, <1>2, Zenon DEF Marking, Coming, Re
<1>9. IndexFresh'
  <2>1. \A l \in Lists : trie'[l] \in {0, contents[l]} \/ Coming'
    BY <1>1, <1>8, Zenon DEF Inv, ListsKept, IndexFresh
  <2>2. ASSUME NEW q \in Runs, refresh'[q].pc \in {"build", "swap"}, NEW l \in Lists
        PROVE  refresh'[q].new[l] \in {0, contents[l]} \/ Coming'
    BY <1>2, <1>8, <2>2, Zenon DEF Re, Inv, ListsKept, IndexFresh
  <2> QED
    BY <1>1, <2>1, <2>2, Zenon DEF IndexFresh
<1>10. IndexFull'
  <2>1. \A l \in Lists : InIndex(l) => InIndex(l)'
    BY <1>1, <1>3, <1>4, Zenon DEF InIndex, Mis
  <2> QED
    BY <1>1, <1>4, <2>1, FullSame, Zenon DEF Inv, ListsKept, Mis
<1> QED
  BY <1>1, <1>5, <1>6, <1>7, <1>8, <1>9, <1>10, Zenon DEF Inv, ListsKept

LEMMA RefreshCompareKeeps ==
    ASSUME Inv, NEW r \in Runs, RefreshCompare(r)
    PROVE  Inv'
<1>1. PICK pc \in {"store", "unlock"} :
        /\ Re(r, pc, refresh[r].v, refresh[r].todo, refresh[r].new)
        /\ activation.refreshVersion = refresh[r].v => pc = "store"
  <2>1. CASE activation.refreshVersion = refresh[r].v
    <3>1. refresh' = [refresh EXCEPT ![r].pc = "store"]
      BY <2>1, Zenon DEF RefreshCompare
    <3> QED
      BY <3>1, ReStep, Places, Zenon DEF Inv
  <2>2. CASE activation.refreshVersion # refresh[r].v
    <3>1. refresh' = [refresh EXCEPT ![r].pc = "unlock"]
      BY <2>2, Zenon DEF RefreshCompare
    <3> QED
      BY <2>2, <3>1, ReStep, Places, Zenon DEF Inv
  <2> QED
    BY <2>1, <2>2, Zenon
<1>2. /\ refresh[r].pc = "mark"
      /\ UNCHANGED <<rules, contents, matchers, trie, activation, applyTimer, listTimer, editor,
                     apply, mu, mishap>>
  BY Zenon DEF RefreshCompare, stored
<1>3. Types' /\ RulesKept' /\ IndexFull'
  BY <1>1, <1>2, RefreshCallKeeps, Zenon DEF Inv, Types
<1>4. Courses'
  BY <1>1, <1>2, Places, Zenon DEF Inv, Courses, Re, Holding
<1>5. Coming => Coming'
  BY <1>1, <1>2, Zenon DEF Coming, Re
<1>6. Marking => Marking'
  BY <1>1, <1>2, Zenon DEF Marking, Re
<1>7. IndexFresh'
  BY <1>1, <1>2, <1>5, FreshSame, Zenon DEF Re, Inv, ListsKept
<1> QED
  BY <1>2, <1>3, <1>4, <1>6, <1>7, Zenon DEF Inv, ListsKept

LEMMA RefreshStoreKeeps ==
    ASSUME Inv, NEW r \in Runs, RefreshStore(r)
    PROVE  Inv'
<1>1. Act(activation.applyVersion, activation.applyAt, activation.refreshVersion, FALSE)
  BY Zenon DEF RefreshStore, Act, Inv, Types, ActivationType
<1>2. /\ Re(r, "unlock", refresh[r].v, refresh[r].todo, refresh[r].new)
      /\ refresh[r].pc = "store"
      /\ UNCHANGED <<rules, contents, matchers, trie, applyTimer, listTimer, editor, apply, mu,
                     mishap>>
  BY ReStep, Places, Zenon DEF RefreshStore, Inv, stored
<1>3. Types' /\ RulesKept' /\ IndexFull'
  BY <1>1, <1>2, RefreshCallKeeps, Zenon DEF Inv, Types, Act
<1>4. Courses'
  BY <1>1, <1>2, Places, ZenonT(40) DEF Inv, Courses, Re, Act, Holding
<1>5. Coming => Coming'
  BY <1>2, Zenon DEF Coming, Re
<1>6. IndexFresh'
  BY <1>2, <1>5, FreshSame, Zenon DEF Re, Inv, ListsKept
<1> QED
  BY <1>1, <1>3, <1>4, <1>6, Zenon DEF Inv, ListsKept, Act

LEMMA RefreshUnlockKeeps ==
    ASSUME Inv, NEW r \in Runs, RefreshUnlock(r)
    PROVE  Inv'
<1>1. PICK pc \in {"applied", "idle"} :
        /\ Re(r, pc, refresh[r].v, refresh[r].todo, refresh[r].new)
        /\ r = "api" => pc = "applied"
  <2>1. CASE r = "api"
    BY <2>1, ReStep, Places, Zenon DEF RefreshUnlock, Inv
  <2>2. CASE r # "api"
    <3>1. refresh' = [refresh EXCEPT ![r].pc = "idle"]
      BY <2>2, Zenon DEF RefreshUnlock
    <3> QED
      BY <2>2, <3>1, ReStep, Places, Zenon DEF Inv
  <2> QED
    BY <2>1, <2>2, Zenon
<1>2. /\ refresh[r].pc = "unlock" /\ mu' = "free"
      /\ UNCHANGED <<rules, contents, matchers, trie, activation, applyTimer, listTimer, editor,
                     apply, mishap>>
  BY Zenon DEF RefreshUnlock, stored
<1>3. Types' /\ RulesKept' /\ IndexFull'
  BY <1>1, <1>2, RefreshCallKeeps, Zenon DEF Inv, Types
<1>4. \A q \in Runs \ {r} : refresh'[q] = refresh[q] /\ refresh[q].pc \notin Holding
  BY <1>1, <1>2, Zenon DEF Inv, Courses, Re, Holding
<1>5. Courses'
  BY <1>1, <1>2, <1>4, Places, Zenon DEF Inv, Courses, Re, Holding
<1>6. ListsFrame
  BY <1>1, <1>2, Zenon DEF ListsFrame, Re, Working
<1> QED
  BY <1>3, <1>5, <1>6, ListsSame, Zenon DEF Inv
-----------------------------------------------------------------------------
LEMMA NextInv ==
    ASSUME Inv, [Next]_vars
    PROVE  Inv'
<1>1. CASE UNCHANGED vars
  <2>1. /\ UNCHANGED <<rules, contents, matchers, trie, activation, applyTimer, listTimer>>
        /\ UNCHANGED <<editor, apply, refresh, mu, mishap>>
    BY <1>1, Zenon DEF vars, stored
  <2>2. Types' /\ Courses'
    BY <2>1, Zenon DEF Inv, Types, Courses
  <2>3. RulesFrame /\ ListsFrame
    BY <2>1, Zenon DEF RulesFrame, ListsFrame
  <2> QED
    BY <2>2, <2>3, RulesSame, ListsSame, Zenon DEF Inv
<1>2. CASE \E e \in RuleEditors : \/ \E L \in SUBSET Lists : SaveRule(e, L)
                                  \/ ScheduleVersion(e) \/ ScheduleAt(e) \/ ScheduleTimer(e)
  BY <1>2, SaveRuleKeeps, ScheduleVersionKeeps, ScheduleAtKeeps, ScheduleTimerKeeps, Zenon
<1>3. CASE \E e \in ListEditors : \/ \E l \in Lists : SaveList(e, l)
                                  \/ NotifyVersion(e) \/ NotifyAt(e) \/ NotifyReset(e)
  BY <1>3, SaveListKeeps, NotifyVersionKeeps, NotifyAtKeeps, NotifyResetKeeps, Zenon
<1>4. CASE \/ ApplyNow \/ StopListTimer \/ ApplyRulesNow \/ StopApplyTimer
           \/ ApplyFires \/ ApplyCompare \/ RefreshFires
  BY <1>4, ApplyNowKeeps, StopListTimerKeeps, ApplyRulesNowKeeps, StopApplyTimerKeeps,
     ApplyFiresKeeps, ApplyCompareKeeps, RefreshFiresKeeps, Zenon
<1>5. CASE \E r \in Runs : \/ ApplyRead(r) \/ ApplyFails(r) \/ ApplyReset(r) \/ ApplySwap(r)
                           \/ ApplyAdd(r) \/ ApplyStore(r)
                           \/ \E l \in Lists : \E version \in Reads(l) : ApplyGet(r, l, version)
  BY <1>5, ApplyReadKeeps, ApplyFailsKeeps, ApplyResetKeeps, ApplySwapKeeps, ApplyAddKeeps,
     ApplyStoreKeeps, ApplyGetKeeps, Zenon
<1>6. CASE \E r \in Runs : \/ RefreshBegin(r) \/ RefreshBuilt(r) \/ RefreshSwap(r)
                           \/ RefreshCompare(r) \/ RefreshStore(r) \/ RefreshUnlock(r)
                           \/ \E l \in Lists : \E version \in Reads(l) : RefreshBuild(r, l, version)
  BY <1>6, RefreshBeginKeeps, RefreshBuiltKeeps, RefreshSwapKeeps, RefreshCompareKeeps,
     RefreshStoreKeeps, RefreshUnlockKeeps, RefreshBuildKeeps, Zenon
<1> QED
  BY <1>1, <1>2, <1>3, <1>4, <1>5, <1>6, Zenon DEF Next

LEMMA Invariant == Spec => []Inv
  BY InitInv, NextInv, PTL DEF Spec

\* What is announced as pending always has somebody who is going to settle it,
\* so that when all is quiet nothing is announced (rule.go, list.go), unless two
\* schedulings crossed or the store failed.
THEOREM AnnouncedIsSettled == Spec => []AnnouncedComes
<1>1. ASSUME Inv
      PROVE  AnnouncedComes
  <2> SUFFICES ASSUME Quiet
               PROVE  /\ ~activation.refreshAt
                      /\ activation.applyAt => mishap.stale \/ mishap.failed
    BY Zenon DEF AnnouncedComes
  <2>1. ~Marking /\ ~Clearing
    BY EditorSets, Places, Zenon DEF Quiet, Marking, Clearing
  <2> QED
    BY <1>1, <2>1, Zenon DEF Inv, RulesKept, ListsKept
<1> QED
  BY <1>1, Invariant, PTL

\* When all is quiet the router uses the rules and the lists as they are stored,
\* except for what the steps are known to get wrong: applications that overlap,
\* schedulings that cross, a store that fails and lists that were left out.
THEOREM QuietIsApplied == Spec => []ActivationTruthful
<1>1. ASSUME Inv
      PROVE  ActivationTruthful
  <2> SUFFICES ASSUME Quiet, ~mishap.overlap
               PROVE  /\ matchers = rules \/ mishap.failed \/ mishap.stale
                      /\ \A l \in matchers : trie[l] = contents[l] \/ l \in mishap.dropped
    BY Zenon DEF ActivationTruthful
  <2>1. ~Applying /\ ~Coming
    BY EditorSets, Places, Zenon DEF Quiet, Applying, Coming
  <2>2. \A r \in Runs : apply[r].pc # "add" /\ \A l \in Lists : ~Building(r, l)
    BY Zenon DEF Quiet, Building
  <2>3. matchers = rules \/ mishap.failed \/ mishap.stale
    BY <1>1, <2>1, Zenon DEF Inv, RulesKept
  <2>4. \A l \in matchers : l \in Lists /\ (trie[l] # 0 \/ l \in mishap.dropped)
    BY <1>1, <2>2, Zenon DEF Inv, Types, ListsKept, IndexFull, InIndex
  <2>5. \A l \in matchers : trie[l] = contents[l] \/ l \in mishap.dropped
    BY <1>1, <2>1, <2>2, <2>4, Zenon DEF Inv, ListsKept, IndexFresh
  <2> QED
    BY <2>3, <2>5, Zenon
<1> QED
  BY <1>1, Invariant, PTL

-----------------------------------------------------------------------------
(* ListRefresh *)

Busy == {"lists", "settings", "download", "geoip", "rename", "forget", "save"}
SettingsType == [interval : Nat, disk : BOOLEAN]
RunType == [pc : Busy \cup {"idle", "end"}, list : Nat, settings : SettingsType]
SaverType == [pc : {"idle", "reset", "save", "disk", "done"}, new : SettingsType,
              old : SettingsType]
TimerType == [st : {"none", "armed", "fired", "stopped"}, interval : Nat, due : Nat]
OvertakenType == [list : BOOLEAN, settings : BOOLEAN, geo : BOOLEAN]

RemoteTypes ==
    /\ list \in Nat /\ edited \in Nat /\ settings \in SettingsType
    /\ hostTrieDisk \in BOOLEAN /\ refreshing \in BOOLEAN
    /\ ticker \in Remote!Refreshers /\ timer \in [Remote!Tickers -> TimerType]
    /\ run \in [Remote!Refreshers -> RunType] /\ saver \in [Savers -> SaverType]
    /\ geoip \in [loaded : BOOLEAN, m : Nat] /\ file \in Nat
    /\ closed \in BOOLEAN /\ crashed \in BOOLEAN /\ overtaken \in OvertakenType

\* One refresh runs at a time, while refreshing is set.
OneRefresh ==
    \A r \in Remote!Refreshers :
        run[r].pc \in Busy =>
            refreshing /\ \A q \in Remote!Refreshers : run[q].pc \in Busy => q = r

\* A refresh holds the list as it was last edited, until it is edited.
ListKept ==
    /\ list = edited \/ overtaken.list
    /\ \A r \in Remote!Refreshers :
           run[r].pc \in {"settings", "download"} => run[r].list = edited \/ overtaken.list

\* While a file is replaced its database is closed.
GeoKept ==
    /\ geoip.m \in {0, file} \/ overtaken.geo
    /\ \A r \in Remote!Refreshers : run[r].pc = "rename" => geoip.m = 0 \/ overtaken.geo

\* The timer that is the ticker has the interval i.
Ticks(ticking, timers, i) ==
    IF ticking = 0 THEN i \notin 1..MaxInterval
    ELSE timers[ticking].due = i /\ timers[ticking].interval = i

\* What a call that changes the settings has read is still so, and it is the
\* only one that has changed what runs.
CallsKeep ==
    /\ \A s \in Savers : saver[s].pc \in {"reset", "save"} => saver[s].old = settings
    /\ \A s \in Savers : saver[s].pc = "disk" =>
           /\ saver[s].new = settings /\ hostTrieDisk = saver[s].old.disk
           /\ \A o \in Savers : saver[o].pc = "disk" => o = s
    /\ \A s \in Savers : saver[s].pc = "save" =>
           \/ Ticks(ticker, timer, saver[s].new.interval)
           \/ \E o \in Savers \ {s} : saver[o].pc \in {"reset", "save"}
AtRest ==
    /\ (\A s \in Savers : saver[s].pc # "disk") => hostTrieDisk = settings.disk
    /\ (\A s \in Savers : saver[s].pc # "save") => Ticks(ticker, timer, settings.interval)
SettingsKept == ~overtaken.settings /\ ~closed => CallsKeep /\ AtRest

RemoteInv ==
    /\ RemoteTypes /\ OneRefresh /\ Remote!TickerAlive
    /\ ListKept /\ GeoKept /\ SettingsKept

\* What a refresh moves: its own record.
Moves(r) == /\ run' \in [Remote!Refreshers -> RunType]
            /\ \A q \in Remote!Refreshers \ {r} : run'[q] = run[q]

LEMMA MoveOne ==
    ASSUME OneRefresh, NEW r \in Remote!Refreshers, Moves(r),
           \/ run[r].pc \in Busy /\ (refreshing' \/ run'[r].pc \notin Busy)
           \/ run'[r].pc \notin Busy /\ refreshing'
           \/ ~refreshing /\ refreshing'
    PROVE OneRefresh'
  BY Zenon DEF OneRefresh, Moves, Remote!Refreshers, Remote!Tickers

LEMMA MoveList ==
    ASSUME ListKept, NEW r \in Remote!Refreshers, Moves(r),
           list' = edited' \/ overtaken'.list,
           edited' = edited, overtaken'.list = overtaken.list,
           run'[r].pc \in {"settings", "download"} =>
               run'[r].list = edited \/ overtaken.list
    PROVE ListKept'
  BY Zenon DEF ListKept, Moves, Remote!Refreshers, Remote!Tickers

LEMMA MoveGeo ==
    ASSUME GeoKept, NEW r \in Remote!Refreshers, Moves(r),
           UNCHANGED <<geoip, file>>, overtaken'.geo = overtaken.geo,
           run'[r].pc # "rename"
    PROVE GeoKept'
  BY Zenon DEF GeoKept, Moves, Remote!Refreshers, Remote!Tickers

LEMMA SettingsStayIf ==
    ASSUME SettingsKept, UNCHANGED <<settings, hostTrieDisk, saver>>,
           closed' \/ closed' = closed, overtaken'.settings = overtaken.settings,
           \A i : Ticks(ticker, timer, i) => Ticks(ticker', timer', i)
    PROVE SettingsKept'
<1>1. CallsKeep => CallsKeep'
  BY ZenonT(40) DEF CallsKeep
<1>2. AtRest => AtRest'
  BY ZenonT(40) DEF AtRest
<1> QED
  BY <1>1, <1>2, Zenon DEF SettingsKept

LEMMA SettingsStay ==
    ASSUME SettingsKept, UNCHANGED <<settings, hostTrieDisk, ticker, saver>>,
           closed' \/ closed' = closed, overtaken'.settings = overtaken.settings,
           ticker # 0 => timer'[ticker].due = timer[ticker].due
                         /\ timer'[ticker].interval = timer[ticker].interval
    PROVE SettingsKept'
<1>1. \A i : Ticks(ticker, timer, i) => Ticks(ticker', timer', i)
  BY DEF Ticks
<1> QED
  BY <1>1, SettingsStayIf, Zenon

\* The record of a refresh after a step that changes its pc, and after the
\* steps that read; the same for a call that saves.
LEMMA RunPut ==
    ASSUME RemoteTypes, NEW r \in Remote!Refreshers, NEW x \in RunType,
           run' = [run EXCEPT ![r] = x]
    PROVE Moves(r) /\ run'[r] = x
<1>1. run \in [Remote!Refreshers -> RunType]
  BY Zenon DEF RemoteTypes
<1> QED
  BY <1>1, Zenon DEF Moves

LEMMA RunGoes ==
    ASSUME RemoteTypes, NEW r \in Remote!Refreshers, NEW p \in Busy \cup {"idle", "end"},
           run' = [run EXCEPT ![r].pc = p]
    PROVE Moves(r) /\ run'[r].pc = p /\ run'[r].list = run[r].list
<1> DEFINE x == [run[r] EXCEPT !.pc = p]
<1>1. run \in [Remote!Refreshers -> RunType] /\ run[r] \in RunType
  BY Zenon DEF RemoteTypes
<1>2. x \in RunType /\ x.pc = p /\ x.list = run[r].list
  BY <1>1, Zenon DEF RunType
<1>3. run' = [run EXCEPT ![r] = x]
  BY Zenon
<1> HIDE DEF x
<1> QED
  BY <1>2, <1>3, RunPut, Zenon

LEMMA RunEnds ==
    ASSUME RemoteTypes, NEW r \in Remote!Refreshers,
           run' = [run EXCEPT ![r] = [Remote!NoRun EXCEPT !.pc = "end"]]
    PROVE Moves(r) /\ run'[r].pc = "end"
<1> DEFINE x == [Remote!NoRun EXCEPT !.pc = "end"]
<1>1. run \in [Remote!Refreshers -> RunType]
  BY Zenon DEF RemoteTypes
<1>2. x \in RunType /\ x.pc = "end"
  BY Zenon DEF RunType, SettingsType, Remote!NoRun, Remote!NoSettings
<1>3. run' = [run EXCEPT ![r] = x]
  BY Zenon
<1> HIDE DEF x
<1> QED
  BY <1>2, <1>3, RunPut, Zenon

LEMMA RunReadsList ==
    ASSUME RemoteTypes, NEW r \in Remote!Refreshers, Remote!ReadLists(r)
    PROVE Moves(r) /\ run'[r].pc = "settings" /\ run'[r].list = list
<1> DEFINE x == [run[r] EXCEPT !.pc = "settings", !.list = list]
<1>1. run \in [Remote!Refreshers -> RunType] /\ run[r] \in RunType /\ list \in Nat
  BY Zenon DEF RemoteTypes
<1>2. x \in RunType /\ x.pc = "settings" /\ x.list = list
  BY <1>1, Zenon DEF RunType, Busy
<1>3. run' = [run EXCEPT ![r] = x]
  BY Zenon DEF Remote!ReadLists
<1> HIDE DEF x
<1> QED
  BY <1>2, <1>3, RunPut, Zenon

LEMMA RunReadsSettings ==
    ASSUME RemoteTypes, NEW r \in Remote!Refreshers, Remote!ReadSettings(r)
    PROVE Moves(r) /\ run'[r].pc = "download" /\ run'[r].list = run[r].list
<1> DEFINE x == [run[r] EXCEPT !.pc = "download", !.settings = settings]
<1>1. run \in [Remote!Refreshers -> RunType] /\ run[r] \in RunType /\ settings \in SettingsType
  BY Zenon DEF RemoteTypes
<1>2. x \in RunType /\ x.pc = "download" /\ x.list = run[r].list
  BY <1>1, Zenon DEF RunType, Busy
<1>3. run' = [run EXCEPT ![r] = x]
  BY Zenon DEF Remote!ReadSettings
<1> HIDE DEF x
<1> QED
  BY <1>2, <1>3, RunPut, Zenon

LEMMA RunSavesList ==
    ASSUME RemoteTypes, NEW r \in Remote!Refreshers, Remote!SaveLists(r)
    PROVE Moves(r) /\ run'[r].pc = "geoip"
<1> DEFINE x == [run[r] EXCEPT !.pc = "geoip", !.list = 0]
<1>1. run \in [Remote!Refreshers -> RunType] /\ run[r] \in RunType
  BY Zenon DEF RemoteTypes
<1>2. x \in RunType /\ x.pc = "geoip"
  BY <1>1, Zenon DEF RunType, Busy
<1>3. run' = [run EXCEPT ![r] = x]
  BY Zenon DEF Remote!SaveLists
<1> HIDE DEF x
<1> QED
  BY <1>2, <1>3, RunPut, Zenon

Others == <<list, edited, settings, hostTrieDisk, ticker, timer, crashed, saver, geoip, file,
            closed, overtaken>>

LEMMA RunOnly ==
    ASSUME RemoteInv, NEW r \in Remote!Refreshers, Moves(r), UNCHANGED Others,
           refreshing' \in BOOLEAN,
           \/ run[r].pc \in Busy /\ (refreshing' \/ run'[r].pc \notin Busy)
           \/ run'[r].pc \notin Busy /\ refreshing'
           \/ ~refreshing /\ refreshing',
           run'[r].pc # "rename",
           run'[r].pc \in {"settings", "download"} =>
               run'[r].list = edited \/ overtaken.list
    PROVE RemoteInv'
<1>1. RemoteTypes'
  BY Zenon DEF RemoteInv, RemoteTypes, Others, Moves
<1>2. OneRefresh'
  BY MoveOne, Zenon DEF RemoteInv
<1>3. Remote!TickerAlive'
  BY Zenon DEF RemoteInv, Remote!TickerAlive, Others
<1>4. ListKept'
  <2>1. list' = edited' \/ overtaken'.list
    BY Zenon DEF RemoteInv, ListKept, Others
  <2> QED
    BY <2>1, MoveList, Zenon DEF RemoteInv, Others
<1>5. GeoKept'
  BY MoveGeo, Zenon DEF RemoteInv, Others
<1>6. SettingsKept'
  BY SettingsStay, Zenon DEF RemoteInv, Others
<1> QED
  BY <1>1, <1>2, <1>3, <1>4, <1>5, <1>6, Zenon DEF RemoteInv

LEMMA RefreshReads ==
    ASSUME RemoteInv, NEW r \in Remote!Refreshers,
           \/ Remote!ReadLists(r) \/ Remote!ReadSettings(r) \/ Remote!NoDownload(r)
           \/ Remote!DownloadFails(r) \/ Remote!RefreshFails(r)
    PROVE RemoteInv'
<1> USE DEF Remote!listVars, Remote!tickVars, Remote!geoVars
<1>1. RemoteTypes /\ refreshing \in BOOLEAN /\ OneRefresh /\ ListKept
  BY Zenon DEF RemoteInv, RemoteTypes
<1>2. CASE Remote!ReadLists(r)
  <2>1. /\ run[r].pc \in Busy /\ refreshing' = refreshing /\ UNCHANGED Others
    BY <1>2, Zenon DEF Remote!ReadLists, Busy, Others
  <2>2. Moves(r) /\ run'[r].pc = "settings" /\ run'[r].list = list
    BY <1>1, <1>2, RunReadsList, Zenon
  <2>3. refreshing /\ (list = edited \/ overtaken.list)
    BY <1>1, <2>1, Zenon DEF OneRefresh, ListKept
  <2> QED
    BY <1>1, <2>1, <2>2, <2>3, RunOnly, Zenon
<1>3. CASE Remote!ReadSettings(r)
  <2>1. /\ run[r].pc = "settings" /\ refreshing' = refreshing /\ UNCHANGED Others
    BY <1>3, Zenon DEF Remote!ReadSettings, Others
  <2>2. Moves(r) /\ run'[r].pc = "download" /\ run'[r].list = run[r].list
    BY <1>1, <1>3, RunReadsSettings, Zenon
  <2>3. run[r].pc \in Busy /\ (run[r].list = edited \/ overtaken.list)
    BY <1>1, <2>1, Zenon DEF ListKept, Busy
  <2>4. refreshing
    BY <1>1, <2>3, Zenon DEF OneRefresh
  <2> QED
    BY <1>1, <2>1, <2>2, <2>3, <2>4, RunOnly, Zenon
<1>4. CASE Remote!NoDownload(r) \/ Remote!DownloadFails(r)
  <2>1. PICK p \in {"save", "forget"} : run' = [run EXCEPT ![r].pc = p]
    BY <1>4, Zenon DEF Remote!NoDownload, Remote!DownloadFails
  <2>2. run[r].pc \in Busy /\ refreshing' = refreshing /\ UNCHANGED Others
    BY <1>4, Zenon DEF Remote!NoDownload, Remote!DownloadFails, Busy, Others
  <2>3. p \in Busy \cup {"idle", "end"} /\ p \notin {"rename", "settings", "download"}
    BY <2>1, Zenon DEF Busy
  <2>4. Moves(r) /\ run'[r].pc = p
    BY <1>1, <2>1, <2>3, RunGoes, Zenon
  <2>5. refreshing
    BY <1>1, <2>2, Zenon DEF OneRefresh
  <2>6. run'[r].pc # "rename" /\ run'[r].pc \notin {"settings", "download"}
    BY <2>3, <2>4, Zenon
  <2> QED
    BY <1>1, <2>2, <2>4, <2>5, <2>6, RunOnly, Zenon
<1>5. CASE Remote!RefreshFails(r)
  <2>1. run[r].pc \in Busy /\ refreshing' = FALSE /\ UNCHANGED Others
    BY <1>5, Zenon DEF Remote!RefreshFails, Busy, Others
  <2>2. Moves(r) /\ run'[r].pc = "end"
    BY <1>1, <1>5, RunEnds, Zenon DEF Remote!RefreshFails
  <2>3. run'[r].pc \notin Busy /\ run'[r].pc \notin {"rename", "settings", "download"}
    BY <2>2, Zenon DEF Busy
  <2> QED
    BY <1>1, <2>1, <2>2, <2>3, RunOnly, Zenon
<1> QED
  BY <1>2, <1>3, <1>4, <1>5, Zenon

LEMMA RefreshBegins ==
    ASSUME RemoteTypes, NEW r \in Remote!Refreshers, Remote!Begins(r, ~refreshing)
    PROVE /\ Moves(r) /\ refreshing' = TRUE /\ run'[r].pc \in {"lists", "end"}
          /\ run'[r].pc \notin Busy \/ ~refreshing
<1>1. PICK p : p = IF ~refreshing THEN "lists" ELSE "end"
  BY Zenon
<1>2. p \in Busy \cup {"idle", "end"} /\ p \in {"lists", "end"} /\ (p \notin Busy \/ ~refreshing)
  BY <1>1, Zenon DEF Busy
<1>3. refreshing' = TRUE /\ run' = [run EXCEPT ![r].pc = p]
  BY <1>1, Zenon DEF Remote!Begins
<1> QED
  BY <1>2, <1>3, RunGoes, Zenon

LEMMA RefreshIsCalled ==
    ASSUME RemoteInv, Remote!RefreshCall
    PROVE RemoteInv'
<1>1. RemoteTypes /\ 0 \in Remote!Refreshers
  BY Zenon DEF RemoteInv, Remote!Refreshers
<1>2. Remote!Begins(0, ~refreshing) /\ UNCHANGED Others
  BY Zenon DEF Remote!RefreshCall, Remote!listVars, Remote!tickVars, Remote!geoVars, Others
<1>3. /\ Moves(0) /\ refreshing' = TRUE /\ run'[0].pc \in {"lists", "end"}
      /\ run'[0].pc \notin Busy \/ ~refreshing
  BY <1>1, <1>2, RefreshBegins, Zenon
<1>4. run'[0].pc \notin {"rename", "settings", "download"}
  BY <1>3, Zenon
<1> QED
  BY <1>1, <1>2, <1>3, <1>4, RunOnly, Zenon

\* A timer that fires, is stopped or is armed again, keeps its interval.
LEMMA TimerPut ==
    ASSUME RemoteTypes, NEW t \in Remote!Tickers, NEW x \in TimerType,
           timer' = [timer EXCEPT ![t] = x]
    PROVE /\ timer' \in [Remote!Tickers -> TimerType] /\ timer'[t] = x
          /\ \A u \in Remote!Tickers \ {t} : timer'[u] = timer[u]
<1>1. timer \in [Remote!Tickers -> TimerType]
  BY Zenon DEF RemoteTypes
<1> QED
  BY <1>1, Zenon

LEMMA TimerFires ==
    ASSUME RemoteInv, NEW t \in Remote!Tickers, Remote!Fire(t)
    PROVE RemoteInv'
<1> USE DEF Remote!listVars, Remote!geoVars
<1>1. RemoteTypes /\ t \in Remote!Refreshers /\ timer[t] \in TimerType /\ timer[t].st = "armed"
  BY Zenon DEF RemoteInv, RemoteTypes, Remote!Refreshers, Remote!Fire
<1>2. /\ UNCHANGED <<list, edited, settings, hostTrieDisk, ticker, saver, geoip, file, closed,
                     crashed, overtaken>>
      /\ Remote!Begins(t, ~refreshing) /\ timer' = [timer EXCEPT ![t].st = "fired"]
  BY Zenon DEF Remote!Fire
<1>3. /\ Moves(t) /\ refreshing' = TRUE /\ run'[t].pc \in {"lists", "end"}
      /\ run'[t].pc \notin Busy \/ ~refreshing
  BY <1>1, <1>2, RefreshBegins, Zenon
<1>4. run'[t].pc # "rename" /\ run'[t].pc \notin {"settings", "download"}
  BY <1>3, Zenon
<1>5. /\ timer' \in [Remote!Tickers -> TimerType]
      /\ timer'[t].st = "fired" /\ timer'[t].due = timer[t].due
      /\ timer'[t].interval = timer[t].interval
      /\ \A u \in Remote!Tickers \ {t} : timer'[u] = timer[u]
  <2> DEFINE x == [timer[t] EXCEPT !.st = "fired"]
  <2>1. /\ x \in TimerType /\ x.st = "fired" /\ x.due = timer[t].due
        /\ x.interval = timer[t].interval
    BY <1>1, Zenon DEF TimerType
  <2>2. timer' = [timer EXCEPT ![t] = x]
    BY <1>2, Zenon
  <2> HIDE DEF x
  <2> QED
    BY <1>1, <2>1, <2>2, TimerPut, Zenon
<1>6. RemoteTypes'
  BY <1>1, <1>2, <1>3, <1>5, Zenon DEF RemoteTypes, Moves
<1>7. OneRefresh'
  BY <1>1, <1>3, MoveOne, Zenon DEF RemoteInv
<1>8. Remote!TickerAlive'
  BY <1>2, <1>5, Zenon DEF RemoteInv, Remote!TickerAlive
<1>9. ListKept'
  <2>1. list' = edited' \/ overtaken'.list
    BY <1>2, Zenon DEF RemoteInv, ListKept
  <2> QED
    BY <1>1, <1>2, <1>3, <1>4, <2>1, MoveList, Zenon DEF RemoteInv
<1>10. GeoKept'
  BY <1>1, <1>2, <1>3, <1>4, MoveGeo, Zenon DEF RemoteInv
<1>11. SettingsKept'
  <2>1. ticker # 0 => timer'[ticker].due = timer[ticker].due
                      /\ timer'[ticker].interval = timer[ticker].interval
    BY <1>1, <1>5, Zenon DEF RemoteTypes, Remote!Refreshers
  <2> QED
    BY <1>2, <2>1, SettingsStay, Zenon DEF RemoteInv
<1> QED
  BY <1>6, <1>7, <1>8, <1>9, <1>10, <1>11, Zenon DEF RemoteInv

LEMMA RefreshSavesLists ==
    ASSUME RemoteInv, NEW r \in Remote!Refreshers, Remote!SaveLists(r)
    PROVE RemoteInv'
<1>1. /\ RemoteTypes /\ run[r].pc \in Busy /\ run[r].pc = "download" /\ list' = run[r].list
      /\ run[r] \in RunType
      /\ UNCHANGED <<edited, settings, hostTrieDisk, ticker, timer, crashed, refreshing, saver,
                     geoip, file, closed, overtaken>>
  BY Zenon DEF RemoteInv, RemoteTypes, Remote!SaveLists, Remote!tickVars, Remote!geoVars, Busy
<1>2. Moves(r) /\ run'[r].pc = "geoip"
  BY <1>1, RunSavesList, Zenon
<1>3. refreshing /\ run'[r].pc # "rename" /\ run'[r].pc \notin {"settings", "download"}
  BY <1>1, <1>2, Zenon DEF RemoteInv, OneRefresh
<1>4. RemoteTypes'
  <2>1. list' \in Nat
    BY <1>1, Zenon DEF RunType
  <2> QED
    BY <1>1, <1>2, <2>1, Zenon DEF RemoteTypes, Moves
<1>5. OneRefresh'
  BY <1>1, <1>2, <1>3, MoveOne, Zenon DEF RemoteInv
<1>6. Remote!TickerAlive'
  BY <1>1, Zenon DEF RemoteInv, Remote!TickerAlive
<1>7. ListKept'
  <2>1. list' = edited' \/ overtaken'.list
    BY <1>1, Zenon DEF RemoteInv, ListKept
  <2> QED
    BY <1>1, <1>2, <1>3, <2>1, MoveList, Zenon DEF RemoteInv
<1>8. GeoKept'
  BY <1>1, <1>2, <1>3, MoveGeo, Zenon DEF RemoteInv
<1>9. SettingsKept'
  BY <1>1, SettingsStay, Zenon DEF RemoteInv
<1> QED
  BY <1>4, <1>5, <1>6, <1>7, <1>8, <1>9, Zenon DEF RemoteInv

\* The steps that replace the database.
LEMMA RefreshClosesGeoip ==
    ASSUME RemoteInv, NEW r \in Remote!Refreshers, Remote!CloseGeoip(r)
    PROVE RemoteInv'
<1>1. /\ RemoteTypes /\ run[r].pc \in Busy
      /\ geoip' = [geoip EXCEPT !.m = 0] /\ overtaken' = [overtaken EXCEPT !.geo = FALSE]
      /\ run' = [run EXCEPT ![r].pc = "rename"] /\ "rename" \in Busy \cup {"idle", "end"}
      /\ UNCHANGED <<list, edited, settings, hostTrieDisk, ticker, timer, crashed, refreshing,
                     saver, file, closed>>
  BY Zenon DEF RemoteInv, Remote!CloseGeoip, Remote!CloseFirst, Remote!listVars,
               Remote!tickVars, Busy
<1>2. Moves(r) /\ run'[r].pc = "rename"
  BY <1>1, RunGoes, Zenon
<1>3. refreshing /\ run'[r].pc \notin {"settings", "download"}
  BY <1>1, <1>2, Zenon DEF RemoteInv, OneRefresh
<1>4. geoip' \in [loaded : BOOLEAN, m : Nat] /\ geoip'.m = 0
  <2>1. geoip \in [loaded : BOOLEAN, m : Nat] /\ 0 \in Nat
    BY <1>1 DEF RemoteTypes
  <2> QED
    BY <1>1, <2>1, Zenon
<1>5. /\ overtaken' \in OvertakenType /\ overtaken'.list = overtaken.list
      /\ overtaken'.settings = overtaken.settings
  <2>1. overtaken \in OvertakenType
    BY <1>1, Zenon DEF RemoteTypes
  <2> QED
    BY <1>1, <2>1, Zenon DEF OvertakenType
<1>6. RemoteTypes'
  BY <1>1, <1>2, <1>4, <1>5, Zenon DEF RemoteTypes, Moves
<1>7. OneRefresh'
  BY <1>1, <1>2, <1>3, MoveOne, Zenon DEF RemoteInv
<1>8. Remote!TickerAlive'
  BY <1>1, Zenon DEF RemoteInv, Remote!TickerAlive
<1>9. ListKept'
  <2>1. list' = edited' \/ overtaken'.list
    BY <1>1, <1>5, Zenon DEF RemoteInv, ListKept
  <2> QED
    BY <1>1, <1>2, <1>3, <1>5, <2>1, MoveList, Zenon DEF RemoteInv
<1>10. GeoKept'
  BY <1>4, Zenon DEF GeoKept
<1>11. SettingsKept'
  BY <1>1, <1>5, SettingsStay, Zenon DEF RemoteInv
<1> QED
  BY <1>6, <1>7, <1>8, <1>9, <1>10, <1>11, Zenon DEF RemoteInv

LEMMA RefreshRenames ==
    ASSUME RemoteInv, NEW r \in Remote!Refreshers, Remote!Rename(r) \/ Remote!ForgetGeoip(r)
    PROVE RemoteInv'
<1>1. PICK p \in {"forget", "save"} : run' = [run EXCEPT ![r].pc = p]
  BY Zenon DEF Remote!Rename, Remote!ForgetGeoip
<1>2. /\ RemoteTypes /\ run[r].pc \in Busy
      /\ p \in Busy \cup {"idle", "end"} /\ p \notin {"rename", "settings", "download"}
      /\ UNCHANGED <<list, edited, settings, hostTrieDisk, ticker, timer, crashed, refreshing,
                     saver, closed, overtaken>>
  BY <1>1, Zenon DEF RemoteInv, Remote!Rename, Remote!ForgetGeoip, Remote!listVars,
               Remote!tickVars, Busy
<1>3. Moves(r) /\ run'[r].pc = p
  BY <1>1, <1>2, RunGoes, Zenon
<1>4. refreshing /\ run'[r].pc \notin {"rename", "settings", "download"}
  BY <1>2, <1>3, Zenon DEF RemoteInv, OneRefresh
<1>5. /\ file' \in Nat /\ geoip' \in [loaded : BOOLEAN, m : Nat]
      /\ geoip'.m \in {0, file'} \/ overtaken'.geo
      /\ geoip' = geoip \/ geoip'.m = 0
  <2>1. file \in Nat /\ geoip \in [loaded : BOOLEAN, m : Nat]
    BY <1>2, Zenon DEF RemoteTypes
  <2>2. CASE Remote!Rename(r)
    <3>1. run[r].pc = "rename" /\ file' = file + 1 /\ geoip' = geoip
      BY <2>2, Zenon DEF Remote!Rename
    <3>2. file' \in Nat
      BY <2>1, <3>1
    <3> QED
      BY <1>2, <2>1, <3>1, <3>2, Zenon DEF RemoteInv, GeoKept
  <2>3. CASE Remote!ForgetGeoip(r)
    <3>1. geoip' = (IF geoip.m = 0 THEN Remote!NoGeo ELSE geoip) /\ file' = file
      BY <2>3, Zenon DEF Remote!ForgetGeoip
    <3>2. Remote!NoGeo \in [loaded : BOOLEAN, m : Nat] /\ Remote!NoGeo.m = 0
      BY DEF Remote!NoGeo
    <3> QED
      BY <1>2, <2>1, <3>1, <3>2, Zenon DEF RemoteInv, GeoKept
  <2> QED
    BY <2>2, <2>3, Zenon
<1>6. RemoteTypes'
  BY <1>2, <1>3, <1>5, Zenon DEF RemoteTypes, Moves
<1>7. OneRefresh'
  BY <1>2, <1>3, <1>4, MoveOne, Zenon DEF RemoteInv
<1>8. Remote!TickerAlive'
  BY <1>2, Zenon DEF RemoteInv, Remote!TickerAlive
<1>9. ListKept'
  <2>1. list' = edited' \/ overtaken'.list
    BY <1>2, Zenon DEF RemoteInv, ListKept
  <2> QED
    BY <1>2, <1>3, <1>4, <2>1, MoveList, Zenon DEF RemoteInv
<1>10. GeoKept'
  BY <1>2, <1>3, <1>4, <1>5, Zenon DEF RemoteInv, GeoKept, Moves, Remote!Refreshers, Remote!Tickers
<1>11. SettingsKept'
  BY <1>2, SettingsStay, Zenon DEF RemoteInv
<1> QED
  BY <1>6, <1>7, <1>8, <1>9, <1>10, <1>11, Zenon DEF RemoteInv

\* overtaken after a step that may set its field settings.
LEMMA Overtakes ==
    ASSUME RemoteTypes, NEW b \in BOOLEAN, overtaken' = [overtaken EXCEPT !.settings = b]
    PROVE /\ overtaken' \in OvertakenType /\ overtaken'.settings = b
          /\ overtaken'.list = overtaken.list /\ overtaken'.geo = overtaken.geo
<1>1. overtaken \in OvertakenType
  BY Zenon DEF RemoteTypes
<1> QED
  BY <1>1, Zenon DEF OvertakenType

LEMMA RefreshSavesSettings ==
    ASSUME RemoteInv, NEW r \in Remote!Refreshers, Remote!SaveSettings(r)
    PROVE RemoteInv'
<1> DEFINE b == overtaken.settings \/ settings # run[r].settings
<1>1. /\ RemoteTypes /\ run[r].pc \in Busy /\ run[r] \in RunType
      /\ settings' = run[r].settings /\ overtaken' = [overtaken EXCEPT !.settings = b]
      /\ refreshing' = FALSE /\ run' = [run EXCEPT ![r] = [Remote!NoRun EXCEPT !.pc = "end"]]
      /\ UNCHANGED <<list, edited, hostTrieDisk, ticker, timer, crashed, saver, geoip, file,
                     closed>>
  BY Zenon DEF RemoteInv, RemoteTypes, Remote!SaveSettings, Remote!listVars,
               Remote!tickVars, Remote!geoVars, Busy
<1>2. b \in BOOLEAN
  BY Zenon
<1>3. /\ overtaken' \in OvertakenType /\ overtaken'.settings = b
      /\ overtaken'.list = overtaken.list /\ overtaken'.geo = overtaken.geo
  BY <1>1, <1>2, Overtakes, Zenon
<1>4. Moves(r) /\ run'[r].pc = "end"
  BY <1>1, RunEnds, Zenon
<1>5. run'[r].pc \notin Busy /\ run'[r].pc \notin {"rename", "settings", "download"}
  BY <1>4, Zenon DEF Busy
<1>6. RemoteTypes'
  <2>1. settings' \in SettingsType
    BY <1>1, Zenon DEF RunType
  <2> QED
    BY <1>1, <1>3, <1>4, <2>1, Zenon DEF RemoteTypes, Moves
<1>7. OneRefresh'
  BY <1>1, <1>4, <1>5, MoveOne, Zenon DEF RemoteInv
<1>8. Remote!TickerAlive'
  BY <1>1, Zenon DEF RemoteInv, Remote!TickerAlive
<1>9. ListKept'
  <2>1. list' = edited' \/ overtaken'.list
    BY <1>1, <1>3, Zenon DEF RemoteInv, ListKept
  <2> QED
    BY <1>1, <1>3, <1>4, <1>5, <2>1, MoveList, Zenon DEF RemoteInv
<1>10. GeoKept'
  BY <1>1, <1>3, <1>4, <1>5, MoveGeo, Zenon DEF RemoteInv
<1>11. SettingsKept'
  <2>1. CASE b
    BY <1>3, <2>1, Zenon DEF SettingsKept
  <2>2. CASE ~b
    <3>1. settings' = settings /\ overtaken'.settings = overtaken.settings
      BY <1>1, <1>2, <1>3, <2>2, Zenon DEF RemoteTypes, OvertakenType
    <3> QED
      BY <1>1, <3>1, SettingsStay, Zenon DEF RemoteInv
  <2> QED
    BY <2>1, <2>2, Zenon
<1> QED
  BY <1>6, <1>7, <1>8, <1>9, <1>10, <1>11, Zenon DEF RemoteInv

\* The callback arms the ticker that is current.
LEMMA RefreshRearms ==
    ASSUME RemoteInv, NEW r \in Remote!Refreshers, Remote!Rearm(r), ~crashed
    PROVE RemoteInv'
<1>1. /\ RemoteTypes /\ run[r].pc = "end" /\ run' = [run EXCEPT ![r].pc = "idle"]
      /\ UNCHANGED <<list, edited, settings, hostTrieDisk, ticker, refreshing, saver, geoip,
                     file, closed>>
  BY Zenon DEF RemoteInv, Remote!Rearm, Remote!listVars, Remote!geoVars
<1>2. Moves(r) /\ run'[r].pc = "idle"
  BY <1>1, RunGoes, Zenon
<1>3. /\ run[r].pc \notin Busy /\ run'[r].pc \notin Busy
      /\ run'[r].pc # "rename" /\ run'[r].pc \notin {"settings", "download"}
  BY <1>1, <1>2, Zenon DEF Busy
<1>4. OneRefresh'
  BY <1>1, <1>2, <1>3, Zenon DEF RemoteInv, OneRefresh, Moves, Remote!Refreshers, Remote!Tickers
<1>5. CASE r = 0
  <2>1. UNCHANGED <<timer, crashed, overtaken>>
    BY <1>5, Zenon DEF Remote!Rearm
  <2>2. RemoteTypes'
    BY <1>1, <1>2, <2>1, Zenon DEF RemoteTypes, Moves
  <2>3. Remote!TickerAlive'
    BY <1>1, <2>1, Zenon DEF RemoteInv, Remote!TickerAlive
  <2>4. ListKept'
    <3>1. list' = edited' \/ overtaken'.list
      BY <1>1, <2>1, Zenon DEF RemoteInv, ListKept
    <3> QED
      BY <1>1, <1>2, <1>3, <2>1, <3>1, MoveList, Zenon DEF RemoteInv
  <2>5. GeoKept'
    BY <1>1, <1>2, <1>3, <2>1, MoveGeo, Zenon DEF RemoteInv
  <2>6. SettingsKept'
    BY <1>1, <2>1, SettingsStay, Zenon DEF RemoteInv
  <2> QED
    BY <1>4, <2>2, <2>3, <2>4, <2>5, <2>6, Zenon DEF RemoteInv
<1>6. CASE r # 0
  <2> DEFINE b == overtaken.settings \/ ticker \notin {0, r}
             armed(t) == [timer[t] EXCEPT !.st = "armed", !.due = timer[r].interval]
             stopped(t) == [timer[t] EXCEPT !.st = "stopped"]
  <2>1. /\ crashed' = (ticker = 0) /\ overtaken' = [overtaken EXCEPT !.settings = b]
        /\ timer' = [t \in Remote!Tickers |->
                       IF t = ticker THEN armed(t) ELSE IF t = r THEN stopped(t) ELSE timer[t]]
    BY <1>6, Zenon DEF Remote!Rearm
  <2>2. r \in Remote!Tickers /\ b \in BOOLEAN
    BY <1>6, Zenon DEF Remote!Refreshers
  <2>3. /\ overtaken' \in OvertakenType /\ overtaken'.settings = b
        /\ overtaken'.list = overtaken.list /\ overtaken'.geo = overtaken.geo
    BY <1>1, <2>1, <2>2, Overtakes, Zenon
  <2>4. \A t \in Remote!Tickers :
          /\ armed(t) \in TimerType /\ armed(t).st = "armed"
          /\ armed(t).due = timer[r].interval /\ armed(t).interval = timer[t].interval
          /\ stopped(t) \in TimerType /\ stopped(t).st = "stopped"
    <3> SUFFICES ASSUME NEW t \in Remote!Tickers
                 PROVE /\ armed(t) \in TimerType /\ armed(t).st = "armed"
                       /\ armed(t).due = timer[r].interval /\ armed(t).interval = timer[t].interval
                       /\ stopped(t) \in TimerType /\ stopped(t).st = "stopped"
      BY Zenon
    <3>1. timer[t] \in TimerType /\ timer[r].interval \in Nat
      BY <1>1, <2>2, Zenon DEF RemoteTypes, TimerType
    <3> QED
      BY <3>1, Zenon DEF TimerType
  <2> HIDE DEF armed, stopped
  <2>5. /\ timer' \in [Remote!Tickers -> TimerType]
        /\ \A t \in Remote!Tickers : timer'[t] =
              IF t = ticker THEN armed(t) ELSE IF t = r THEN stopped(t) ELSE timer[t]
    BY <1>1, <2>1, <2>4, Zenon DEF RemoteTypes
  <2>6. RemoteTypes'
    BY <1>1, <1>2, <2>1, <2>3, <2>5, Zenon DEF RemoteTypes, Moves
  <2>7. Remote!TickerAlive'
    <3>1. ticker' = ticker /\ ticker \in Remote!Tickers \cup {0}
      BY <1>1, Zenon DEF RemoteTypes, Remote!Refreshers
    <3>2. ticker # 0 => timer'[ticker].st = "armed"
      BY <2>4, <2>5, <3>1, Zenon
    <3>3. \A t \in Remote!Tickers : timer'[t].st = "armed" => t = ticker
      <4>1. \A t \in Remote!Tickers : timer[t].st = "armed" => t = ticker
        BY Zenon DEF RemoteInv, Remote!TickerAlive
      <4>2. "stopped" # "armed"
        OBVIOUS
      <4> QED
        BY <2>4, <2>5, <4>1, <4>2, Zenon
    <3> QED
      BY <2>1, <3>1, <3>2, <3>3, Zenon DEF Remote!TickerAlive
  <2>8. ListKept'
    <3>1. list' = edited' \/ overtaken'.list
      BY <1>1, <2>3, Zenon DEF RemoteInv, ListKept
    <3> QED
      BY <1>1, <1>2, <1>3, <2>3, <3>1, MoveList, Zenon DEF RemoteInv
  <2>9. GeoKept'
    BY <1>1, <1>2, <1>3, <2>3, MoveGeo, Zenon DEF RemoteInv
  <2>10. SettingsKept'
    <3>1. CASE b
      BY <2>3, <3>1, Zenon DEF SettingsKept
    <3>2. CASE ~b
      <4>1. overtaken'.settings = overtaken.settings /\ ticker \in {0, r}
        BY <1>1, <2>2, <2>3, <3>2, Zenon DEF RemoteTypes, OvertakenType
      <4>2. \A i : Ticks(ticker, timer, i) => Ticks(ticker', timer', i)
        BY <1>1, <2>2, <2>4, <2>5, <4>1, Zenon DEF Ticks
      <4> QED
        BY <1>1, <4>1, <4>2, SettingsStayIf, Zenon DEF RemoteInv
    <3> QED
      BY <3>1, <3>2, Zenon
  <2> QED
    BY <1>4, <2>6, <2>7, <2>8, <2>9, <2>10, Zenon DEF RemoteInv
<1> QED
  BY <1>5, <1>6, Zenon

-----------------------------------------------------------------------------
(* The calls that save the settings. *)

SaverMoves(s) == /\ saver' \in [Savers -> SaverType]
                 /\ \A o \in Savers \ {s} : saver'[o] = saver[o]

LEMMA SaverPut ==
    ASSUME RemoteTypes, NEW s \in Savers, NEW x \in SaverType, saver' = [saver EXCEPT ![s] = x]
    PROVE SaverMoves(s) /\ saver'[s] = x
<1>1. saver \in [Savers -> SaverType]
  BY Zenon DEF RemoteTypes
<1> QED
  BY <1>1, Zenon DEF SaverMoves

LEMMA SaverGoes ==
    ASSUME RemoteTypes, NEW s \in Savers, NEW p \in {"save", "disk"},
           saver' = [saver EXCEPT ![s].pc = p]
    PROVE /\ SaverMoves(s) /\ saver'[s].pc = p
          /\ saver'[s].new = saver[s].new /\ saver'[s].old = saver[s].old
<1> DEFINE x == [saver[s] EXCEPT !.pc = p]
<1>1. saver[s] \in SaverType
  BY Zenon DEF RemoteTypes
<1>2. x \in SaverType /\ x.pc = p /\ x.new = saver[s].new /\ x.old = saver[s].old
  BY <1>1, Zenon DEF SaverType
<1>3. saver' = [saver EXCEPT ![s] = x]
  BY Zenon
<1> HIDE DEF x
<1> QED
  BY <1>2, <1>3, SaverPut, Zenon

LEMMA SaverEnds ==
    ASSUME RemoteTypes, NEW s \in Savers,
           saver' = [saver EXCEPT ![s] = [Remote!NoSaver EXCEPT !.pc = "done"]]
    PROVE SaverMoves(s) /\ saver'[s].pc = "done"
<1> DEFINE x == [Remote!NoSaver EXCEPT !.pc = "done"]
<1>1. x \in SaverType /\ x.pc = "done"
  BY Zenon DEF SaverType, SettingsType, Remote!NoSaver, Remote!NoSettings
<1>2. saver' = [saver EXCEPT ![s] = x]
  BY Zenon
<1> HIDE DEF x
<1> QED
  BY <1>1, <1>2, SaverPut, Zenon

\* What the settings do not touch.
LEMMA RefreshStays ==
    ASSUME RemoteInv, UNCHANGED <<list, edited, refreshing, run, geoip, file>>,
           overtaken'.list = overtaken.list, overtaken'.geo = overtaken.geo
    PROVE OneRefresh' /\ ListKept' /\ GeoKept'
<1>1. OneRefresh'
  BY Zenon DEF RemoteInv, OneRefresh
<1>2. ListKept'
  BY Zenon DEF RemoteInv, ListKept
<1>3. GeoKept'
  BY Zenon DEF RemoteInv, GeoKept
<1> QED
  BY <1>1, <1>2, <1>3, Zenon

LEMMA TickerStays ==
    ASSUME RemoteInv, UNCHANGED <<ticker, timer, crashed>>
    PROVE Remote!TickerAlive' /\ (\A i : Ticks(ticker, timer, i) = Ticks(ticker', timer', i))
<1>1. Remote!TickerAlive'
  BY Zenon DEF RemoteInv, Remote!TickerAlive
<1>2. \A i : Ticks(ticker, timer, i) = Ticks(ticker', timer', i)
  BY DEF Ticks
<1> QED
  BY <1>1, <1>2, Zenon

\* A reset leaves one armed timer or none, with the interval that was asked for.
LEMMA ResetDoes ==
    ASSUME RemoteInv, NEW i \in Nat, Remote!ResetTicker(i)
    PROVE /\ ticker' \in Remote!Refreshers /\ timer' \in [Remote!Tickers -> TimerType]
          /\ Ticks(ticker', timer', i) /\ (crashed' = FALSE => Remote!TickerAlive')
<1> DEFINE now == [timer[ticker] EXCEPT !.st =
                       IF timer[ticker].st = "armed" THEN "stopped" ELSE timer[ticker].st]
           kept == IF ticker = 0 THEN timer ELSE [timer EXCEPT ![ticker] = now]
           new == Remote!Armed(i)
<1>1. /\ timer \in [Remote!Tickers -> TimerType] /\ ticker \in Remote!Tickers \cup {0}
      /\ \A t \in Remote!Tickers : timer[t].st = "armed" => t = ticker
  BY Zenon DEF RemoteInv, RemoteTypes, Remote!Refreshers, Remote!TickerAlive
<1>2. 0 \notin Remote!Tickers
  BY DEF Remote!Tickers
<1>3. new \in TimerType /\ new.st = "armed" /\ new.interval = i /\ new.due = i
  BY DEF Remote!Armed, TimerType
<1>4. ticker # 0 => now \in TimerType /\ now.st # "armed"
  <2> HAVE ticker # 0
  <2>1. timer[ticker] \in TimerType
    BY <1>1, Zenon
  <2>2. timer[ticker].st \in {"none", "armed", "fired", "stopped"}
    BY <2>1, Zenon DEF TimerType
  <2> DEFINE st == IF timer[ticker].st = "armed" THEN "stopped" ELSE timer[ticker].st
  <2>3. st \in {"none", "armed", "fired", "stopped"} /\ st # "armed"
    BY <2>2
  <2> HIDE DEF st
  <2>4. [timer[ticker] EXCEPT !.st = st] \in TimerType /\ [timer[ticker] EXCEPT !.st = st].st = st
    BY <2>1, <2>3, Zenon DEF TimerType
  <2> QED
    BY <2>3, <2>4, Zenon DEF st
<1>5. \/ ticker' = 0 /\ timer' = kept /\ i \notin 1..MaxInterval
      \/ \E t \in Remote!Tickers : ticker' = t /\ timer' = [kept EXCEPT ![t] = new]
  BY Zenon DEF Remote!ResetTicker, Remote!Reset
<1> HIDE DEF now, new
<1>6. kept \in [Remote!Tickers -> TimerType] /\ (\A t \in Remote!Tickers : kept[t].st # "armed")
  BY <1>1, <1>2, <1>4, Zenon
<1> HIDE DEF kept
<1>7. CASE ticker' = 0 /\ timer' = kept /\ i \notin 1..MaxInterval
  <2>1. Ticks(ticker', timer', i)
    BY <1>7, Zenon DEF Ticks
  <2>2. crashed' = FALSE => Remote!TickerAlive'
    BY <1>6, <1>7, Zenon DEF Remote!TickerAlive
  <2> QED
    BY <1>6, <1>7, <2>1, <2>2, Zenon DEF Remote!Refreshers
<1>8. CASE \E t \in Remote!Tickers : ticker' = t /\ timer' = [kept EXCEPT ![t] = new]
  <2>1. PICK t \in Remote!Tickers : ticker' = t /\ timer' = [kept EXCEPT ![t] = new]
    BY <1>8, Zenon
  <2>2. /\ timer' \in [Remote!Tickers -> TimerType] /\ timer'[t] = new
        /\ \A u \in Remote!Tickers \ {t} : timer'[u] = kept[u]
    BY <1>3, <1>6, <2>1, Zenon
  <2>3. Ticks(ticker', timer', i)
    BY <1>2, <1>3, <2>1, <2>2, Zenon DEF Ticks
  <2>4. crashed' = FALSE => Remote!TickerAlive'
    BY <1>3, <1>6, <2>1, <2>2, Zenon DEF Remote!TickerAlive
  <2> QED
    BY <2>1, <2>2, <2>3, <2>4, Zenon DEF Remote!Refreshers
<1> QED
  BY <1>5, <1>7, <1>8, Zenon

LEMMA SaverBegins ==
    ASSUME RemoteInv, NEW s \in Savers, NEW new \in Settings, Remote!SaveConfig(s, new)
    PROVE RemoteInv'
<1> DEFINE x == [pc |-> "reset", new |-> new, old |-> settings]
<1>1. /\ RemoteTypes /\ saver[s].pc = "idle" /\ saver' = [saver EXCEPT ![s] = x]
      /\ UNCHANGED <<list, edited, settings, hostTrieDisk, ticker, timer, crashed, refreshing,
                     run, geoip, file, closed, overtaken>>
  BY Zenon DEF RemoteInv, Remote!SaveConfig, Remote!listVars, Remote!tickVars, Remote!geoVars
<1>2. x \in SaverType /\ x.pc = "reset" /\ x.old = settings
  BY <1>1, RoutingConstants, Zenon DEF SaverType, SettingsType, RemoteTypes
<1> HIDE DEF x
<1>3. SaverMoves(s) /\ saver'[s].pc = "reset" /\ saver'[s].old = settings
  BY <1>1, <1>2, SaverPut, Zenon
<1>4. RemoteTypes'
  BY <1>1, <1>3, Zenon DEF RemoteTypes, SaverMoves
<1>5. OneRefresh' /\ ListKept' /\ GeoKept'
  BY <1>1, RefreshStays, Zenon
<1>6. Remote!TickerAlive' /\ (\A i : Ticks(ticker, timer, i) = Ticks(ticker', timer', i))
  BY <1>1, TickerStays, Zenon
<1>7. SettingsKept'
  <2> SUFFICES ASSUME ~overtaken.settings, ~closed PROVE (CallsKeep /\ AtRest)'
    BY <1>1, Zenon DEF SettingsKept
  <2>1. CallsKeep /\ AtRest
    BY Zenon DEF RemoteInv, SettingsKept
  <2>2. CallsKeep'
    <3>1. \A q \in Savers : saver'[q].pc \in {"disk", "save"} => q # s /\ saver'[q] = saver[q]
      <4>1. saver'[s].pc \notin {"disk", "save"}
        BY <1>3
      <4> QED
        BY <1>3, <4>1, Zenon DEF SaverMoves
    <3>2. \A q \in Savers : saver'[q].pc \in {"reset", "save"} => saver'[q].old = settings'
      BY <1>1, <1>3, <2>1, Zenon DEF CallsKeep, SaverMoves
    <3>3. ASSUME NEW q \in Savers, saver'[q].pc = "disk"
          PROVE /\ saver'[q].new = settings' /\ hostTrieDisk' = saver'[q].old.disk
                /\ \A o \in Savers : saver'[o].pc = "disk" => o = q
      <4>1. saver'[q] = saver[q] /\ saver[q].pc = "disk"
        BY <3>1, <3>3, Zenon
      <4>2. /\ saver[q].new = settings /\ hostTrieDisk = saver[q].old.disk
            /\ \A o \in Savers : saver[o].pc = "disk" => o = q
        BY <2>1, <4>1, Zenon DEF CallsKeep
      <4>3. \A o \in Savers : saver'[o].pc = "disk" => o = q
        BY <3>1, <4>2, Zenon
      <4> QED
        BY <1>1, <4>1, <4>2, <4>3, Zenon
    <3>4. ASSUME NEW q \in Savers, saver'[q].pc = "save"
          PROVE \/ Ticks(ticker', timer', saver'[q].new.interval)
                \/ \E o \in Savers \ {q} : saver'[o].pc \in {"reset", "save"}
      <4>1. saver'[q] = saver[q] /\ q # s /\ saver'[s].pc \in {"reset", "save"}
        BY <1>3, <3>1, <3>4, Zenon
      <4> QED
        BY <4>1, Zenon
    <3> QED
      BY <3>2, <3>3, <3>4, Zenon DEF CallsKeep
  <2>3. AtRest'
    <3>1. \A q \in Savers : saver[q].pc \in {"disk", "save"} => q # s /\ saver'[q] = saver[q]
      BY <1>1, <1>3, Zenon DEF SaverMoves
    <3> QED
      BY <1>1, <1>6, <2>1, <3>1, Zenon DEF AtRest
  <2> QED
    BY <2>2, <2>3, Zenon
<1> QED
  BY <1>4, <1>5, <1>6, <1>7, Zenon DEF RemoteInv

LEMMA SaverResets ==
    ASSUME RemoteInv, NEW s \in Savers, Remote!ResetInterval(s), ~crashed
    PROVE RemoteInv'
<1>1. /\ RemoteTypes /\ saver[s].pc = "reset" /\ saver' = [saver EXCEPT ![s].pc = "save"]
      /\ saver[s] \in SaverType /\ crashed' = FALSE
      /\ UNCHANGED <<list, edited, settings, hostTrieDisk, crashed, refreshing, run, geoip, file,
                     closed, overtaken>>
  BY Zenon DEF RemoteInv, RemoteTypes, Remote!ResetInterval, Remote!listVars, Remote!geoVars
<1>2. /\ SaverMoves(s) /\ saver'[s].pc = "save"
      /\ saver'[s].new = saver[s].new /\ saver'[s].old = saver[s].old
  BY <1>1, SaverGoes, Zenon
<1>3. /\ ticker' \in Remote!Refreshers /\ timer' \in [Remote!Tickers -> TimerType]
      /\ Remote!TickerAlive'
      /\ \/ Ticks(ticker', timer', saver[s].new.interval)
         \/ saver[s].new.interval = saver[s].old.interval /\ UNCHANGED <<ticker, timer>>
  <2>1. CASE saver[s].new.interval = saver[s].old.interval
    <3>1. UNCHANGED <<ticker, timer>>
      BY <2>1, Zenon DEF Remote!ResetInterval
    <3> QED
      BY <1>1, <2>1, <3>1, TickerStays, Zenon DEF RemoteTypes
  <2>2. CASE saver[s].new.interval # saver[s].old.interval
    <3>1. saver[s].new.interval \in Nat
      BY <1>1, Zenon DEF SaverType, SettingsType
    <3>2. Remote!ResetTicker(saver[s].new.interval)
      BY <2>2, Zenon DEF Remote!ResetInterval
    <3> QED
      BY <1>1, <3>1, <3>2, ResetDoes, Zenon
  <2> QED
    BY <2>1, <2>2, Zenon
<1>4. RemoteTypes'
  BY <1>1, <1>2, <1>3, Zenon DEF RemoteTypes, SaverMoves
<1>5. OneRefresh' /\ ListKept' /\ GeoKept'
  BY <1>1, RefreshStays, Zenon
<1>6. SettingsKept'
  <2> SUFFICES ASSUME ~overtaken.settings, ~closed PROVE (CallsKeep /\ AtRest)'
    BY <1>1, Zenon DEF SettingsKept
  <2>1. CallsKeep /\ AtRest
    BY Zenon DEF RemoteInv, SettingsKept
  <2>2. \/ Ticks(ticker', timer', saver'[s].new.interval)
        \/ \E o \in Savers \ {s} : saver'[o].pc \in {"reset", "save"}
    <3> SUFFICES ASSUME ~ \E o \in Savers \ {s} : saver'[o].pc \in {"reset", "save"}
                 PROVE Ticks(ticker', timer', saver[s].new.interval)
      BY <1>2, Zenon
    <3>1. \A o \in Savers : saver[o].pc # "save"
      BY <1>1, <1>2, Zenon DEF SaverMoves
    <3>2. Ticks(ticker, timer, saver[s].old.interval)
      BY <1>1, <2>1, <3>1, Zenon DEF CallsKeep, AtRest
    <3> QED
      BY <1>3, <3>2, Zenon DEF Ticks
  <2>3. CallsKeep'
    <3>1. \A q \in Savers : saver'[q].pc \in {"reset", "save"} => saver'[q].old = settings'
      BY <1>1, <1>2, <2>1, Zenon DEF CallsKeep, SaverMoves
    <3>2. \A q \in Savers : saver'[q].pc = "disk" => saver[q].pc = "disk" /\ saver'[q] = saver[q]
      <4>1. saver'[s].pc # "disk"
        BY <1>2
      <4> QED
        BY <1>2, <4>1, Zenon DEF SaverMoves
    <3>3. \A q \in Savers : saver'[q].pc = "disk" =>
             /\ saver'[q].new = settings' /\ hostTrieDisk' = saver'[q].old.disk
             /\ \A o \in Savers : saver'[o].pc = "disk" => o = q
      <4> SUFFICES ASSUME NEW q \in Savers, saver'[q].pc = "disk"
                   PROVE /\ saver'[q].new = settings' /\ hostTrieDisk' = saver'[q].old.disk
                         /\ \A o \in Savers : saver'[o].pc = "disk" => o = q
        BY Zenon
      <4>1. saver[q].pc = "disk" /\ saver'[q] = saver[q]
        BY <3>2, Zenon
      <4>2. /\ saver[q].new = settings /\ hostTrieDisk = saver[q].old.disk
            /\ \A o \in Savers : saver[o].pc = "disk" => o = q
        BY <2>1, <4>1, Zenon DEF CallsKeep
      <4>3. \A o \in Savers : saver'[o].pc = "disk" => o = q
        BY <3>2, <4>2, Zenon
      <4> QED
        BY <1>1, <4>1, <4>2, <4>3, Zenon
    <3>4. \A q \in Savers : saver'[q].pc = "save" =>
             \/ Ticks(ticker', timer', saver'[q].new.interval)
             \/ \E o \in Savers \ {q} : saver'[o].pc \in {"reset", "save"}
      BY <1>2, <2>2, Zenon
    <3> QED
      BY <3>1, <3>3, <3>4, Zenon DEF CallsKeep
  <2>4. AtRest'
    <3>1. \A q \in Savers : saver[q].pc = "disk" => saver'[q].pc = "disk"
      BY <1>1, <1>2, Zenon DEF SaverMoves
    <3> QED
      BY <1>1, <1>2, <2>1, <3>1, Zenon DEF AtRest
  <2> QED
    BY <2>3, <2>4, Zenon
<1> QED
  BY <1>3, <1>4, <1>5, <1>6, Zenon DEF RemoteInv

LEMMA SaverStores ==
    ASSUME RemoteInv, NEW s \in Savers, Remote!StoreConfig(s)
    PROVE RemoteInv'
<1> DEFINE b == \/ overtaken.settings \/ settings # saver[s].old
                \/ Remote!Saving({"reset", "save", "disk"}) # {s}
<1>1. /\ RemoteTypes /\ saver[s].pc = "save" /\ saver' = [saver EXCEPT ![s].pc = "disk"]
      /\ saver[s] \in SaverType /\ settings' = saver[s].new
      /\ overtaken' = [overtaken EXCEPT !.settings = b]
      /\ UNCHANGED <<list, edited, hostTrieDisk, ticker, timer, crashed, refreshing, run, geoip,
                     file, closed>>
  BY Zenon DEF RemoteInv, RemoteTypes, Remote!StoreConfig, Remote!listVars, Remote!tickVars,
               Remote!geoVars
<1>2. b \in BOOLEAN
  BY Zenon
<1>3. /\ overtaken' \in OvertakenType /\ overtaken'.settings = b
      /\ overtaken'.list = overtaken.list /\ overtaken'.geo = overtaken.geo
  BY <1>1, <1>2, Overtakes, Zenon
<1>4. /\ SaverMoves(s) /\ saver'[s].pc = "disk"
      /\ saver'[s].new = saver[s].new /\ saver'[s].old = saver[s].old
  BY <1>1, SaverGoes, Zenon
<1>5. RemoteTypes'
  <2>1. settings' \in SettingsType
    BY <1>1, Zenon DEF SaverType
  <2> QED
    BY <1>1, <1>3, <1>4, <2>1, Zenon DEF RemoteTypes, SaverMoves
<1>6. OneRefresh' /\ ListKept' /\ GeoKept'
  BY <1>1, <1>3, RefreshStays, Zenon
<1>7. Remote!TickerAlive'
  BY <1>1, TickerStays, Zenon
<1>8. SettingsKept'
  <2> SUFFICES ASSUME ~overtaken'.settings, ~closed' PROVE (CallsKeep /\ AtRest)'
    BY Zenon DEF SettingsKept
  <2>1. /\ ~overtaken.settings /\ settings = saver[s].old
        /\ Remote!Saving({"reset", "save", "disk"}) = {s}
    BY <1>3, Zenon
  <2>2. CallsKeep /\ AtRest
    BY <1>1, <2>1, Zenon DEF RemoteInv, SettingsKept
  <2>3. \A o \in Savers : saver[o].pc \in {"reset", "save", "disk"} => o = s
    BY <2>1, Zenon DEF Remote!Saving
  <2>4. \A o \in Savers : saver'[o].pc \in {"reset", "save", "disk"} => o = s
    BY <1>4, <2>3, Zenon DEF SaverMoves
  <2>5. \A o \in Savers : saver'[o].pc \notin {"reset", "save"}
    <3>1. saver'[s].pc \notin {"reset", "save"}
      BY <1>4
    <3> QED
      BY <2>4, <3>1, Zenon
  <2>6. hostTrieDisk = saver[s].old.disk
    <3>1. saver[s].pc # "disk"
      BY <1>1
    <3>2. \A o \in Savers : saver[o].pc # "disk"
      BY <2>3, <3>1, Zenon
    <3> QED
      BY <2>1, <2>2, <3>2, Zenon DEF AtRest
  <2>7. Ticks(ticker, timer, saver[s].new.interval)
    BY <1>1, <2>2, <2>3, Zenon DEF CallsKeep
  <2>8. CallsKeep'
    BY <1>1, <1>4, <2>4, <2>5, <2>6, Zenon DEF CallsKeep
  <2>9. AtRest'
    BY <1>1, <1>4, <2>7, Zenon DEF AtRest
  <2> QED
    BY <2>8, <2>9, Zenon
<1> QED
  BY <1>5, <1>6, <1>7, <1>8, Zenon DEF RemoteInv

LEMMA SaverFails ==
    ASSUME RemoteInv, NEW s \in Savers, Remote!StoreConfigFails(s)
    PROVE RemoteInv'
<1>1. /\ RemoteTypes /\ overtaken' = [overtaken EXCEPT !.settings = TRUE]
      /\ saver' = [saver EXCEPT ![s] = [Remote!NoSaver EXCEPT !.pc = "done"]]
      /\ UNCHANGED <<list, edited, settings, hostTrieDisk, ticker, timer, crashed, refreshing,
                     run, geoip, file, closed>>
  BY Zenon DEF RemoteInv, Remote!StoreConfigFails, Remote!listVars, Remote!tickVars,
               Remote!geoVars
<1>2. TRUE \in BOOLEAN
  BY Zenon
<1>3. /\ overtaken' \in OvertakenType /\ overtaken'.settings = TRUE
      /\ overtaken'.list = overtaken.list /\ overtaken'.geo = overtaken.geo
  BY <1>1, <1>2, Overtakes, Zenon
<1>4. SaverMoves(s)
  BY <1>1, SaverEnds, Zenon
<1>5. RemoteTypes'
  BY <1>1, <1>3, <1>4, Zenon DEF RemoteTypes, SaverMoves
<1>6. OneRefresh' /\ ListKept' /\ GeoKept' /\ Remote!TickerAlive'
  BY <1>1, <1>3, RefreshStays, TickerStays, Zenon
<1> QED
  BY <1>3, <1>5, <1>6, Zenon DEF RemoteInv, SettingsKept

LEMMA SaverSwitches ==
    ASSUME RemoteInv, NEW s \in Savers, Remote!SwitchDisk(s)
    PROVE RemoteInv'
<1> DEFINE b == overtaken.settings \/ settings # saver[s].new
<1>1. /\ RemoteTypes /\ saver[s].pc = "disk" /\ saver[s] \in SaverType
      /\ saver' = [saver EXCEPT ![s] = [Remote!NoSaver EXCEPT !.pc = "done"]]
      /\ overtaken' = [overtaken EXCEPT !.settings = b]
      /\ hostTrieDisk' = IF saver[s].new.disk = saver[s].old.disk THEN hostTrieDisk
                         ELSE saver[s].new.disk
      /\ UNCHANGED <<list, edited, settings, ticker, timer, crashed, refreshing, run, geoip,
                     file, closed>>
  BY Zenon DEF RemoteInv, RemoteTypes, Remote!SwitchDisk, Remote!listVars, Remote!tickVars,
               Remote!geoVars
<1>2. b \in BOOLEAN
  BY Zenon
<1>3. /\ overtaken' \in OvertakenType /\ overtaken'.settings = b
      /\ overtaken'.list = overtaken.list /\ overtaken'.geo = overtaken.geo
  BY <1>1, <1>2, Overtakes, Zenon
<1>4. SaverMoves(s) /\ saver'[s].pc = "done"
  BY <1>1, SaverEnds, Zenon
<1>5. RemoteTypes'
  <2>1. hostTrieDisk' \in BOOLEAN
    BY <1>1, Zenon DEF RemoteTypes, SaverType, SettingsType
  <2> QED
    BY <1>1, <1>3, <1>4, <2>1, Zenon DEF RemoteTypes, SaverMoves
<1>6. OneRefresh' /\ ListKept' /\ GeoKept' /\ Remote!TickerAlive'
  BY <1>1, <1>3, RefreshStays, TickerStays, Zenon
<1>7. SettingsKept'
  <2> SUFFICES ASSUME ~overtaken'.settings, ~closed' PROVE (CallsKeep /\ AtRest)'
    BY Zenon DEF SettingsKept
  <2>1. ~overtaken.settings /\ settings = saver[s].new
    BY <1>3, Zenon
  <2>2. CallsKeep /\ AtRest
    BY <1>1, <2>1, Zenon DEF RemoteInv, SettingsKept
  <2>3. hostTrieDisk' = settings'.disk /\ (\A o \in Savers : saver[o].pc = "disk" => o = s)
    BY <1>1, <2>1, <2>2, Zenon DEF CallsKeep
  <2>4. \A o \in Savers : /\ saver'[o].pc \in {"reset", "save"} => saver'[o] = saver[o] /\ o # s
                          /\ saver[o].pc \in {"reset", "save"} => saver'[o] = saver[o] /\ o # s
    <3>1. saver'[s].pc \notin {"reset", "save"} /\ saver[s].pc \notin {"reset", "save"}
      BY <1>1, <1>4
    <3> QED
      BY <1>4, <3>1, Zenon DEF SaverMoves
  <2>5. \A o \in Savers : saver'[o].pc # "disk"
    <3>1. saver'[s].pc # "disk"
      BY <1>4
    <3> QED
      BY <1>4, <2>3, <3>1, Zenon DEF SaverMoves
  <2>6. ASSUME NEW q \in Savers, saver'[q].pc \in {"reset", "save"}
        PROVE saver'[q].old = settings'
    <3>1. saver'[q] = saver[q] /\ settings' = settings
      BY <1>1, <2>4, <2>6, Zenon
    <3> QED
      BY <2>2, <2>6, <3>1, Zenon DEF CallsKeep
  <2>7. ASSUME NEW q \in Savers, saver'[q].pc = "save"
        PROVE \/ Ticks(ticker', timer', saver'[q].new.interval)
              \/ \E o \in Savers \ {q} : saver'[o].pc \in {"reset", "save"}
    <3>1. saver'[q] = saver[q]
      BY <2>4, <2>7, Zenon
    <3>2. \/ Ticks(ticker, timer, saver[q].new.interval)
          \/ \E o \in Savers \ {q} : saver[o].pc \in {"reset", "save"}
      BY <2>2, <2>7, <3>1, Zenon DEF CallsKeep
    <3> QED
      BY <1>1, <2>4, <3>1, <3>2, Zenon
  <2>8. CallsKeep'
    BY <2>5, <2>6, <2>7, Zenon DEF CallsKeep
  <2>9. AtRest'
    BY <1>1, <2>2, <2>3, <2>4, Zenon DEF AtRest
  <2> QED
    BY <2>8, <2>9, Zenon
<1> QED
  BY <1>5, <1>6, <1>7, Zenon DEF RemoteInv

-----------------------------------------------------------------------------
(* The other calls. *)

LEMMA ListIsEdited ==
    ASSUME RemoteInv, Remote!EditList
    PROVE RemoteInv'
<1> DEFINE b == overtaken.list \/ Remote!Running({"settings", "download"})
<1>1. /\ RemoteTypes /\ edited' = edited + 1 /\ list' = edited'
      /\ overtaken' = [overtaken EXCEPT !.list = b]
      /\ UNCHANGED <<settings, hostTrieDisk, ticker, timer, crashed, refreshing, run, saver,
                     geoip, file, closed>>
  BY Zenon DEF RemoteInv, Remote!EditList, Remote!tickVars, Remote!geoVars
<1>2. edited \in Nat /\ overtaken \in OvertakenType
  BY <1>1, Zenon DEF RemoteTypes
<1>3. /\ overtaken' \in OvertakenType /\ overtaken'.list = b
      /\ overtaken'.settings = overtaken.settings /\ overtaken'.geo = overtaken.geo
  BY <1>1, <1>2, Zenon DEF OvertakenType
<1>4. list' \in Nat /\ edited' \in Nat
  BY <1>1, <1>2
<1>5. RemoteTypes'
  BY <1>1, <1>3, <1>4, Zenon DEF RemoteTypes
<1>6. OneRefresh'
  BY <1>1, Zenon DEF RemoteInv, OneRefresh
<1>7. ListKept'
  BY <1>1, <1>3, Zenon DEF ListKept, Remote!Running
<1>8. GeoKept'
  BY <1>1, <1>3, Zenon DEF RemoteInv, GeoKept
<1>9. SettingsKept' /\ Remote!TickerAlive'
  BY <1>1, <1>3, SettingsStay, TickerStays, Zenon DEF RemoteInv
<1> QED
  BY <1>5, <1>6, <1>7, <1>8, <1>9, Zenon DEF RemoteInv

LEMMA GeoipIsLoaded ==
    ASSUME RemoteInv, Remote!LoadGeoip
    PROVE RemoteInv'
<1> DEFINE b == Remote!Running({"rename"})
<1>1. /\ RemoteTypes /\ overtaken' = [overtaken EXCEPT !.geo = b]
      /\ geoip' \in {[loaded |-> TRUE, m |-> file], [loaded |-> TRUE, m |-> 0]}
      /\ UNCHANGED <<list, edited, settings, hostTrieDisk, ticker, timer, crashed, refreshing,
                     run, saver, file, closed>>
  BY Zenon DEF RemoteInv, Remote!LoadGeoip, Remote!listVars, Remote!tickVars
<1>2. file \in Nat /\ overtaken \in OvertakenType /\ b \in BOOLEAN
  BY <1>1, Zenon DEF RemoteTypes, Remote!Running
<1>3. /\ overtaken' \in OvertakenType /\ overtaken'.geo = b
      /\ overtaken'.settings = overtaken.settings /\ overtaken'.list = overtaken.list
  BY <1>1, <1>2, Zenon DEF OvertakenType
<1>4. geoip' \in [loaded : BOOLEAN, m : Nat] /\ geoip'.m \in {0, file}
  <2> DEFINE loaded(x) == [loaded |-> TRUE, m |-> x]
  <2>1. \A x \in Nat : loaded(x) \in [loaded : BOOLEAN, m : Nat] /\ loaded(x).m = x
    OBVIOUS
  <2>2. 0 \in Nat /\ (geoip' = loaded(file) \/ geoip' = loaded(0))
    BY <1>1, Zenon
  <2> HIDE DEF loaded
  <2> QED
    BY <1>2, <2>1, <2>2, Zenon
<1>5. RemoteTypes'
  BY <1>1, <1>3, <1>4, Zenon DEF RemoteTypes
<1>6. OneRefresh'
  BY <1>1, Zenon DEF RemoteInv, OneRefresh
<1>7. ListKept'
  BY <1>1, <1>3, Zenon DEF RemoteInv, ListKept
<1>8. GeoKept'
  BY <1>1, <1>3, <1>4, Zenon DEF GeoKept, Remote!Running
<1>9. SettingsKept' /\ Remote!TickerAlive'
  BY <1>1, <1>3, SettingsStay, TickerStays, Zenon DEF RemoteInv
<1> QED
  BY <1>5, <1>6, <1>7, <1>8, <1>9, Zenon DEF RemoteInv

LEMMA ListsAreClosed ==
    ASSUME RemoteInv, Remote!Close, ~crashed
    PROVE RemoteInv'
<1>1. /\ RemoteTypes /\ closed' = TRUE /\ Remote!ResetTicker(0) /\ crashed' = FALSE
      /\ geoip' = [geoip EXCEPT !.m = 0]
      /\ UNCHANGED <<list, edited, settings, hostTrieDisk, crashed, refreshing, run, saver,
                     file, overtaken>>
  BY Zenon DEF RemoteInv, RemoteTypes, Remote!Close, Remote!listVars
<1>2. 0 \in Nat
  OBVIOUS
<1>3. /\ ticker' \in Remote!Refreshers /\ timer' \in [Remote!Tickers -> TimerType]
      /\ Remote!TickerAlive'
  BY <1>1, <1>2, ResetDoes, Zenon
<1>4. geoip' \in [loaded : BOOLEAN, m : Nat] /\ geoip'.m = 0
  BY <1>1, <1>2, Zenon DEF RemoteTypes
<1>5. RemoteTypes'
  BY <1>1, <1>3, <1>4, Zenon DEF RemoteTypes
<1>6. OneRefresh'
  BY <1>1, Zenon DEF RemoteInv, OneRefresh
<1>7. ListKept'
  BY <1>1, Zenon DEF RemoteInv, ListKept
<1>8. GeoKept' /\ SettingsKept'
  BY <1>1, <1>4, Zenon DEF GeoKept, SettingsKept
<1> QED
  BY <1>3, <1>5, <1>6, <1>7, <1>8, Zenon DEF RemoteInv

LEMMA RemoteInit == Remote!Init => RemoteInv
<1> SUFFICES ASSUME Remote!Init PROVE RemoteInv
  OBVIOUS
<1>1. /\ list = 1 /\ edited = 1 /\ settings \in Settings /\ hostTrieDisk = settings.disk
      /\ refreshing = FALSE /\ run = [r \in Remote!Refreshers |-> Remote!NoRun]
      /\ saver = [s \in Savers |-> Remote!NoSaver] /\ geoip = Remote!NoGeo /\ file = 1
      /\ closed = FALSE /\ crashed = FALSE
      /\ overtaken = [list |-> FALSE, settings |-> FALSE, geo |-> FALSE]
  BY Zenon DEF Remote!Init
<1>2. /\ ticker = IF settings.interval \in 1..MaxInterval THEN 1 ELSE 0
      /\ timer = [t \in Remote!Tickers |->
                    IF t = ticker THEN Remote!Armed(settings.interval) ELSE Remote!NoTimer]
  BY Zenon DEF Remote!Init
<1>3. settings \in SettingsType /\ settings.interval \in Nat /\ settings.disk \in BOOLEAN
  BY <1>1, RoutingConstants, Zenon DEF SettingsType
<1>4. /\ Remote!Armed(settings.interval) \in TimerType /\ Remote!NoTimer \in TimerType
      /\ Remote!Armed(settings.interval).interval = settings.interval
      /\ Remote!Armed(settings.interval).due = settings.interval
      /\ Remote!Armed(settings.interval).st = "armed" /\ Remote!NoTimer.st = "none"
  BY <1>3 DEF Remote!Armed, Remote!NoTimer, TimerType
<1>5. 1 \in Remote!Tickers /\ 0 \notin Remote!Tickers
  BY RoutingConstants DEF Remote!Tickers
<1>6. /\ Remote!NoRun \in RunType /\ Remote!NoRun.pc = "idle"
      /\ Remote!NoSaver \in SaverType /\ Remote!NoSaver.pc = "idle"
      /\ Remote!NoGeo \in [loaded : BOOLEAN, m : Nat] /\ Remote!NoGeo.m = 0
      /\ overtaken \in OvertakenType
  BY <1>1 DEF Remote!NoRun, Remote!NoSaver, Remote!NoSettings, Remote!NoGeo, RunType,
              SaverType, SettingsType, OvertakenType
<1>7. /\ \A r \in Remote!Refreshers : run[r].pc = "idle"
      /\ \A s \in Savers : saver[s].pc = "idle"
  BY <1>1, <1>6, Zenon
<1>8. /\ ticker \in Remote!Refreshers /\ timer \in [Remote!Tickers -> TimerType]
      /\ Ticks(ticker, timer, settings.interval)
  BY <1>2, <1>4, <1>5, Zenon DEF Ticks, Remote!Refreshers
<1>9. RemoteTypes
  <2>1. 1 \in Nat
    OBVIOUS
  <2> QED
    BY <1>1, <1>3, <1>6, <1>8, <2>1, Zenon DEF RemoteTypes
<1>10. Remote!TickerAlive
  <2>1. "none" # "armed"
    OBVIOUS
  <2> QED
    BY <1>1, <1>2, <1>4, <1>5, <2>1, Zenon DEF Remote!TickerAlive
<1>11. OneRefresh /\ ListKept /\ GeoKept
  <2>1. "idle" \notin Busy /\ "idle" \notin {"settings", "download", "rename"}
    BY DEF Busy
  <2> QED
    BY <1>1, <1>6, <1>7, <2>1, Zenon DEF OneRefresh, ListKept, GeoKept
<1>12. SettingsKept
  <2>1. "idle" \notin {"reset", "save", "disk"}
    OBVIOUS
  <2> QED
    BY <1>1, <1>7, <1>8, <2>1, Zenon DEF SettingsKept, CallsKeep, AtRest
<1> QED
  BY <1>9, <1>10, <1>11, <1>12, Zenon DEF RemoteInv

LEMMA RemoteNext == RemoteInv /\ Remote!Next => RemoteInv'
<1> SUFFICES ASSUME RemoteInv, Remote!Next PROVE RemoteInv'
  OBVIOUS
<1>1. ~crashed
  BY Zenon DEF Remote!Next
<1>2. ASSUME NEW r \in Remote!Refreshers, Remote!RunStep(r) PROVE RemoteInv'
  BY <1>1, <1>2, RefreshReads, RefreshSavesLists, RefreshClosesGeoip, RefreshRenames,
     RefreshSavesSettings, RefreshRearms, Zenon DEF Remote!RunStep
<1>3. ASSUME NEW s \in Savers,
             \/ Remote!ResetInterval(s) \/ Remote!StoreConfig(s) \/ Remote!StoreConfigFails(s)
             \/ Remote!SwitchDisk(s) \/ \E new \in Settings : Remote!SaveConfig(s, new)
      PROVE RemoteInv'
  BY <1>1, <1>3, SaverBegins, SaverResets, SaverStores, SaverFails, SaverSwitches, Zenon
<1>4. ASSUME Remote!RefreshCall \/ Remote!EditList \/ Remote!LoadGeoip \/ Remote!Close
      PROVE RemoteInv'
  BY <1>1, <1>4, RefreshIsCalled, ListIsEdited, GeoipIsLoaded, ListsAreClosed, Zenon
<1> QED
  BY <1>2, <1>3, <1>4, TimerFires, Zenon DEF Remote!Next

\* The refresh timer stays alive, and at rest the lists, settings and database
\* in use are the stored ones, but for what the property names (list.go:345,
\* 434 and 491): any number of calls may save settings while timers and the API
\* refresh.
THEOREM RefreshAsStored == MCSpec => []RuntimeAsStored
<1>1. MCInit => RemoteInv
  BY RemoteInit, Zenon DEF MCInit
<1>2. RemoteInv /\ [MCNext]_<<part, vars, remote>> => RemoteInv'
  <2>1. RemoteInv /\ UNCHANGED remote => RemoteInv'
    <3> SUFFICES ASSUME RemoteInv, UNCHANGED remote PROVE RemoteInv'
      OBVIOUS
    <3>1. RemoteTypes'
      BY Zenon DEF RemoteInv, RemoteTypes, remote
    <3>2. OneRefresh' /\ ListKept' /\ GeoKept'
      BY RefreshStays, Zenon DEF remote
    <3>3. Remote!TickerAlive' /\ SettingsKept'
      BY TickerStays, SettingsStay, Zenon DEF RemoteInv, remote
    <3> QED
      BY <3>1, <3>2, <3>3, Zenon DEF RemoteInv
  <2> QED
    BY <2>1, RemoteNext, Zenon DEF MCNext
<1>3. RemoteInv => RuntimeAsStored
  <2> SUFFICES ASSUME RemoteInv PROVE Remote!RuntimeAsStored
    BY Zenon DEF RemoteInv, RuntimeAsStored
  <2> SUFFICES ASSUME Remote!Quiet
      PROVE /\ list = edited \/ overtaken.list
            /\ ~closed /\ ~overtaken.settings =>
                 /\ settings.disk = hostTrieDisk
                 /\ IF ticker = 0 THEN settings.interval \notin 1..MaxInterval
                    ELSE timer[ticker].due = settings.interval
            /\ geoip.m \in {0, file} \/ overtaken.geo
    BY Zenon DEF Remote!RuntimeAsStored
  <2>1. \A s \in Savers : saver[s].pc # "disk" /\ saver[s].pc # "save"
    BY DEF Remote!Quiet
  <2> QED
    BY <2>1, Zenon DEF RemoteInv, ListKept, GeoKept, SettingsKept, AtRest, Ticks
<1> QED
  BY <1>1, <1>2, <1>3, PTL DEF MCSpec
=============================================================================
