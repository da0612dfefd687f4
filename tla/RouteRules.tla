------------------------------ MODULE RouteRules ----------------------------
(* How changes of the routing rules and of the host lists reach the running  *)
(* router: Rules of route/rule.go, Matchers.Update of route/nested.go and    *)
(* the host index of route/list.go. A change is saved first and activated a  *)
(* minute later by a timer, or at once by the API call that applies all.     *)
(* The rules are abstracted to the set of host lists they name.              *)
EXTENDS Naturals

CONSTANTS
    Lists,
    RuleEditors,  \* API calls that save a rule
    ListEditors,  \* API calls that save or delete a list
    MaxVersion    \* bound: versions of a list

ASSUME RouteRulesConstants == RuleEditors \cap ListEditors = {} /\ MaxVersion \in Nat

VARIABLES
    rules,      \* stored: the lists the rules name
    contents,   \* stored: list -> version, 0 when there is none
    matchers,   \* Matchers.matchers: the rules in use
    trie,       \* hostTrie: list -> version, 0 when it is not in lists
    activation, \* [applyVersion, applyAt, refreshVersion, refreshAt]
    applyTimer, \* the version it carries, 0 when it does not run
    listTimer,  \* whether hostTrieRefreshTimer runs
    editor,     \* editor -> [pc, v]
    apply,      \* "api" or "timer" -> a run of applyStored: [pc, v, got, todo,
                \* val]: val, the list read and to be added, as <<list, version>>
    refresh,    \* "api" or "timer" -> a run of refreshHostTrieAndMarkApplied:
                \* [pc, v, todo, new]
    mu,         \* hostTrieRefreshMu: its holder or "free"
    mishap      \* history: [dropped, overlap, stale, failed], see the properties

stored == <<rules, contents>>
vars == <<stored, matchers, trie, activation, applyTimer, listTimer, editor, apply, refresh,
          mu, mishap>>

Runs == {"api", "timer"}
Empty == [l \in Lists |-> 0]
NoApply == [pc |-> "idle", v |-> 0, got |-> {}, todo |-> {}, val |-> <<>>]
Indexed(t) == {l \in Lists : t[l] # 0}

Init ==
    /\ rules = Lists /\ matchers = Lists /\ trie = [l \in Lists |-> 1]
    /\ contents = [l \in Lists |-> 1]
    /\ activation = [applyVersion |-> 0, applyAt |-> FALSE, refreshVersion |-> 0,
                     refreshAt |-> FALSE]
    /\ applyTimer = 0 /\ listTimer = FALSE
    /\ editor = [e \in RuleEditors \cup ListEditors |-> [pc |-> "idle", v |-> 0]]
    /\ apply = [r \in Runs |-> NoApply]
    /\ refresh = [r \in Runs |-> [pc |-> "idle", v |-> 0, todo |-> {}, new |-> Empty]]
    /\ mu = "free"
    /\ mishap = [dropped |-> {}, overlap |-> FALSE, stale |-> FALSE, failed |-> FALSE]

(* saveRouteRule and its like: the store, then ScheduleApply.                *)
SaveRule(e, L) ==
    /\ editor[e].pc = "idle" /\ L # rules
    /\ rules' = L
    /\ editor' = [editor EXCEPT ![e].pc = "saved"]
    /\ UNCHANGED <<contents, matchers, trie, activation, applyTimer, listTimer, apply, refresh,
                   mu, mishap>>

ScheduleVersion(e) ==
    /\ e \in RuleEditors /\ editor[e].pc = "saved"
    /\ activation' = [activation EXCEPT !.applyVersion = @ + 1]
    /\ editor' = [editor EXCEPT ![e] = [pc |-> "at", v |-> activation.applyVersion + 1]]
    /\ UNCHANGED <<stored, matchers, trie, applyTimer, listTimer, apply, refresh, mu, mishap>>

ScheduleAt(e) ==
    /\ e \in RuleEditors /\ editor[e].pc = "at"
    /\ activation' = [activation EXCEPT !.applyAt = TRUE]
    /\ editor' = [editor EXCEPT ![e].pc = "timer"]
    /\ UNCHANGED <<stored, matchers, trie, applyTimer, listTimer, apply, refresh, mu, mishap>>

ScheduleTimer(e) ==
    /\ e \in RuleEditors /\ editor[e].pc = "timer"
    /\ applyTimer' = editor[e].v
    /\ mishap' = [mishap EXCEPT !.stale = @ \/ editor[e].v # activation.applyVersion]
    /\ editor' = [editor EXCEPT ![e] = [pc |-> "done", v |-> 0]]
    /\ UNCHANGED <<stored, matchers, trie, activation, listTimer, apply, refresh, mu>>

(* applyScheduled, when the timer fires: only the last scheduling counts.    *)
ApplyFires ==
    /\ applyTimer # 0 /\ apply["timer"].pc = "idle"
    /\ apply' = [apply EXCEPT
            !["timer"] = IF activation.applyVersion = applyTimer
                         THEN [@ EXCEPT !.pc = "read", !.v = applyTimer] ELSE @]
    /\ applyTimer' = 0
    /\ UNCHANGED <<stored, matchers, trie, activation, listTimer, editor, refresh, mu, mishap>>

(* applyStored: the rules are read, the indexes emptied, the lists the rules *)
(* name added one after the other, and at last the matchers replaced.        *)
ApplyRead(r) ==
    /\ apply[r].pc = "read"
    /\ apply' = [apply EXCEPT ![r] = [@ EXCEPT !.pc = "reset", !.got = rules]]
    /\ UNCHANGED <<stored, matchers, trie, activation, applyTimer, listTimer, editor, refresh,
                   mu, mishap>>

(* The rules cannot be read or, at "mark", the settings after the matchers.  *)
ApplyFails(r) ==
    /\ apply[r].pc \in {"read", "mark"}
    /\ apply' = [apply EXCEPT ![r] = NoApply]
    /\ mishap' = [mishap EXCEPT !.failed = TRUE]
    /\ UNCHANGED <<stored, matchers, trie, activation, applyTimer, listTimer, editor, refresh, mu>>

(* The set of lists is locked while a refresh ranges over it.                *)
Ranging == \E r \in Runs : refresh[r].pc = "build"

ApplyResets(r, todo) ==
    /\ apply[r].pc = "reset" /\ ~Ranging
    /\ trie' = Empty
    /\ apply' = [apply EXCEPT ![r] = [@ EXCEPT !.pc = "add", !.todo = todo]]
    /\ UNCHANGED <<stored, matchers, activation, applyTimer, listTimer, editor, refresh, mu, mishap>>

ApplyResetNew(r) == ApplyResets(r, apply[r].got \ matchers)  \* mutant: lists in use are skipped
ApplyReset(r) == ApplyResets(r, apply[r].got)

(* getIter: the version read, 0 when the list is not stored or the store     *)
(* fails; a failure is only logged.                                          *)
Reads(l) == {0, contents[l]}

(* AddNewHostList: the list is read, and then added under the lock. One that *)
(* cannot be read is left out.                                               *)
ApplyGet(r, l, version) ==
    /\ apply[r].pc = "add" /\ apply[r].val = <<>> /\ l \in apply[r].todo
    /\ apply' = [apply EXCEPT
            ![r] = [@ EXCEPT !.todo = apply[r].todo \ {l},
                             !.val = IF version = 0 THEN <<>> ELSE <<l, version>>]]
    /\ mishap' = [mishap EXCEPT !.dropped = IF version = 0 THEN @ \cup {l} ELSE @]
    /\ UNCHANGED <<stored, matchers, trie, activation, applyTimer, listTimer, editor, refresh, mu>>

ApplyAdd(r) ==
    /\ apply[r].val # <<>> /\ ~Ranging
    /\ LET l == apply[r].val[1]
       IN /\ trie' = [trie EXCEPT ![l] = apply[r].val[2]]
          /\ mishap' = [mishap EXCEPT !.dropped = IF contents[l] = trie'[l] THEN @ \ {l}
                                                  ELSE @ \cup {l}]
    /\ apply' = [apply EXCEPT ![r].val = <<>>]
    /\ UNCHANGED <<stored, matchers, activation, applyTimer, listTimer, editor, refresh, mu>>

(* (overlap: the other run is under way; it may have read older rules, and   *)
(* it empties the index, before or after the lists of this one were added.)  *)
ApplySwap(r) ==
    /\ apply[r].pc = "add" /\ apply[r].todo = {} /\ apply[r].val = <<>>
    /\ matchers' = apply[r].got
    /\ apply' = [apply EXCEPT ![r].pc = "mark"]
    /\ mishap' = [mishap EXCEPT
            !.overlap = @ \/ \E q \in Runs \ {r} : apply[q].pc \in {"reset", "add"}]
    /\ UNCHANGED <<stored, trie, activation, applyTimer, listTimer, editor, refresh, mu>>

(* applyScheduled clears applyAt unless something was scheduled meanwhile;   *)
(* Apply clears it in any case.                                              *)
ApplyCompare ==
    /\ apply["timer"].pc = "mark"
    /\ apply' = [apply EXCEPT !["timer"] = IF activation.applyVersion = @.v
                                           THEN [NoApply EXCEPT !.pc = "store"] ELSE NoApply]
    /\ UNCHANGED <<stored, matchers, trie, activation, applyTimer, listTimer, editor, refresh,
                   mu, mishap>>

ApplyStore(r) ==
    /\ apply[r].pc = IF r = "api" THEN "mark" ELSE "store"
    /\ activation' = [activation EXCEPT !.applyAt = FALSE]
    /\ apply' = [apply EXCEPT ![r] = NoApply]
    /\ UNCHANGED <<stored, matchers, trie, applyTimer, listTimer, editor, refresh, mu, mishap>>

(* saveRouteList and deleteRouteList: the store, then notifyRefreshHostTrie. *)
SaveList(e, l) ==
    /\ editor[e].pc = "idle" /\ contents[l] < MaxVersion
    /\ contents' \in {[contents EXCEPT ![l] = @ + 1], [contents EXCEPT ![l] = 0]}
    /\ contents' # contents
    /\ editor' = [editor EXCEPT ![e].pc = "saved"]
    /\ UNCHANGED <<rules, matchers, trie, activation, applyTimer, listTimer, apply, refresh, mu,
                   mishap>>

NotifyVersion(e) ==
    /\ e \in ListEditors /\ editor[e].pc = "saved"
    /\ activation' = [activation EXCEPT !.refreshVersion = @ + 1]
    /\ editor' = [editor EXCEPT ![e].pc = "at"]
    /\ UNCHANGED <<stored, matchers, trie, applyTimer, listTimer, apply, refresh, mu, mishap>>

NotifyAt(e) ==
    /\ e \in ListEditors /\ editor[e].pc = "at"
    /\ activation' = [activation EXCEPT !.refreshAt = TRUE]
    /\ editor' = [editor EXCEPT ![e].pc = "timer"]
    /\ UNCHANGED <<stored, matchers, trie, applyTimer, listTimer, apply, refresh, mu, mishap>>

NotifyResets(e, again) ==
    /\ e \in ListEditors /\ editor[e].pc = "timer"
    /\ listTimer' = again
    /\ editor' = [editor EXCEPT ![e].pc = "done"]
    /\ UNCHANGED <<stored, matchers, trie, activation, applyTimer, apply, refresh, mu, mishap>>

NotifyUnlessBusy(e) == NotifyResets(e, mu = "free")  \* mutant: no timer while a refresh runs
NotifyReset(e) == NotifyResets(e, TRUE)

(* applyRoute: ApplyListChangesNow, then Apply of the rules; each raises its *)
(* version and stops its timer first.                                        *)
ApplyNow ==
    /\ refresh["api"].pc = "idle" /\ refresh["api"].v = 0
    /\ activation' = [activation EXCEPT !.refreshVersion = @ + 1]
    /\ refresh' = [refresh EXCEPT !["api"].pc = "stop"]
    /\ UNCHANGED <<stored, matchers, trie, applyTimer, listTimer, editor, apply, mu, mishap>>

StopListTimer ==
    /\ refresh["api"].pc = "stop"
    /\ listTimer' = FALSE
    /\ refresh' = [refresh EXCEPT !["api"].pc = "lock"]
    /\ UNCHANGED <<stored, matchers, trie, activation, applyTimer, editor, apply, mu, mishap>>

ApplyRulesNow ==
    /\ refresh["api"].pc = "applied"
    /\ activation' = [activation EXCEPT !.applyVersion = @ + 1]
    /\ refresh' = [refresh EXCEPT !["api"].pc = "stopApply"]
    /\ UNCHANGED <<stored, matchers, trie, applyTimer, listTimer, editor, apply, mu, mishap>>

StopApplyTimer ==
    /\ refresh["api"].pc = "stopApply"
    /\ applyTimer' = 0
    /\ refresh' = [refresh EXCEPT !["api"].pc = "idle"]
    /\ apply' = [apply EXCEPT !["api"].pc = "read"]
    /\ UNCHANGED <<stored, matchers, trie, activation, listTimer, editor, mu, mishap>>

RefreshFires ==
    /\ listTimer /\ refresh["timer"].pc = "idle"
    /\ listTimer' = FALSE
    /\ refresh' = [refresh EXCEPT !["timer"].pc = "lock"]
    /\ UNCHANGED <<stored, matchers, trie, activation, applyTimer, editor, apply, mu, mishap>>

(* refreshHostTrieAndMarkApplied, one at a time: the lists of the index in   *)
(* use are read again into a new one, which then takes its place.            *)
RefreshBegin(r) ==
    /\ refresh[r].pc = "lock" /\ mu = "free"
    /\ mu' = r
    /\ refresh' = [refresh EXCEPT ![r] = [pc |-> "build", v |-> activation.refreshVersion,
                                          todo |-> Indexed(trie), new |-> Empty]]
    /\ UNCHANGED <<stored, matchers, trie, activation, applyTimer, listTimer, editor, apply, mishap>>

RefreshBuild(r, l, version) ==
    /\ refresh[r].pc = "build" /\ l \in refresh[r].todo
    /\ refresh' = [refresh EXCEPT
            ![r] = [@ EXCEPT !.todo = refresh[r].todo \ {l}, !.new[l] = version]]
    /\ UNCHANGED <<stored, matchers, trie, activation, applyTimer, listTimer, editor, apply, mu,
                   mishap>>

RefreshBuilt(r) ==
    /\ refresh[r].pc = "build" /\ refresh[r].todo = {}
    /\ refresh' = [refresh EXCEPT ![r].pc = "swap"]
    /\ UNCHANGED <<stored, matchers, trie, activation, applyTimer, listTimer, editor, apply, mu,
                   mishap>>

RefreshSwap(r) ==
    /\ refresh[r].pc = "swap"
    /\ trie' = refresh[r].new
    /\ mishap' = [mishap EXCEPT !.dropped = @ \cup (Indexed(trie) \ Indexed(refresh[r].new))]
    /\ refresh' = [refresh EXCEPT ![r] = [@ EXCEPT !.pc = "mark", !.new = Empty]]
    /\ UNCHANGED <<stored, matchers, activation, applyTimer, listTimer, editor, apply, mu>>

RefreshCompare(r) ==
    /\ refresh[r].pc = "mark"
    /\ refresh' = [refresh EXCEPT
            ![r].pc = IF activation.refreshVersion = refresh[r].v THEN "store" ELSE "unlock"]
    /\ UNCHANGED <<stored, matchers, trie, activation, applyTimer, listTimer, editor, apply, mu,
                   mishap>>

RefreshStore(r) ==
    /\ refresh[r].pc = "store"
    /\ activation' = [activation EXCEPT !.refreshAt = FALSE]
    /\ refresh' = [refresh EXCEPT ![r].pc = "unlock"]
    /\ UNCHANGED <<stored, matchers, trie, applyTimer, listTimer, editor, apply, mu, mishap>>

RefreshUnlock(r) ==
    /\ refresh[r].pc = "unlock"
    /\ mu' = "free"
    /\ refresh' = [refresh EXCEPT ![r].pc = IF r = "api" THEN "applied" ELSE "idle"]
    /\ UNCHANGED <<stored, matchers, trie, activation, applyTimer, listTimer, editor, apply, mishap>>

Next ==
    \/ \E e \in RuleEditors : \/ \E L \in SUBSET Lists : SaveRule(e, L)
                              \/ ScheduleVersion(e) \/ ScheduleAt(e) \/ ScheduleTimer(e)
    \/ \E e \in ListEditors : \/ \E l \in Lists : SaveList(e, l)
                              \/ NotifyVersion(e) \/ NotifyAt(e) \/ NotifyReset(e)
    \/ ApplyNow \/ StopListTimer \/ ApplyRulesNow \/ StopApplyTimer
    \/ ApplyFires \/ ApplyCompare \/ RefreshFires
    \/ \E r \in Runs : \/ ApplyRead(r) \/ ApplyFails(r) \/ ApplyReset(r) \/ ApplySwap(r)
                       \/ ApplyAdd(r) \/ ApplyStore(r)
                       \/ RefreshBegin(r) \/ RefreshBuilt(r) \/ RefreshSwap(r)
                       \/ RefreshCompare(r) \/ RefreshStore(r) \/ RefreshUnlock(r)
                       \/ \E l \in Lists : \E version \in Reads(l) :
                            ApplyGet(r, l, version) \/ RefreshBuild(r, l, version)

Spec == Init /\ [][Next]_vars

-----------------------------------------------------------------------------
TypeOK ==
    /\ rules \subseteq Lists /\ matchers \subseteq Lists
    /\ contents \in [Lists -> 0..MaxVersion] /\ trie \in [Lists -> 0..MaxVersion]
    /\ mu \in Runs \cup {"free"}

(* Nothing runs and no timer is going to.                                    *)
Quiet ==
    /\ \A e \in RuleEditors \cup ListEditors : editor[e].pc \in {"idle", "done"}
    /\ \A r \in Runs : apply[r].pc = "idle" /\ refresh[r].pc = "idle"
    /\ applyTimer = 0 /\ ~listTimer

(* When all is quiet and ActivationStatus shows nothing to come, what is     *)
(* stored is what routes, unless two applications overlapped (rule.go:96 and *)
(* :111 share no lock): the matchers are the stored rules, unless the store  *)
(* failed or two schedulings crossed (rule.go:88), and every list they name  *)
(* is indexed as it is stored, unless it was missing or could not be read    *)
(* when the index was built (list.go:610, list.go:646), which leaves it out  *)
(* until the rules are applied again, changed while it was being added, or   *)
(* was added to an index that was being replaced (list.go:618).              *)
ActivationTruthful ==
    Quiet /\ ~mishap.overlap =>
       /\ ~activation.applyAt => matchers = rules \/ mishap.failed \/ mishap.stale
       /\ ~activation.refreshAt =>
            \A l \in matchers : trie[l] = contents[l] \/ l \in mishap.dropped

(* Nothing that ActivationStatus announces is forgotten: a refresh of the    *)
(* index always comes, an application of the rules unless two schedulings    *)
(* crossed, which leaves the timer with the older version (rule.go:88), or   *)
(* the store failed.                                                         *)
AnnouncedComes ==
    Quiet => /\ ~activation.refreshAt
             /\ activation.applyAt => mishap.stale \/ mishap.failed
=============================================================================
