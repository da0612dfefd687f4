------------------------------ MODULE SyncMap ------------------------------
(***************************************************************************)
(* LoadOrCreate of pkg/utils/syncmap/syncmap.go for one key: the map entry *)
(* is created at most once although several goroutines miss it together.   *)
(* A mutex per key (type single) keeps them apart; it lives only as long   *)
(* as the call that made it.  Keys do not interact: the mutex that guards  *)
(* the map of mutexes is only held inside one step.                        *)
(***************************************************************************)
EXTENDS Naturals

CONSTANTS
    Callers,    \* goroutines that call LoadOrCreate once
    None        \* no value, no mutex

VARIABLES
    data,     \* the entry: None or the caller whose f made the value
    store,    \* single.store: None or the caller that made the mutex
    holder,   \* per mutex (named by its maker): None or who has locked it
    call,     \* per caller: control state, its mutex, its result
    created,  \* history: callers whose f returned a value
    stored,   \* history: values that were in the map
    upset     \* history: whether f has failed or the entry was deleted

history == <<created, stored, upset>>
vars == <<data, store, holder, call, created, stored, upset>>

Init ==
    /\ data = None /\ store = None /\ holder = [c \in Callers |-> None]
    /\ call = [c \in Callers |-> [pc |-> "load", mu |-> None, v |-> None]]
    /\ created = {} /\ stored = {} /\ upset = FALSE

Move(c, from, to) ==
    /\ call[c].pc = from
    /\ call' = [call EXCEPT ![c].pc = to]

\* a.data.Load(key), outside and inside the mutex
Lookup(c, from, hit, miss) ==
    /\ call[c].pc = from
    /\ call' = [call EXCEPT ![c].pc = IF data # None THEN hit ELSE miss,
                            ![c].v = data]
    /\ UNCHANGED <<data, store, holder, history>>

Load(c) == Lookup(c, "load", "end", "read")

\* getMu under the read lock
ReadMu(c) ==
    /\ call[c].pc = "read"
    /\ call' = [call EXCEPT ![c].pc = IF store # None THEN "lock" ELSE "make",
                            ![c].mu = store]
    /\ UNCHANGED <<data, store, holder, history>>

\* getMu under the write lock
MakeMu(c) ==
    /\ call[c].pc = "make"
    /\ store' = IF store = None THEN c ELSE store
    /\ call' = [call EXCEPT ![c].pc = "lock", ![c].mu = store']
    /\ UNCHANGED <<data, holder, history>>

Lock(c) ==
    /\ Move(c, "lock", "inner")
    /\ holder[call[c].mu] = None
    /\ holder' = [holder EXCEPT ![call[c].mu] = c]
    /\ UNCHANGED <<data, store, history>>

InnerBlind(c) ==  \* mutant: the entry is not looked up again
    /\ Move(c, "inner", "create")
    /\ UNCHANGED <<data, store, holder, history>>

Inner(c) == Lookup(c, "inner", "unlock", "create")

Creating(c, failed) ==
    /\ \/ /\ Move(c, "create", "store")
          /\ created' = created \cup {c} /\ UNCHANGED upset
       \/ /\ Move(c, "create", failed)
          /\ upset' = TRUE /\ UNCHANGED created
    /\ UNCHANGED <<data, store, holder, stored>>

\* v, err = f()
Create(c) == Creating(c, "unlock")

Storing(c, v) ==
    /\ call[c].pc = "store"
    /\ data' = IF data = None THEN c ELSE data
    /\ stored' = stored \cup {data'}
    /\ call' = [call EXCEPT ![c].pc = "unlock", ![c].v = v]
    /\ UNCHANGED <<store, holder, created, upset>>

\* v, ok = a.data.LoadOrStore(key, v)
Store(c) == Storing(c, IF data = None THEN c ELSE data)

\* mu.Unlock()
Unlock(c) ==
    /\ Move(c, "unlock", "done")
    /\ holder' = [holder EXCEPT ![call[c].mu] = None]
    /\ UNCHANGED <<data, store, history>>

\* done(): the maker of the mutex removes it from the map
Done(c) ==
    /\ Move(c, "done", "end")
    /\ store' = IF call[c].mu = c THEN None ELSE store
    /\ UNCHANGED <<data, holder, history>>

\* Delete, LoadAndDelete, CompareAndDelete
Delete ==
    /\ data # None /\ data' = None /\ upset' = TRUE
    /\ UNCHANGED <<store, holder, call, created, stored>>

Step(c) ==
    \/ Load(c) \/ ReadMu(c) \/ MakeMu(c) \/ Lock(c) \/ Inner(c)
    \/ Create(c) \/ Store(c) \/ Unlock(c) \/ Done(c)
Next == (\E c \in Callers : Step(c)) \/ Delete

Spec == Init /\ [][Next]_vars
\* A goroutine that can run does.
FairSpec == Spec /\ \A c \in Callers : WF_vars(Step(c))

-----------------------------------------------------------------------------
(* Properties. *)

\* As long as f does not fail and the entry is not deleted, f makes at most
\* one value: a third caller that gets a fresh mutex, because the maker of the
\* old one has already removed it, must find the entry.  (After a failure two
\* callers may both make one: a waiter on the removed mutex and the maker of
\* a new one.)
OneCreation == ~upset => \A c, d \in created : c = d

\* Every call that returns a value returns one that was in the map, never a
\* value that lost the race and that nobody will ever close.
ReturnsStored == \A c \in Callers : call[c].v # None => call[c].v \in stored

\* No mutex outlives the calls that use it: the map of mutexes does not grow
\* with the keys ever used.
MutexesFreed ==
    (\A c \in Callers : call[c].pc \in {"load", "end"}) => store = None

\* A value is made once, every caller gets one that was in the map, and no
\* mutex outlives its callers.
MadeOnce == OneCreation /\ ReturnsStored /\ MutexesFreed

\* Every call returns, also when f fails or the entry keeps being deleted.
Returned == \A c \in Callers : call[c].pc = "end"
CallsReturn == <>[]Returned
=============================================================================
