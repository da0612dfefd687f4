----------------------------- MODULE TotalCache -----------------------------
(***************************************************************************)
(* The lifetime traffic totals of pkg/statistics/cache.go.                 *)
(*                                                                         *)
(* Every Read and Write of a proxied connection adds its byte count to an  *)
(* atomic "not yet synced" counter.  The goroutine whose addition crosses  *)
(* SyncThreshold wakes one sync worker over an unbuffered channel; the     *)
(* worker moves the delta into the synced counter and saves the totals,    *)
(* and the delta of the current hour, in one SQLite transaction.  Close    *)
(* cancels the worker, waits for it and saves what is left.                *)
(*                                                                         *)
(* The counters are atomics: every atomic operation is one step.  The      *)
(* process may be killed at any step; only the database survives.  Locals  *)
(* that are dead are set back to one value.                                *)
(***************************************************************************)
EXTENDS Integers

CONSTANTS
    Adders,         \* goroutines that report traffic
    Chunks,         \* sizes one Read or Write may report
    SyncThreshold,  \* bytes that make a goroutine wake the worker
    MaxBytes,       \* bound: bytes ever reported, both directions
    MaxRestarts     \* bound: restarts of the process

ASSUME TotalCacheConstants ==
    /\ Chunks \subseteq Nat \ {0}
    /\ SyncThreshold \in Nat \ {0}
    /\ MaxBytes \in Nat
    /\ MaxRestarts \in Nat

Dir == {"download", "upload"}
Other(d) == IF d = "download" THEN "upload" ELSE "download"

VARIABLES
    last,       \* lastDownload, lastUpload: the totals read at the start
    synced,     \* download, upload
    notSync,    \* notSyncDownload, notSyncUpload
    triggerd,   \* triggerdDownload, triggerdUpload
    adder,      \* reporting goroutines: control state, direction, z
    worker,     \* the sync goroutine: control state, direction, its locals
    closer,     \* Close: control state and its two deltas
    kv,         \* durable: statistics_kv
    hourly,     \* durable: the sum of the rows of traffic_hourly
    running,    \* history: bytes reported since this process started
    real,       \* history: bytes ever reported
    atCancel,   \* history: running when Close began
    restarts,   \* history: restarts so far
    lost,       \* history: a save failed or a process was killed
    loadFailed  \* history: the totals could not be read at a start

memory  == <<last, synced, notSync, triggerd>>
durable == <<kv, hourly>>
history == <<running, real, atCancel, restarts, lost, loadFailed>>
vars    == <<memory, adder, worker, closer, durable, history>>

Zero   == [d \in Dir |-> 0]
Idle   == [pc |-> "idle", dir |-> "download", z |-> 0]
Parked == [pc |-> "select", dir |-> "download", delta |-> 0, total |-> 0,
           other |-> 0]
Open   == [pc |-> "open", delta |-> Zero]

\* newSQLiteTotalCache on an empty database
Init ==
    /\ last = Zero /\ synced = Zero /\ notSync = Zero
    /\ triggerd = [d \in Dir |-> FALSE]
    /\ adder = [a \in Adders |-> Idle] /\ worker = Parked
    /\ closer = Open
    /\ kv = Zero /\ hourly = Zero
    /\ running = Zero /\ real = Zero /\ atCancel = Zero
    /\ restarts = 0 /\ lost = FALSE /\ loadFailed = FALSE

cancelled == closer.pc # "open"             \* c.ctx is done
Loaded(d) == last[d] + synced[d] + notSync[d]   \* LoadDownload, LoadUpload

-----------------------------------------------------------------------------
(* AddDownload, AddUpload and trigger. *)

\* z := c.notSyncDownload.Add(int64(d))
Add(a, d, n) ==
    /\ adder[a].pc = "idle"
    /\ real[d] + real[Other(d)] + n <= MaxBytes
    /\ notSync' = [notSync EXCEPT ![d] = @ + n]
    /\ adder' = [adder EXCEPT ![a] =
                   [pc |-> "check", dir |-> d, z |-> notSync[d] + n]]
    /\ running' = [running EXCEPT ![d] = @ + n]
    /\ real' = [real EXCEPT ![d] = @ + n]
    /\ UNCHANGED <<last, synced, triggerd, worker, closer, durable,
                   atCancel, restarts, lost, loadFailed>>

\* if z >= SyncThreshold && !atomic.Load()
Check(a) ==
    /\ adder[a].pc = "check"
    /\ adder' = [adder EXCEPT ![a] =
                   IF @.z >= SyncThreshold /\ ~triggerd[@.dir]
                   THEN [@ EXCEPT !.pc = "send", !.z = 0] ELSE Idle]
    /\ UNCHANGED <<memory, worker, closer, durable, history>>

\* case ch <- struct{}{}, if the worker is parked in its select; default or
\* ctx.Done otherwise, also when the worker is only about to park
Send(a) ==
    /\ adder[a].pc = "send"
    /\ \/ /\ worker.pc = "select"
          /\ worker' = [worker EXCEPT !.pc = "load", !.dir = adder[a].dir]
          /\ adder' = [adder EXCEPT ![a].pc = "mark"]
       \/ /\ adder' = [adder EXCEPT ![a] = Idle]
          /\ UNCHANGED worker
    /\ UNCHANGED <<memory, closer, durable, history>>

\* atomic.Store(true), after the signal was handed over
Mark(a) ==
    /\ adder[a].pc = "mark"
    /\ triggerd' = [triggerd EXCEPT ![adder[a].dir] = TRUE]
    /\ adder' = [adder EXCEPT ![a] = Idle]
    /\ UNCHANGED <<last, synced, notSync, worker, closer, durable, history>>

-----------------------------------------------------------------------------
(* The worker goroutine of newSQLiteTotalCache. *)

WExitNever == FALSE  \* mutant: no ctx.Done() case in the select

\* case <-c.ctx.Done(): return
WExit ==
    /\ worker.pc = "select" /\ cancelled
    /\ worker' = [worker EXCEPT !.pc = "done"]
    /\ UNCHANGED <<memory, adder, closer, durable, history>>

\* delta := c.notSyncDownload.Load()
WLoad ==
    /\ worker.pc = "load"
    /\ worker' = [worker EXCEPT !.pc = "add", !.delta = notSync[worker.dir]]
    /\ UNCHANGED <<memory, adder, closer, durable, history>>

AddDelta(total) ==
    /\ worker.pc = "add"
    /\ synced' = [synced EXCEPT ![worker.dir] = @ + worker.delta]
    /\ worker' = [worker EXCEPT !.pc = "read", !.total = total]
    /\ UNCHANGED <<last, notSync, triggerd, adder, closer, durable, history>>

\* mutant: the total is LoadDownload() after the Add
WAddLoaded == AddDelta(Loaded(worker.dir) + worker.delta)

\* totalDownload := c.lastDownload.Load() + c.download.Add(uint64(delta))
WAdd == AddDelta(last[worker.dir] + synced[worker.dir] + worker.delta)

\* c.LoadUpload(), evaluated before the transaction begins
WRead ==
    /\ worker.pc = "read"
    /\ worker' = [worker EXCEPT !.pc = "persist",
                                !.other = Loaded(Other(worker.dir))]
    /\ UNCHANGED <<memory, adder, closer, durable, history>>

\* persistSQLiteTotal: commit, which needs a live context, or roll back; the
\* error is only logged
WPersist ==
    /\ worker.pc = "persist"
    /\ worker' = [worker EXCEPT !.pc = "sub", !.total = 0, !.other = 0]
    /\ \/ /\ ~cancelled
          /\ kv' = [d \in Dir |-> IF d = worker.dir THEN worker.total
                                                    ELSE worker.other]
          /\ hourly' = [hourly EXCEPT ![worker.dir] = @ + worker.delta]
          /\ UNCHANGED lost
       \/ lost' = TRUE /\ UNCHANGED durable
    /\ UNCHANGED <<memory, adder, closer, running, real, atCancel, restarts,
                   loadFailed>>

SetNotSync(n) ==
    /\ worker.pc = "sub"
    /\ notSync' = [notSync EXCEPT ![worker.dir] = n]
    /\ worker' = [worker EXCEPT !.pc = "reset", !.delta = 0]
    /\ UNCHANGED <<last, synced, triggerd, adder, closer, durable, history>>

WSubStore == SetNotSync(0)  \* mutant: Store(0) instead of Add(-delta)

\* c.notSyncDownload.Add(-delta)
WSub == SetNotSync(notSync[worker.dir] - worker.delta)

\* c.triggerdDownload.Store(false)
WReset ==
    /\ worker.pc = "reset"
    /\ triggerd' = [triggerd EXCEPT ![worker.dir] = FALSE]
    /\ worker' = Parked
    /\ UNCHANGED <<last, synced, notSync, adder, closer, durable, history>>

-----------------------------------------------------------------------------
(* Close. *)

\* c.cancel()
Cancel ==
    /\ closer.pc = "open"
    /\ closer' = [closer EXCEPT !.pc = "wait"]
    /\ atCancel' = running
    /\ UNCHANGED <<memory, adder, worker, durable, running, real, restarts,
                   lost, loadFailed>>

TakeDeltas(delta) ==
    /\ closer.pc = "wait" /\ worker.pc = "done"
    /\ closer' = [pc |-> "persist", delta |-> delta]
    /\ synced' = [d \in Dir |-> synced[d] + delta[d]]
    /\ UNCHANGED <<last, notSync, triggerd, adder, worker, durable, history>>

TakeNothing == TakeDeltas(Zero)  \* mutant: Close forgets the unsynced bytes

\* c.wg.Wait(), the two Loads and the two Adds.  The worker is gone, and the
\* Load of one direction commutes with additions to the other.
Take == TakeDeltas(notSync)

SaveTotals(hours) ==
    /\ closer.pc = "persist"
    /\ \/ /\ kv' = [d \in Dir |-> last[d] + synced[d]]
          /\ hourly' = [d \in Dir |-> hourly[d] + hours[d]]
          /\ closer' = [closer EXCEPT !.pc = "saved"]
          /\ UNCHANGED lost
       \/ /\ closer' = [closer EXCEPT !.pc = "failed"]
          /\ lost' = TRUE
          /\ UNCHANGED durable
    /\ UNCHANGED <<memory, adder, worker, running, real, atCancel, restarts,
                   loadFailed>>

\* persistSQLiteTotal(context.Background(), ...)
Save == SaveTotals(closer.delta)

-----------------------------------------------------------------------------
Starting(loadOK, totals) ==
    /\ restarts < MaxRestarts
    /\ restarts' = restarts + 1
    /\ last' = IF loadOK THEN totals ELSE Zero
    /\ synced' = Zero /\ notSync' = Zero
    /\ triggerd' = [d \in Dir |-> FALSE]
    /\ adder' = [a \in Adders |-> Idle] /\ worker' = Parked
    /\ closer' = Open
    /\ running' = Zero /\ atCancel' = Zero
    /\ lost' = (lost \/ closer.pc # "saved")
    /\ loadFailed' = (loadFailed \/ ~loadOK)
    /\ UNCHANGED <<durable, real>>

\* mutant: the totals are taken from the hour rows
RestartHours(loadOK) == Starting(loadOK, hourly)

\* The process ends, cleanly or killed, and newSQLiteTotalCache runs again.
\* When loadSQLiteTotal fails, that is logged and both totals start at zero.
Restart(loadOK) == Starting(loadOK, kv)

AdderStep(a) ==
    \/ \E d \in Dir, n \in Chunks : Add(a, d, n)
    \/ Check(a) \/ Send(a) \/ Mark(a)
WorkerStep ==
    WExit \/ WLoad \/ WAdd \/ WRead \/ WPersist \/ WSub \/ WReset
CloseStep == Take \/ Save

Next ==
    \/ \E a \in Adders : AdderStep(a)
    \/ WorkerStep
    \/ Cancel \/ CloseStep
    \/ \E loadOK \in BOOLEAN : Restart(loadOK)

Spec == Init /\ [][Next]_vars

\* The Go scheduler runs every runnable goroutine, so a worker or a Close
\* that can go on does.  Nothing forces Close to be called, traffic to be
\* reported or the process to be restarted.
FairSpec == Spec /\ WF_vars(WorkerStep) /\ WF_vars(CloseStep)

-----------------------------------------------------------------------------
(* Properties. *)

\* Every variable has its type; in particular no counter goes negative,
\* although notSync is lowered by a delta that was read some steps earlier.
TypeOK ==
    /\ last \in [Dir -> Nat] /\ synced \in [Dir -> Nat]
    /\ notSync \in [Dir -> Nat]
    /\ kv \in [Dir -> Nat] /\ hourly \in [Dir -> Nat]
    /\ running \in [Dir -> Nat] /\ real \in [Dir -> Nat]
    /\ atCancel \in [Dir -> Nat]
    /\ triggerd \in [Dir -> BOOLEAN]
    /\ adder \in [Adders -> [pc : {"idle", "check", "send", "mark"},
                             dir : Dir, z : Nat]]
    /\ worker \in [pc : {"select", "load", "add", "read", "persist", "sub",
                         "reset", "done"},
                   dir : Dir, delta : Nat, total : Nat, other : Nat]
    /\ closer \in [pc : {"open", "wait", "persist", "saved", "failed"},
                   delta : [Dir -> Nat]]
    /\ restarts \in Nat /\ lost \in BOOLEAN /\ loadFailed \in BOOLEAN

\* The bytes LoadDownload counts twice: between Add(delta) and Add(-delta) in
\* the worker, and for good once Close has added the last delta.
Doubled(d) ==
    (IF worker.pc \in {"read", "persist", "sub"} /\ worker.dir = d
     THEN worker.delta ELSE 0)
    + (IF closer.pc \in {"persist", "saved", "failed"}
       THEN closer.delta[d] ELSE 0)

\* No interleaving of additions with a sync loses or invents a byte: the two
\* counters of a direction always hold exactly the bytes reported to this
\* process, plus the delta a sync is moving from one to the other.
TotalsConserved ==
    \A d \in Dir : synced[d] + notSync[d] = running[d] + Doubled(d)

\* The saved total never exceeds the traffic there really was, whatever was
\* interrupted: no byte is persisted twice.  And every byte of traffic_hourly
\* is also in the saved total, as long as no start failed to read the totals.
NeverOverCounted ==
    \A d \in Dir : kv[d] <= real[d] /\ (loadFailed \/ hourly[d] <= kv[d])

\* A clean Close makes every byte reported before it began durable, also the
\* bytes of earlier syncs whose transaction failed.  If no earlier save failed
\* and no process was killed, the hour rows then add up to the total.
CloseSavesAll ==
    closer.pc = "saved" =>
        /\ \A d \in Dir : kv[d] >= last[d] + atCancel[d]
        /\ lost \/ loadFailed \/ hourly = kv

\* The saved totals never go back, although the total of one direction is
\* also written, from a possibly stale read, by syncs of the other.
TotalNeverGoesBack ==
    [][loadFailed \/ \A d \in Dir : kv'[d] >= kv[d]]_vars

\* Close returns: the worker it waits for always comes back to its select.
CloseReturns ==
    closer.pc = "wait" ~> closer.pc \in {"saved", "failed", "open"}
=============================================================================
