----------------------------- MODULE Telemetry ------------------------------
(***************************************************************************)
(* Traffic by dimension: telemetryRecorder of pkg/statistics/telemetry.go. *)
(*                                                                         *)
(* Every connection adds its bytes to a counter of its own.  A periodic    *)
(* flush, the removal of a connection and the close of the recorder take   *)
(* what the counters hold, under one mutex, and add it to the rows of the  *)
(* connection's dimensions.  One dimension that all connections share and  *)
(* one direction are modelled: the rows of a dimension are the sum over    *)
(* its connections, and the directions are treated alike.  A number of     *)
(* bytes is modelled by the bytes it counts, so that each of them can be   *)
(* followed; a sum is then a union.                                        *)
(***************************************************************************)
EXTENDS Naturals

CONSTANTS
    Conns, None,
    MaxBytes  \* bound: bytes of a connection

Flushers == {"timer", "close"} \cup Conns   \* a connection: its Remove

VARIABLES
    counter,   \* connection -> the bytes in its dimensionCounter
    counters,  \* the registered counters
    conn,      \* connection -> "none", "open", "removing" or "removed"
    flushMu,   \* holder or None
    flush,     \* flusher -> [pc, todo, delta]
    closing,   \* the context is cancelled
    ticker,    \* whether the goroutine of the ticker runs
    row,       \* traffic_dimension_hourly, durable: the bytes
    real,      \* history: connection -> how many bytes it carried
    lost,      \* history: the bytes of transactions that failed
    late       \* history: connections whose Read returned after the last swap

vars == <<counter, counters, conn, flushMu, flush, closing, ticker, row, real, lost,
          late>>
history == <<real, lost, late>>

Idle == [pc |-> "idle", todo |-> {}, delta |-> {}]

Init ==
    /\ counter = [c \in Conns |-> {}] /\ real = [c \in Conns |-> 0]
    /\ counters = {} /\ conn = [c \in Conns |-> "none"]
    /\ flushMu = None /\ flush = [f \in Flushers |-> Idle]
    /\ closing = FALSE /\ ticker = TRUE /\ row = {} /\ lost = {}
    /\ late = {}

\* Register
Register(c) ==
    /\ conn[c] = "none" /\ conn' = [conn EXCEPT ![c] = "open"]
    /\ counters' = counters \cup {c}
    /\ UNCHANGED <<counter, flushMu, flush, closing, ticker, row, history>>

\* Remove has emptied the counter
Flushed(c) ==
    \/ conn[c] = "removed"
    \/ conn[c] = "removing" /\ flush[c].pc # "lock" /\ flush[c].todo = {}

\* AddDownload; a Read under way when the connection is closed ends later
Add(c) ==
    /\ conn[c] # "none" /\ real[c] < MaxBytes
    /\ counter' = [counter EXCEPT ![c] = @ \cup {<<c, real[c] + 1>>}]
    /\ real' = [real EXCEPT ![c] = @ + 1]
    /\ late' = IF Flushed(c) THEN late \cup {c} ELSE late
    /\ UNCHANGED <<counters, conn, flushMu, flush, closing, ticker, row, lost>>

-----------------------------------------------------------------------------
(* flushCounters *)

Begin(f, todo) ==
    /\ flush[f].pc = "idle"
    /\ flush' = [flush EXCEPT ![f] = [pc |-> "lock", todo |-> todo, delta |-> {}]]

\* the ticker; its tick may be taken although the context has just ended
FlushTimer ==
    /\ ticker /\ counters # {} /\ Begin("timer", counters)
    /\ UNCHANGED <<counter, counters, conn, flushMu, closing, ticker, row, history>>
TickerEnds ==
    /\ ticker /\ closing /\ flush["timer"].pc = "idle" /\ ticker' = FALSE
    /\ UNCHANGED <<counter, counters, conn, flushMu, flush, closing, row, history>>
\* the flush of Close, after wg.Wait
FlushClose ==
    /\ ~ ticker /\ counters # {}
    /\ Begin("close", counters)
    /\ UNCHANGED <<counter, counters, conn, flushMu, closing, ticker, row, history>>
Removing(c, todo) ==
    /\ conn[c] = "open" /\ conn' = [conn EXCEPT ![c] = "removing"]
    /\ Begin(c, todo)
    /\ UNCHANGED <<counter, counters, flushMu, closing, ticker, row, history>>

Remove(c) == Removing(c, {c})

Lock(f) ==
    /\ flush[f].pc = "lock" /\ flushMu = None
    /\ flushMu' = f /\ flush' = [flush EXCEPT ![f].pc = "swap"]
    /\ UNCHANGED <<counter, counters, conn, closing, ticker, row, history>>

Swapping(f, c, left) ==
    /\ flush[f].pc = "swap" /\ c \in flush[f].todo
    /\ flush' = [flush EXCEPT ![f] =
                   [pc |-> "swap", todo |-> @.todo \ {c}, delta |-> @.delta \cup counter[c]]]
    /\ counter' = [counter EXCEPT ![c] = left]
    /\ UNCHANGED <<counters, conn, flushMu, closing, ticker, row, history>>

\* mutant: Load instead of Swap
SwapLoad(f, c) == Swapping(f, c, counter[c])

Swap(f, c) == Swapping(f, c, {})

\* persistTrafficDimensions and the unlock
Persist(f) ==
    /\ flush[f].pc = "swap" /\ flush[f].todo = {}
    /\ \/ row' = row \cup flush[f].delta /\ UNCHANGED lost
       \/ lost' = lost \cup flush[f].delta /\ UNCHANGED row
    /\ flushMu' = None
    /\ flush' = [flush EXCEPT ![f] =
                   [Idle EXCEPT !.pc = IF f \in Conns THEN "delete" ELSE "idle"]]
    /\ UNCHANGED <<counter, counters, conn, closing, ticker, real, late>>

\* counters.Delete
Delete(c) ==
    /\ flush[c].pc = "delete"
    /\ counters' = counters \ {c} /\ flush' = [flush EXCEPT ![c] = Idle]
    /\ conn' = [conn EXCEPT ![c] = "removed"]
    /\ UNCHANGED <<counter, flushMu, closing, ticker, row, history>>

\* Close: cancel, wait for the ticker's goroutine, flush
Cancel ==
    /\ ~ closing /\ closing' = TRUE
    /\ UNCHANGED <<counter, counters, conn, flushMu, flush, ticker, row, history>>

Next ==
    \/ \E c \in Conns : Register(c) \/ Add(c) \/ Remove(c) \/ Delete(c)
    \/ \E f \in Flushers :
         Lock(f) \/ Persist(f) \/ \E c \in Conns : Swap(f, c)
    \/ FlushTimer \/ TickerEnds \/ FlushClose \/ Cancel

Spec == Init /\ [][Next]_vars

-----------------------------------------------------------------------------
(* Properties. *)

\* Where a byte is counted.
Places(b) ==
    {<<"counter", c>> : c \in {d \in Conns : b \in counter[d]}}
    \cup {<<"flush", f>> : f \in {g \in Flushers : b \in flush[g].delta}}
    \cup {p \in {<<"row">>, <<"lost">>} : b \in IF p = <<"row">> THEN row ELSE lost}

\* Every byte a connection carried is in exactly one place: its counter, a
\* flush under way, the database, or a transaction that failed.  Overlapping
\* flushes of the timer, of a removal and of Close count nothing twice.
BytesConserved ==
    \A c \in Conns : \A i \in 1..MaxBytes :
        IF i <= real[c] THEN \E p \in Places(<<c, i>>) : Places(<<c, i>>) = {p}
        ELSE Places(<<c, i>>) = {}

\* A connection that is removed leaves nothing in its counter, where no flush
\* looks any more (docs/sqlite-storage-redesign.md:954: "SQLite becomes the
\* persisted source of truth for telemetry"), however the flushes overlap.
\* Except for the bytes of a read that returns after the connection's last
\* swap: those are never saved.
RemovedIsEmpty ==
    \A c \in Conns \ late : conn[c] = "removed" => counter[c] = {}
=============================================================================
