-------------------------- MODULE TotalCacheProofs --------------------------
(***************************************************************************)
(* Proofs about TotalCache, for any number of goroutines, any byte counts, *)
(* failed transactions and restarts.  TotalsConserved is not inductive:    *)
(* that lowering notSync by a delta read earlier stays a natural number,   *)
(* and that Close's last delta is not moved by the worker as well, needs   *)
(* Held; Counting is the two together.  Saving relates the counters,       *)
(* direction by direction, to what is in the database and in flight.       *)
(***************************************************************************)
EXTENDS TotalCache, TLAPS

USE SMTT(90)

Past == {"persist", "saved", "failed"}  \* Close has taken the last deltas

\* Close goes on only when the worker has returned.
WorkerGone == closer.pc \in Past => worker.pc = "done"

\* The deltas being moved are still part of the unsynced counters.
DeltaHeld ==
    /\ worker.pc \in {"add", "read", "persist", "sub"} =>
           worker.delta <= notSync[worker.dir]
    /\ closer.pc \in Past => \A d \in Dir : closer.delta[d] <= notSync[d]

Held == WorkerGone /\ DeltaHeld

Counting == TypeOK /\ Held /\ TotalsConserved

LEMMA StartTypes ==
    /\ Zero \in [Dir -> Nat] /\ [d \in Dir |-> FALSE] \in [Dir -> BOOLEAN]
    /\ Idle \in [pc : {"idle", "check", "send", "mark"}, dir : Dir, z : Nat]
    /\ Parked \in [pc : {"select", "load", "add", "read", "persist", "sub",
                         "reset", "done"},
                   dir : Dir, delta : Nat, total : Nat, other : Nat]
    /\ Open \in [pc : {"open", "wait", "persist", "saved", "failed"},
                 delta : [Dir -> Nat]]
<1>1. Zero \in [Dir -> Nat]
  BY Zenon DEF Zero
<1>2. Idle \in [pc : {"idle", "check", "send", "mark"}, dir : Dir, z : Nat]
  BY Zenon DEF Idle, Dir
<1>3. Parked \in [pc : {"select", "load", "add", "read", "persist", "sub",
                        "reset", "done"},
                  dir : Dir, delta : Nat, total : Nat, other : Nat]
  BY Zenon DEF Parked, Dir
<1>4. QED
  BY <1>1, <1>2, <1>3, Zenon DEF Open

LEMMA OtherDir == \A d \in Dir : Other(d) \in Dir /\ Other(d) # d
  BY Zenon DEF Dir, Other

LEMMA CountingInit == Init => Counting
<1> SUFFICES ASSUME Init PROVE Counting
  BY Zenon
<1>1. TypeOK
  BY StartTypes, Zenon DEF Init, TypeOK
<1>2. Held
  BY Zenon DEF Init, Held, WorkerGone, DeltaHeld, Past, Parked, Open
<1>3. TotalsConserved
  BY DEF Init, TotalsConserved, Doubled, Zero, Parked, Open
<1>4. QED
  BY <1>1, <1>2, <1>3, Zenon DEF Counting

LEMMA CountingNext == Counting /\ [Next]_vars => Counting'
<1> SUFFICES ASSUME Counting, [Next]_vars PROVE Counting'
  BY Zenon
<1> USE TotalCacheConstants DEF Counting
<1>1. ASSUME NEW a \in Adders, NEW d \in Dir, NEW n \in Chunks, Add(a, d, n)
      PROVE  Counting'
  <2>0. n \in Nat
    BY Zenon
  <2>1. TypeOK'
    BY <1>1, <2>0 DEF TypeOK, Add, memory, durable, history
  <2>2. Held'
    BY <1>1, <2>0 DEF TypeOK, Add, memory, durable, history, Held,
       WorkerGone, DeltaHeld, Past
  <2>3. TotalsConserved'
    <3>1. \A e \in Dir : /\ notSync'[e] = notSync[e] + (IF e = d THEN n ELSE 0)
                         /\ running'[e] = running[e] + (IF e = d THEN n ELSE 0)
      BY <1>1, <2>0 DEF TypeOK, Add
    <3>2. \A e \in Dir : Doubled(e)' = Doubled(e) /\ Doubled(e) \in Nat
      BY <1>1 DEF TypeOK, Add, Doubled
    <3> SUFFICES ASSUME NEW e \in Dir
        PROVE  synced'[e] + notSync'[e] = running'[e] + Doubled(e)'
      BY Zenon DEF TotalsConserved
    <3>3. /\ synced'[e] = synced[e] /\ synced[e] \in Nat
          /\ notSync[e] \in Nat /\ running[e] \in Nat
          /\ synced[e] + notSync[e] = running[e] + Doubled(e)
      BY <1>1, Zenon DEF TypeOK, Add, TotalsConserved
    <3>4. QED
      BY <2>0, <3>1, <3>2, <3>3
  <2>4. QED
    BY <2>1, <2>2, <2>3, Zenon
<1>2. ASSUME NEW a \in Adders, Check(a) PROVE Counting'
  <2>1. TypeOK'
    BY <1>2, StartTypes, ZenonT(40) DEF TypeOK, Check, memory, durable, history
  <2>2. Held'
    BY <1>2, Zenon DEF TypeOK, Check, Idle, memory, durable, history, Held,
       WorkerGone, DeltaHeld, Past
  <2>3. TotalsConserved'
    BY <1>2, Zenon DEF TypeOK, Check, Idle, memory, durable, history, Held,
       WorkerGone, Past, TotalsConserved, Doubled
  <2>4. QED
    BY <2>1, <2>2, <2>3, Zenon
<1>3. ASSUME NEW a \in Adders, Send(a) PROVE Counting'
  <2>1. worker' = worker \/ worker'.pc = "load"
    BY <1>3, Zenon DEF TypeOK, Send, Idle
  <2>2. TypeOK'
    <3>1. adder[a].dir \in Dir
      BY Zenon DEF TypeOK
    <3>2. worker' \in [pc : {"select", "load", "add", "read", "persist",
                             "sub", "reset", "done"},
                       dir : Dir, delta : Nat, total : Nat, other : Nat]
      BY <1>3, <3>1, ZenonT(40) DEF TypeOK, Send
    <3>3. adder' \in [Adders -> [pc : {"idle", "check", "send", "mark"},
                                 dir : Dir, z : Nat]]
      <4>1. CASE adder' = [adder EXCEPT ![a].pc = "mark"]
        BY <4>1 DEF TypeOK
      <4>2. CASE adder' = [adder EXCEPT ![a] = Idle]
        BY <4>2, StartTypes, Zenon DEF TypeOK
      <4>3. QED
        BY <1>3, <4>1, <4>2, Zenon DEF Send
    <3>4. QED
      BY <1>3, <3>2, <3>3, Zenon DEF TypeOK, Send, memory, durable, history
  <2>3. Held'
    BY <1>3, <2>1, Zenon DEF TypeOK, Send, Idle, memory, durable, history, Held,
       WorkerGone, DeltaHeld, Past
  <2>4. TotalsConserved'
    BY <1>3, <2>1, Zenon DEF TypeOK, Send, Idle, memory, durable, history, Held,
       WorkerGone, Past, TotalsConserved, Doubled
  <2>5. QED
    BY <2>2, <2>3, <2>4
<1>4. ASSUME NEW a \in Adders, Mark(a) PROVE Counting'
  <2>1. TypeOK'
    BY <1>4, StartTypes, Zenon DEF TypeOK, Mark, memory, durable, history
  <2>2. Held'
    BY <1>4, Zenon DEF TypeOK, Mark, Idle, memory, durable, history, Held,
       WorkerGone, DeltaHeld, Past
  <2>3. TotalsConserved'
    BY <1>4, Zenon DEF TypeOK, Mark, Idle, memory, durable, history, Held,
       WorkerGone, Past, TotalsConserved, Doubled
  <2>4. QED
    BY <2>1, <2>2, <2>3
<1>5. CASE WExit
  <2>1. worker.pc = "select" /\ worker'.pc = "done"
    BY <1>5, Zenon DEF TypeOK, WExit
  <2>2. TypeOK'
    BY <1>5, <2>1, Zenon DEF TypeOK, WExit, memory, durable, history
  <2>3. Held'
    BY <1>5, <2>1, Zenon DEF TypeOK, WExit, memory, durable, history, Held,
       WorkerGone, DeltaHeld, Past
  <2>4. TotalsConserved'
    BY <1>5, <2>1, Zenon DEF TypeOK, WExit, memory, durable, history, Held,
       WorkerGone, Past, TotalsConserved, Doubled
  <2>5. QED
    BY <2>2, <2>3, <2>4, Zenon
<1>6. CASE WLoad
  <2>1. /\ worker.pc = "load" /\ worker'.pc = "add"
        /\ worker'.dir = worker.dir /\ worker'.delta = notSync[worker.dir]
    BY <1>6, Zenon DEF TypeOK, WLoad
  <2>2. TypeOK'
    BY <1>6, <2>1, Zenon DEF TypeOK, WLoad, memory, durable, history
  <2>3. Held'
    BY <1>6, <2>1 DEF TypeOK, WLoad, memory, durable, history, Held,
       WorkerGone, DeltaHeld, Past
  <2>4. TotalsConserved'
    BY <1>6, <2>1, Zenon DEF TypeOK, WLoad, memory, durable, history, Held,
       WorkerGone, Past, TotalsConserved, Doubled
  <2>5. QED
    BY <2>2, <2>3, <2>4
<1>7. CASE WAdd
  <2>1. /\ worker.pc = "add" /\ worker'.pc = "read"
        /\ worker'.dir = worker.dir /\ worker'.delta = worker.delta
    BY <1>7, Zenon DEF TypeOK, WAdd, AddDelta
  <2>2. TypeOK'
    <3>1. /\ last[worker.dir] + synced[worker.dir] + worker.delta \in Nat
          /\ synced[worker.dir] + worker.delta \in Nat
      BY DEF TypeOK
    <3>2. worker' \in [pc : {"select", "load", "add", "read", "persist",
                             "sub", "reset", "done"},
                       dir : Dir, delta : Nat, total : Nat, other : Nat]
      BY <1>7, <3>1, Zenon DEF TypeOK, WAdd, AddDelta
    <3>3. QED
      BY <1>7, <3>1, <3>2, Zenon DEF TypeOK, WAdd, AddDelta, durable, history
  <2>3. Held'
    BY <1>7, <2>1, Zenon DEF TypeOK, WAdd, AddDelta, memory, durable, history, Held,
       WorkerGone, DeltaHeld, Past
  <2>4. TotalsConserved'
    BY <1>7, <2>1 DEF TypeOK, WAdd, AddDelta, memory, durable, history, Held,
       WorkerGone, Past, TotalsConserved, Doubled
  <2>5. QED
    BY <2>2, <2>3, <2>4
<1>8. CASE WRead
  <2>1. /\ worker.pc = "read" /\ worker'.pc = "persist"
        /\ worker'.dir = worker.dir /\ worker'.delta = worker.delta
    BY <1>8, Zenon DEF TypeOK, WRead, Loaded, Other
  <2>2. TypeOK'
    <3>1. Loaded(Other(worker.dir)) \in Nat
      BY OtherDir DEF TypeOK, Loaded
    <3>2. QED
      BY <1>8, <3>1, Zenon DEF TypeOK, WRead, memory, durable, history
  <2>3. Held'
    BY <1>8, <2>1, Zenon DEF TypeOK, WRead, Loaded, Other, memory, durable, history, Held,
       WorkerGone, DeltaHeld, Past
  <2>4. TotalsConserved'
    BY <1>8, <2>1, Zenon DEF TypeOK, WRead, Loaded, Other, memory, durable, history, Held,
       WorkerGone, Past, TotalsConserved, Doubled
  <2>5. QED
    BY <2>2, <2>3, <2>4
<1>9. CASE WPersist
  <2>1. /\ worker.pc = "persist" /\ worker'.pc = "sub"
        /\ worker'.dir = worker.dir /\ worker'.delta = worker.delta
    BY <1>9, Zenon DEF TypeOK, WPersist
  <2>2. TypeOK'
    <3>1. kv' \in [Dir -> Nat] /\ hourly' \in [Dir -> Nat]
      BY <1>9 DEF TypeOK, WPersist, durable
    <3>2. worker' \in [pc : {"select", "load", "add", "read", "persist",
                             "sub", "reset", "done"},
                       dir : Dir, delta : Nat, total : Nat, other : Nat]
      BY <1>9, Zenon DEF TypeOK, WPersist
    <3>3. QED
      BY <1>9, <3>1, <3>2, Zenon DEF TypeOK, WPersist, memory
  <2>3. Held'
    BY <1>9, <2>1, Zenon DEF TypeOK, WPersist, memory, durable, history, Held,
       WorkerGone, DeltaHeld, Past
  <2>4. TotalsConserved'
    BY <1>9, <2>1, Zenon DEF TypeOK, WPersist, memory, durable, history, Held,
       WorkerGone, Past, TotalsConserved, Doubled
  <2>5. QED
    BY <2>2, <2>3, <2>4
<1>10. CASE WSub
  <2>1. /\ worker.pc = "sub" /\ worker'.pc = "reset"
    BY <1>10, Zenon DEF TypeOK, WSub, SetNotSync
  <2>2. /\ worker.delta \in Nat /\ worker.dir \in Dir
        /\ worker.delta <= notSync[worker.dir]
    BY <2>1, Zenon DEF TypeOK, Held, DeltaHeld
  <2>3. /\ notSync' \in [Dir -> Nat]
        /\ \A d \in Dir : notSync'[d] = notSync[d] -
              (IF d = worker.dir THEN worker.delta ELSE 0)
    BY <1>10, <2>2 DEF TypeOK, WSub, SetNotSync
  <2>4. TypeOK'
    BY <1>10, <2>3, Zenon DEF TypeOK, WSub, SetNotSync, durable, history
  <2>5. closer.pc \notin Past
    BY <2>1, Zenon DEF Held, WorkerGone
  <2>6. Held'
    BY <1>10, <2>1, <2>5, Zenon DEF WSub, SetNotSync, Held, WorkerGone, DeltaHeld
  <2>7. TotalsConserved'
    <3> SUFFICES ASSUME NEW d \in Dir
        PROVE  synced'[d] + notSync'[d] = running'[d] + Doubled(d)'
      BY Zenon DEF TotalsConserved
    <3>1. Doubled(d) = IF d = worker.dir THEN worker.delta ELSE 0
      BY <2>1, <2>2, <2>5 DEF Doubled, Past
    <3>2. Doubled(d)' = 0
      BY <1>10, <2>1, <2>5 DEF Doubled, Past, WSub, SetNotSync
    <3>3. synced[d] + notSync[d] = running[d] + Doubled(d)
      BY Zenon DEF TotalsConserved
    <3>4. QED
      BY <1>10, <2>2, <2>3, <3>1, <3>2, <3>3
         DEF TypeOK, WSub, SetNotSync, history
  <2>8. QED
    BY <2>4, <2>6, <2>7
<1>11. CASE WReset
  <2>1. worker.pc = "reset" /\ worker'.pc = "select"
    BY <1>11, Zenon DEF TypeOK, WReset, Parked
  <2>2. TypeOK'
    BY <1>11, StartTypes DEF TypeOK, WReset, durable, history
  <2>3. Held'
    BY <1>11, <2>1, Zenon DEF TypeOK, WReset, Parked, memory, durable, history, Held,
       WorkerGone, DeltaHeld, Past
  <2>4. TotalsConserved'
    BY <1>11, <2>1, Zenon DEF TypeOK, WReset, Parked, memory, durable, history, Held,
       WorkerGone, Past, TotalsConserved, Doubled
  <2>5. QED
    BY <2>2, <2>3, <2>4
<1>12. CASE Cancel
  <2>1. closer.pc = "open" /\ closer'.pc = "wait"
    BY <1>12, Zenon DEF TypeOK, Cancel
  <2>2. TypeOK'
    BY <1>12, <2>1, Zenon DEF TypeOK, Cancel, memory, durable, history
  <2>3. Held'
    BY <1>12, <2>1, Zenon DEF TypeOK, Cancel, memory, durable, history, Held,
       WorkerGone, DeltaHeld, Past
  <2>4. TotalsConserved'
    BY <1>12, <2>1, Zenon DEF TypeOK, Cancel, memory, durable, history, Held,
       WorkerGone, Past, TotalsConserved, Doubled
  <2>5. QED
    BY <2>2, <2>3, <2>4
<1>13. CASE Take
  <2>1. /\ closer.pc = "wait" /\ closer'.pc = "persist"
        /\ closer'.delta = notSync /\ worker.pc = "done"
    BY <1>13, Zenon DEF TypeOK, Take, TakeDeltas
  <2>2. TypeOK'
    BY <1>13, <2>1 DEF TypeOK, Take, TakeDeltas, memory, durable, history
  <2>3. Held'
    BY <1>13, <2>1 DEF TypeOK, Take, TakeDeltas, memory, durable, history, Held,
       WorkerGone, DeltaHeld, Past
  <2>4. TotalsConserved'
    BY <1>13, <2>1 DEF TypeOK, Take, TakeDeltas, memory, durable, history, Held,
       WorkerGone, Past, TotalsConserved, Doubled
  <2>5. QED
    BY <2>2, <2>3, <2>4
<1>14. CASE Save
  <2>1. /\ closer.pc = "persist" /\ closer'.pc \in {"saved", "failed"}
        /\ closer'.delta = closer.delta
    BY <1>14, Zenon DEF TypeOK, Save, SaveTotals
  <2>2. TypeOK'
    <3>1. kv' \in [Dir -> Nat] /\ hourly' \in [Dir -> Nat]
      BY <1>14 DEF TypeOK, Save, SaveTotals, durable
    <3>2. QED
      BY <1>14, <3>1, Zenon DEF TypeOK, Save, SaveTotals, memory
  <2>3. Held'
    BY <1>14, <2>1, Zenon DEF TypeOK, Save, SaveTotals, memory, durable, history, Held,
       WorkerGone, DeltaHeld, Past
  <2>4. TotalsConserved'
    BY <1>14, <2>1, Zenon DEF TypeOK, Save, SaveTotals, memory, durable, history, Held,
       WorkerGone, Past, TotalsConserved, Doubled
  <2>5. QED
    BY <2>2, <2>3, <2>4
<1>15. ASSUME NEW loadOK \in BOOLEAN, Restart(loadOK) PROVE Counting'
  <2>1. Zero \in [Dir -> Nat] /\ last' \in [Dir -> Nat]
    BY <1>15, Zenon DEF Restart, Starting, TypeOK, Zero
  <2>2. worker'.pc = "select" /\ closer'.pc = "open"
    BY <1>15, Zenon DEF Restart, Starting, Parked, Open
  <2>3. TypeOK'
    BY <1>15, <2>1 DEF Restart, Starting, TypeOK, Idle, Parked, Open, Dir, durable
  <2>4. Held'
    BY <2>2, Zenon DEF Held, WorkerGone, DeltaHeld, Past
  <2>5. TotalsConserved'
    BY <1>15, <2>2 DEF Restart, Starting, TotalsConserved, Doubled, Zero
  <2>6. QED
    BY <2>3, <2>4, <2>5, Zenon
<1>16. CASE UNCHANGED vars
  BY <1>16 DEF vars, memory, durable, history, TypeOK, Held, WorkerGone,
     DeltaHeld, TotalsConserved, Doubled
<1>17. QED
  BY <1>1, <1>2, <1>3, <1>4, <1>5, <1>6, <1>7, <1>8, <1>9, <1>10, <1>11, <1>12, <1>13, <1>14, <1>15, <1>16, Zenon
     DEF Next, AdderStep, WorkerStep, CloseStep

\* The counters keep their types and account for every byte reported, for
\* every interleaving of additions, syncs and Close.
THEOREM Conservation == Spec => [](TypeOK /\ TotalsConserved)
<1>1. Spec => []Counting
  BY CountingInit, CountingNext, PTL DEF Spec
<1>2. Counting => TypeOK /\ TotalsConserved
  BY Zenon DEF Counting
<1>3. QED
  BY <1>1, <1>2, PTL
-----------------------------------------------------------------------------
(* What is saved. *)

\* The bytes that a transaction under way adds to traffic_hourly.
Pending(d) ==
    (IF worker.pc \in {"read", "persist"} /\ worker.dir = d
     THEN worker.delta ELSE 0)
    + (IF closer.pc = "persist" THEN closer.delta[d] ELSE 0)

\* Neither the database nor this process counts a byte that was not reported.
Real(d) == last[d] + running[d] <= real[d] /\ kv[d] <= real[d]

\* The total a sync is going to save is the synced one, and what it has read
\* of the other direction lies between the synced bytes and all bytes.
Reads(d) ==
    /\ worker.pc \in {"read", "persist"} /\ worker.dir = d =>
           worker.total = last[d] + synced[d]
    /\ worker.pc = "persist" /\ worker.dir # d =>
           last[d] + synced[d] <= worker.other /\ worker.other <= last[d] + running[d]

\* Close saves at least what had been reported when it began.
Closes(d) ==
    /\ closer.pc = "wait" => atCancel[d] <= running[d]
    /\ closer.pc \in {"persist", "saved"} => atCancel[d] <= synced[d]
    /\ closer.pc = "saved" => kv[d] = last[d] + synced[d]

\* No total that is going to be saved is behind the one in the database.
NotBehind(d) ==
    /\ kv[d] <= last[d] + running[d]
    /\ worker.pc = "add" /\ worker.dir = d => kv[d] <= last[d] + synced[d] + worker.delta
    /\ worker.pc \in {"read", "persist"} /\ worker.dir = d => kv[d] <= last[d] + synced[d]
    /\ worker.pc = "persist" /\ worker.dir # d => kv[d] <= worker.other
    /\ closer.pc = "persist" => kv[d] <= last[d] + synced[d]

\* The hour rows hold what was synced, less what a failed save has lost.
Hours(d) ==
    /\ hourly[d] <= kv[d]
    /\ hourly[d] + Pending(d) <= last[d] + synced[d]
    /\ ~lost => hourly[d] + Pending(d) = last[d] + synced[d]

Row(d) ==
    /\ Real(d) /\ Reads(d) /\ Closes(d)
    /\ loadFailed \/ (NotBehind(d) /\ Hours(d))
Saving == \A d \in Dir : Row(d)

\* What Counting says of direction d.
Counted(d) ==
    /\ last[d] \in Nat /\ synced[d] \in Nat /\ notSync[d] \in Nat
    /\ kv[d] \in Nat /\ hourly[d] \in Nat /\ running[d] \in Nat
    /\ real[d] \in Nat /\ atCancel[d] \in Nat
    /\ closer.delta[d] \in Nat
    /\ worker.delta \in Nat /\ worker.total \in Nat /\ worker.other \in Nat
    /\ worker.dir \in Dir
    /\ synced[d] + notSync[d] = running[d] + Doubled(d)
    /\ closer.pc \in Past => worker.pc = "done" /\ closer.delta[d] <= notSync[d]
    /\ worker.pc \in {"add", "read", "persist", "sub"} /\ worker.dir = d =>
           worker.delta <= notSync[d]

LEMMA CountedRows == ASSUME Counting, NEW d \in Dir PROVE Counted(d)
<1>1. /\ synced[d] + notSync[d] = running[d] + Doubled(d)
      /\ closer.pc \in Past => worker.pc = "done" /\ closer.delta[d] <= notSync[d]
      /\ worker.pc \in {"add", "read", "persist", "sub"} /\ worker.dir = d =>
             worker.delta <= notSync[d]
  BY Zenon DEF Counting, Held, WorkerGone, DeltaHeld, TotalsConserved
<1>2. QED
  BY <1>1, Zenon DEF Counting, TypeOK, Counted

LEMMA SavingInit == Init => Saving
  BY DEF Init, Saving, Row, Real, Reads, Closes, NotBehind, Hours, Pending,
     Zero, Parked, Open

\* A step that touches neither the totals nor Close, nor what the worker is
\* going to save, keeps a row.
LEMMA RowKept ==
    ASSUME NEW d \in Dir, Row(d),
           UNCHANGED <<last, synced, closer, durable, history>>,
           \/ worker' = worker
           \/ worker'.pc \notin {"add", "read", "persist"}
              /\ worker.pc \notin {"read", "persist"}
    PROVE  Row(d)'
  BY DEF Row, Real, Reads, Closes, NotBehind, Hours, Pending, durable, history

LEMMA SavingNext == Counting /\ Saving /\ [Next]_vars => Saving'
<1> SUFFICES ASSUME Counting, Saving, [Next]_vars, NEW d \in Dir PROVE Row(d)'
  BY Zenon DEF Saving
<1> USE TotalCacheConstants
<1>0. Row(d) /\ Counted(d)
  BY CountedRows, Zenon DEF Saving
<1>1. ASSUME NEW a \in Adders, NEW e \in Dir, NEW n \in Chunks, Add(a, e, n)
      PROVE  Row(d)'
  <2>1. /\ n \in Nat
        /\ running'[d] = running[d] + (IF e = d THEN n ELSE 0)
        /\ real'[d] = real[d] + (IF e = d THEN n ELSE 0)
    BY <1>1 DEF Add, Counting, TypeOK
  <2>2. QED
    BY <1>0, <1>1, <2>1 DEF Add, Counted, Row, Real, Reads, Closes, NotBehind,
       Hours, Pending, durable
<1>2. ASSUME NEW a \in Adders, Check(a) \/ Send(a) \/ Mark(a) PROVE Row(d)'
  <2>1. UNCHANGED <<last, synced, closer, durable, history>>
    BY <1>2, Zenon DEF Check, Send, Mark, memory
  <2>2. \/ worker' = worker
        \/ worker'.pc = "load" /\ worker.pc = "select"
    BY <1>2, Zenon DEF Check, Send, Mark, Counting, TypeOK
  <2>3. QED
    BY <1>0, <2>1, <2>2, RowKept, Zenon
<1>3. CASE WExit
  BY <1>0, <1>3, RowKept, Zenon DEF WExit, Counting, TypeOK, memory
<1>4. CASE WLoad
  <2>1. /\ worker.pc = "load" /\ worker'.pc = "add"
        /\ worker'.dir = worker.dir /\ worker'.delta = notSync[worker.dir]
    BY <1>4, Zenon DEF WLoad, Counting, TypeOK
  <2>2. UNCHANGED <<memory, closer, durable, history>>
    BY <1>4, Zenon DEF WLoad
  <2>3. Doubled(d) = 0
    BY <1>0, <2>1 DEF Doubled, Counted, Past
  <2>4. QED
    BY <1>0, <2>1, <2>2, <2>3 DEF Counted, Row, Real, Reads, Closes, NotBehind,
       Hours, Pending, memory, durable, history
<1>5. CASE WAdd
  <2>1. /\ worker.pc = "add" /\ worker'.pc = "read"
        /\ worker'.dir = worker.dir /\ worker'.delta = worker.delta
        /\ worker'.total = last[worker.dir] + synced[worker.dir] + worker.delta
        /\ synced'[d] = synced[d] + (IF worker.dir = d THEN worker.delta ELSE 0)
    BY <1>0, <1>5 DEF WAdd, AddDelta, Counting, TypeOK, Counted
  <2>2. UNCHANGED <<last, notSync, closer, durable, history>>
    BY <1>5, Zenon DEF WAdd, AddDelta
  <2>3. closer.pc \notin Past
    BY <1>0, <2>1, Zenon DEF Counted
  <2>4. QED
    BY <1>0, <2>1, <2>2, <2>3 DEF Counted, Row, Real, Reads, Closes, NotBehind,
       Hours, Pending, Past, durable, history
<1>6. CASE WRead
  <2>1. /\ worker.pc = "read" /\ worker'.pc = "persist"
        /\ worker'.dir = worker.dir /\ worker'.delta = worker.delta
        /\ worker'.total = worker.total
        /\ worker'.other = Loaded(Other(worker.dir))
    BY <1>6, Zenon DEF WRead, Counting, TypeOK
  <2>2. UNCHANGED <<memory, closer, durable, history>>
    BY <1>6, Zenon DEF WRead
  <2>3. worker.dir # d => worker'.other = last[d] + running[d]
    <3>1. ASSUME worker.dir # d PROVE worker'.other = last[d] + running[d]
      <4>1. Other(worker.dir) = d
        BY <1>0, <3>1, Zenon DEF Counted, Other, Dir
      <4>2. closer.pc \notin Past
        BY <1>0, <2>1, ZenonT(40) DEF Counted
      <4>3. Doubled(d) = 0
        BY <2>1, <3>1, <4>2 DEF Doubled, Past
      <4>4. synced[d] + notSync[d] = running[d]
        BY <1>0, <4>3 DEF Counted
      <4>5. worker'.other = last[d] + synced[d] + notSync[d]
        BY <2>1, <4>1, Zenon DEF Loaded
      <4>6. QED
        BY <1>0, <4>4, <4>5 DEF Counted
    <3>2. QED
      BY <3>1, Zenon
  <2>4. worker.dir # d => last[d] + synced[d] <= last[d] + running[d]
    BY <1>0, <2>1 DEF Counted, Doubled, Past
  <2>5. Real(d)' /\ Reads(d)' /\ Closes(d)'
    <3>1. last[d] + running[d] \in Nat
      BY <1>0 DEF Counted
    <3>2. QED
      BY <1>0, <2>1, <2>2, <2>3, <2>4, <3>1 DEF Row, Real, Reads, Closes, memory,
         durable, history
  <2>6. Pending(d)' = Pending(d)
    BY <2>1, <2>2, Zenon DEF Pending
  <2>7. loadFailed' \/ (NotBehind(d)' /\ Hours(d)')
    <3>1. NotBehind(d) => NotBehind(d)'
      BY <2>1, <2>2, <2>3, Zenon DEF NotBehind, memory, durable, history
    <3>2. Hours(d) => Hours(d)'
      BY <2>2, <2>6, Zenon DEF Hours, memory, durable, history
    <3>3. QED
      BY <1>0, <2>2, <3>1, <3>2, Zenon DEF Row, history
  <2>8. QED
    BY <2>5, <2>7, Zenon DEF Row
<1>7. CASE WPersist
  <2>1. /\ worker.pc = "persist" /\ worker'.pc = "sub"
        /\ worker'.dir = worker.dir /\ worker'.delta = worker.delta
    BY <1>7, Zenon DEF WPersist, Counting, TypeOK
  <2>2. UNCHANGED <<memory, closer, running, real, atCancel, loadFailed>>
    BY <1>7, Zenon DEF WPersist
  <2>3. closer.pc \notin Past
    BY <1>0, <2>1, Zenon DEF Counted
  <2>4. synced[d] <= running[d]
    BY <1>0, <2>1, <2>3 DEF Counted, Doubled, Past
  <2>5. \/ /\ kv'[d] = (IF d = worker.dir THEN worker.total ELSE worker.other)
           /\ hourly'[d] = hourly[d] + (IF d = worker.dir THEN worker.delta ELSE 0)
           /\ lost' = lost
        \/ lost' /\ kv' = kv /\ hourly' = hourly
    BY <1>0, <1>7 DEF WPersist, Counting, TypeOK, Counted, durable
  <2>6. QED
    BY <1>0, <2>1, <2>2, <2>3, <2>4, <2>5 DEF Counted, Row, Real, Reads, Closes,
       NotBehind, Hours, Pending, Past, memory
<1>8. CASE WSub \/ WReset
  <2>1. UNCHANGED <<last, synced, closer, durable, history>>
    BY <1>8, Zenon DEF WSub, SetNotSync, WReset
  <2>2. worker.pc \in {"sub", "reset"} /\ worker'.pc \in {"reset", "select"}
    <3>1. CASE WSub
      BY <3>1, Zenon DEF WSub, SetNotSync, Counting, TypeOK
    <3>2. CASE WReset
      BY <3>2, Zenon DEF WReset, Parked
    <3>3. QED
      BY <1>8, <3>1, <3>2, Zenon
  <2>3. QED
    BY <1>0, <2>1, <2>2, RowKept, Zenon
<1>9. CASE Cancel
  <2>1. closer.pc = "open" /\ closer'.pc = "wait" /\ atCancel' = running
    BY <1>9, Zenon DEF Cancel, Counting, TypeOK
  <2>2. UNCHANGED <<memory, worker, durable, running, real, lost, loadFailed>>
    BY <1>9, Zenon DEF Cancel
  <2>3. QED
    BY <1>0, <2>1, <2>2 DEF Counted, Row, Real, Reads, Closes, NotBehind, Hours,
       Pending, memory, durable
<1>10. CASE Take
  <2>1. /\ closer.pc = "wait" /\ worker.pc = "done" /\ closer'.pc = "persist"
        /\ closer'.delta[d] = notSync[d]
        /\ synced'[d] = synced[d] + notSync[d]
    BY <1>10, Zenon DEF Take, TakeDeltas, Counting, TypeOK
  <2>2. UNCHANGED <<last, notSync, worker, durable, history>>
    BY <1>10, Zenon DEF Take, TakeDeltas
  <2>3. Doubled(d) = 0
    BY <2>1 DEF Doubled
  <2>4. QED
    BY <1>0, <2>1, <2>2, <2>3 DEF Counted, Row, Real, Reads, Closes, NotBehind,
       Hours, Pending, durable, history
<1>11. CASE Save
  <2>1. closer.pc = "persist" /\ worker.pc = "done" /\ Doubled(d) = closer.delta[d]
    BY <1>0, <1>11 DEF Save, SaveTotals, Counted, Past, Doubled
  <2>2. UNCHANGED <<memory, worker, running, real, atCancel, loadFailed>>
    BY <1>11, Zenon DEF Save, SaveTotals
  <2>3. Pending(d) = closer.delta[d]
    BY <1>0, <2>1 DEF Counted, Pending
  <2>4. ASSUME kv'[d] = last[d] + synced[d], hourly'[d] = hourly[d] + closer.delta[d],
               closer'.pc = "saved", lost' = lost
        PROVE  Row(d)'
    <3>1. Pending(d)' = 0
      BY <2>1, <2>2, <2>4 DEF Pending
    <3>2. synced[d] <= running[d]
      BY <1>0, <2>1 DEF Counted, Past
    <3>3. Real(d)' /\ Reads(d)' /\ Closes(d)'
      BY <1>0, <2>1, <2>2, <2>4, <3>2 DEF Counted, Row, Real, Reads, Closes, memory
    <3>4. NotBehind(d)'
      BY <1>0, <2>1, <2>2, <2>4, <3>2 DEF Counted, NotBehind, memory
    <3>5. Hours(d) => Hours(d)'
      BY <1>0, <2>2, <2>3, <2>4, <3>1 DEF Counted, Hours, memory
    <3>6. QED
      BY <1>0, <2>2, <3>3, <3>4, <3>5, Zenon DEF Row
  <2>5. ASSUME kv' = kv, hourly' = hourly, closer'.pc = "failed", lost' PROVE Row(d)'
    <3>1. Pending(d)' = 0
      BY <2>1, <2>2, <2>5 DEF Pending
    <3>2. Real(d)' /\ Reads(d)' /\ Closes(d)'
      BY <1>0, <2>1, <2>2, <2>5, Zenon DEF Row, Real, Reads, Closes, memory
    <3>3. NotBehind(d) => NotBehind(d)'
      BY <2>1, <2>2, <2>5, Zenon DEF NotBehind, memory
    <3>4. Hours(d) => Hours(d)'
      BY <1>0, <2>2, <2>3, <2>5, <3>1 DEF Counted, Hours, memory
    <3>5. QED
      BY <1>0, <2>2, <3>2, <3>3, <3>4, Zenon DEF Row
  <2>6. \/ /\ kv'[d] = last[d] + synced[d] /\ hourly'[d] = hourly[d] + closer.delta[d]
           /\ closer'.pc = "saved" /\ lost' = lost
        \/ kv' = kv /\ hourly' = hourly /\ closer'.pc = "failed" /\ lost'
    BY <1>11 DEF Save, SaveTotals, Counting, TypeOK, durable
  <2>7. QED
    BY <2>4, <2>5, <2>6, Zenon
<1>12. ASSUME NEW loadOK \in BOOLEAN, Restart(loadOK) PROVE Row(d)'
  <2>1. /\ last'[d] = (IF loadOK THEN kv[d] ELSE 0)
        /\ synced'[d] = 0 /\ running'[d] = 0 /\ atCancel'[d] = 0
        /\ worker'.pc = "select" /\ closer'.pc = "open"
        /\ kv' = kv /\ hourly' = hourly /\ real' = real
        /\ (lost' <=> lost \/ closer.pc # "saved")
        /\ (loadFailed' <=> loadFailed \/ ~loadOK)
    BY <1>12, ZenonT(40) DEF Restart, Starting, Zero, Parked, Open, durable
  <2>2. Pending(d)' = 0 /\ (closer.pc = "saved" => Pending(d) = 0)
    <3>1. closer.pc = "saved" => worker.pc = "done"
      BY <1>0, Zenon DEF Counted, Past
    <3>2. QED
      BY <2>1, <3>1 DEF Pending
  <2>3. Real(d)' /\ Reads(d)' /\ Closes(d)'
    <3>1. kv[d] \in Nat /\ real[d] \in Nat /\ kv[d] <= real[d]
      BY <1>0, Zenon DEF Counted, Row, Real
    <3>2. Real(d)'
      BY <2>1, <3>1 DEF Real
    <3>3. Reads(d)' /\ Closes(d)'
      BY <2>1, Zenon DEF Reads, Closes
    <3>4. QED
      BY <3>2, <3>3, Zenon
  <2>4. loadFailed' \/ (NotBehind(d)' /\ Hours(d)')
    <3> SUFFICES ASSUME ~loadFailed' PROVE NotBehind(d)' /\ Hours(d)'
      BY Zenon
    <3>1. loadOK /\ ~loadFailed
      BY <2>1, Zenon
    <3>2. last'[d] = kv[d] /\ NotBehind(d) /\ Hours(d) /\ Closes(d)
      BY <1>0, <2>1, <3>1, Zenon DEF Row
    <3>3. NotBehind(d)'
      BY <1>0, <2>1, <3>2 DEF Counted, NotBehind
    <3>4. QED
      BY <1>0, <2>1, <2>2, <3>2, <3>3 DEF Counted, Hours, Closes
  <2>5. QED
    BY <2>3, <2>4, Zenon DEF Row
<1>13. CASE UNCHANGED vars
  BY <1>0, <1>13, RowKept, Zenon DEF vars, memory
<1>14. QED
  BY <1>1, <1>2, <1>3, <1>4, <1>5, <1>6, <1>7, <1>8, <1>9, <1>10, <1>11, <1>12, <1>13, Zenon
     DEF Next, AdderStep, WorkerStep, CloseStep

LEMMA SavingHolds == Spec => [](Counting /\ Saving)
<1>1. Init => Counting /\ Saving
  BY CountingInit, SavingInit, Zenon
<1>2. Counting /\ Saving /\ [Next]_vars => (Counting /\ Saving)'
  BY CountingNext, SavingNext, Zenon
<1>3. QED
  BY <1>1, <1>2, PTL DEF Spec

\* Whatever is interrupted, killed or fails, the database never holds more
\* bytes than were reported, nor an hour row that is not in the total
\* (persistSQLiteTotal and newSQLiteTotalCache).
THEOREM SavedIsReal == Spec => []NeverOverCounted
<1>1. Saving => NeverOverCounted
  BY Zenon DEF Saving, Row, Real, Hours, NeverOverCounted
<1>2. QED
  BY <1>1, SavingHolds, PTL

\* A Close that reports success has made every byte reported before it
\* durable, and the hour rows add up if nothing was lost on the way.
THEOREM CleanClose == Spec => []CloseSavesAll
<1>1. Counting /\ Saving => CloseSavesAll
  <2> SUFFICES ASSUME Counting, Saving, closer.pc = "saved"
      PROVE  /\ \A d \in Dir : kv[d] >= last[d] + atCancel[d]
             /\ lost \/ loadFailed \/ hourly = kv
    BY Zenon DEF CloseSavesAll
  <2>1. ASSUME NEW d \in Dir
        PROVE  /\ kv[d] >= last[d] + atCancel[d]
               /\ lost \/ loadFailed \/ hourly[d] = kv[d]
    <3>1. Row(d) /\ Counted(d)
      BY CountedRows, Zenon DEF Saving
    <3>2. worker.pc = "done" /\ Pending(d) = 0
      BY <3>1 DEF Counted, Past, Pending
    <3>3. QED
      BY <3>1, <3>2 DEF Row, Closes, Hours, Counted
  <2>2. hourly \in [Dir -> Nat] /\ kv \in [Dir -> Nat]
    BY Zenon DEF Counting, TypeOK
  <2>3. QED
    BY <2>1, <2>2
<1>2. QED
  BY <1>1, SavingHolds, PTL

\* No save, of either direction, by a sync or by Close, writes a total that is
\* smaller than the one in the database.
THEOREM SavedGrows == Spec => TotalNeverGoesBack
<1>1. Counting /\ Saving /\ [Next]_vars =>
          [loadFailed \/ \A d \in Dir : kv'[d] >= kv[d]]_vars
  <2> SUFFICES ASSUME Counting, Saving, Next, ~loadFailed, NEW d \in Dir
      PROVE  kv'[d] >= kv[d]
    BY Zenon
  <2>0. Row(d) /\ Counted(d)
    BY CountedRows, Zenon DEF Saving
  <2>1. CASE WPersist
    BY <2>0, <2>1 DEF WPersist, Row, Reads, NotBehind, Counted, durable
  <2>2. CASE Save
    BY <2>0, <2>2 DEF Save, SaveTotals, Row, NotBehind, Counted, durable
  <2>3. CASE kv' = kv
    BY <2>0, <2>3 DEF Counted
  <2>4. QED
    BY <2>1, <2>2, <2>3, Zenon DEF Next, AdderStep, WorkerStep, CloseStep, Add, Check, Send,
       Mark, WExit, WLoad, WAdd, AddDelta, WRead, WSub, SetNotSync, WReset, Cancel,
       Take, TakeDeltas, Restart, Starting, durable
<1>2. QED
  BY <1>1, SavingHolds, PTL DEF Spec, TotalNeverGoesBack
=============================================================================
