---------------------------- MODULE RuntimeProofs ---------------------------
(* Proofs about SetDo and Telemetry as MCRuntime drives them: for any number *)
(* of nodes in a set, and for any number of connections and bytes.           *)
EXTENDS MCRuntime, TLAPS

USE SMTT(30)

-----------------------------------------------------------------------------
(* A dial over a set of nodes: SetDo, driven by the steps of MCRuntime.      *)

LoopType == [pc : {"next", "timer", "done"}, left : SUBSET Nodes, first : Nodes \cup {None}]

SetTypes ==
    /\ parent \in BOOLEAN /\ ctx \in BOOLEAN /\ caller \in Nodes \cup {"wait", "error"}
    /\ loop \in LoopType
    /\ task \in [Nodes -> {"none", "dialing", "offer", "failed", "won", "returned", "closed"}]

\* Only one connection is given away, to the caller; what the loop has passed
\* was tried; a connection is closed and the caller gives up only after the
\* context has ended; and a context that ended with nothing given, and not
\* because of the caller's, has seen every node fail.
SetKept ==
    /\ \A n \in Nodes : task[n] \in {"won", "returned"} => caller = n
    /\ \A n \in Nodes : n \notin loop.left => task[n] # "none"
    /\ \A n \in Nodes : task[n] = "closed" => ctx
    /\ caller = "error" => ctx
    /\ ctx /\ ~ parent /\ caller \in {"wait", "error"} => \A n \in Nodes : task[n] = "failed"

SetInv == SetTypes /\ SetKept

LEMMA SetStarts == Set!Init => SetInv
<1> SUFFICES ASSUME Set!Init PROVE SetInv
  OBVIOUS
<1>1. loop \in LoopType /\ loop.left = Nodes
  BY Zenon DEF Set!Init, LoopType
<1>2. parent = FALSE /\ ctx = FALSE /\ caller = "wait" /\ task = [n \in Nodes |-> "none"]
  BY DEF Set!Init
<1>3. SetTypes
  BY <1>1, <1>2, Zenon DEF SetTypes
<1>4. SetKept
  BY <1>1, <1>2, RuntimeConstants DEF SetKept
<1> QED BY <1>3, <1>4 DEF SetInv

\* What the steps of the loop do to its record.
LEMMA LoopTakes ==
    ASSUME SetTypes, NEW n \in Nodes, Set!NoDialer(n) \/ Set!Try(n)
    PROVE  n \in loop.left /\ loop' \in LoopType /\ loop'.left = loop.left \ {n}
<1>1. n \in loop.left
  BY Zenon DEF Set!NoDialer, Set!Try, Set!Turn
<1>2. \/ loop' = [loop EXCEPT !.left = loop.left \ {n}]
      \/ loop' = [loop EXCEPT !.left = loop.left \ {n}, !.pc = "timer"]
  BY Zenon DEF Set!NoDialer, Set!Try
<1>3. loop \in LoopType
  BY Zenon DEF SetTypes
<1> QED BY <1>1, <1>2, <1>3, Zenon DEF LoopType

LEMMA LoopGoesOn ==
    ASSUME SetTypes, Set!Timer \/ Set!LoopDone \/ Set!Cancel
    PROVE  loop' \in LoopType /\ loop'.left = loop.left
<1>1. \/ loop' = [loop EXCEPT !.pc = "next"]
      \/ loop' = [loop EXCEPT !.pc = "done"]
  BY Zenon DEF Set!Timer, Set!LoopDone, Set!Cancel, Set!Cancelling
<1>2. loop \in LoopType
  BY Zenon DEF SetTypes
<1> QED BY <1>1, <1>2, Zenon DEF LoopType

LEMMA SetNext == SetInv /\ [Set!Next]_set => SetInv'
<1> SUFFICES ASSUME SetInv, [Set!Next]_set PROVE SetInv'
  OBVIOUS
<1> USE RuntimeConstants
<1>1. ASSUME NEW n \in Nodes, Set!NoDialer(n) \/ Set!Try(n) PROVE SetInv'
  <2>1. n \in loop.left /\ loop' \in LoopType /\ loop'.left = loop.left \ {n}
    BY <1>1, LoopTakes, Zenon DEF SetInv
  <2>2. UNCHANGED <<parent, ctx, caller>>
    BY <1>1 DEF Set!NoDialer, Set!Try
  <2>3. task[n] = "none" /\ \E to \in {"failed", "dialing"} : task' = [task EXCEPT ![n] = to]
    BY <1>1 DEF Set!NoDialer, Set!Try, Set!Become
  <2> QED BY <2>1, <2>2, <2>3 DEF SetInv, SetTypes, SetKept
<1>2. ASSUME NEW n \in Nodes, Set!Dialed(n) \/ Set!Fail(n) PROVE SetInv'
  BY <1>2 DEF Set!Dialed, Set!Fail, Set!Become, SetInv, SetTypes, SetKept
<1>3. ASSUME NEW n \in Nodes, Set!Deliver(n) PROVE SetInv'
  BY <1>3 DEF Set!Deliver, Set!Become, SetInv, SetTypes, SetKept
<1>4. ASSUME NEW n \in Nodes, Set!StoreIndex(n) \/ Set!CloseLate(n) PROVE SetInv'
  BY <1>4 DEF Set!StoreIndex, Set!CloseLate, Set!Become, SetInv, SetTypes, SetKept
<1>5. CASE Set!Timer \/ Set!LoopDone
  <2>1. loop' \in LoopType /\ loop'.left = loop.left
    BY <1>5, LoopGoesOn, Zenon DEF SetInv
  <2>2. UNCHANGED <<parent, ctx, caller, task>>
    BY <1>5 DEF Set!Timer, Set!LoopDone
  <2> QED BY <2>1, <2>2 DEF SetInv, SetTypes, SetKept
<1>6. CASE Set!Cancel
  <2>1. loop' \in LoopType /\ loop'.left = loop.left
    BY <1>6, LoopGoesOn, Zenon DEF SetInv
  <2>2. /\ UNCHANGED <<parent, caller, task>> /\ ctx' = TRUE /\ loop.left = {}
        /\ \A n \in Nodes : task[n] \notin {"dialing", "offer", "won"}
    BY <1>6 DEF Set!Cancel, Set!Cancelling, Set!Finished
  <2> QED BY <2>1, <2>2 DEF SetInv, SetTypes, SetKept
<1>7. CASE Set!ParentEnds
  BY <1>7 DEF Set!ParentEnds, SetInv, SetTypes, SetKept
<1>8. CASE Set!Error
  <2>1. caller = "wait" /\ ctx /\ caller' = "error" /\ UNCHANGED <<parent, ctx, loop, task>>
    BY <1>8, Zenon DEF Set!Error
  <2>2. SetTypes'
    BY <2>1, Zenon DEF SetInv, SetTypes
  <2>3. SetKept'
    BY <2>1 DEF SetInv, SetKept
  <2> QED BY <2>2, <2>3 DEF SetInv
<1>9. CASE Set!Return
  <2>1. caller # "wait" /\ ~ ctx /\ ctx' = TRUE /\ UNCHANGED <<parent, caller, loop, task>>
    BY <1>9, Zenon DEF Set!Return
  <2>2. SetTypes'
    BY <2>1, Zenon DEF SetInv, SetTypes
  <2>3. SetKept'
    BY <2>1 DEF SetInv, SetKept
  <2> QED BY <2>2, <2>3 DEF SetInv
<1>10. CASE UNCHANGED set
  BY <1>10 DEF set, SetInv, SetTypes, SetKept
<1> QED
  BY <1>1, <1>2, <1>3, <1>4, <1>5, <1>6, <1>7, <1>8, <1>9, <1>10, Zenon DEF Set!Next

LEMMA SetStays == MCSpec => [](part = "set" => SetInv)
<1>1. MCInit => (part = "set" => SetInv)
  BY SetStarts, Zenon DEF MCInit
<1>2. (part = "set" => SetInv) /\ [MCNext]_<<part, edits, vars, set, bytes>> => (part = "set" => SetInv)'
  <2> SUFFICES ASSUME part = "set" => SetInv, [MCNext]_<<part, edits, vars, set, bytes>>, part' = "set"
               PROVE  SetInv'
    BY Zenon
  <2>1. part = "set" /\ [Set!Next]_set
    BY DEF MCNext
  <2> QED BY <2>1, SetNext
<1> QED BY <1>1, <1>2, PTL DEF MCSpec

(* A dial through a set of nodes (setDo, node/set.go:160) gives every        *)
(* connection that was made to its caller or closes it, and reports an error *)
(* to a caller that still waits only when every node has failed: for any     *)
(* number of nodes, dials that end in any order, and a context that ends at  *)
(* any moment.                                                               *)
THEOREM SetKeepsConns == MCSpec => []SetLosesNothing
<1>1. ASSUME part = "set" => SetInv PROVE SetLosesNothing
  BY <1>1, RuntimeConstants
     DEF SetLosesNothing, SetInv, SetTypes, SetKept, Set!NoConnLost, Set!FailsOnlyIfAllFail,
         Set!Over, Set!Finished
<1> QED BY <1>1, SetStays, PTL

-----------------------------------------------------------------------------
(* The bytes of connections: Telemetry, driven by the steps of MCRuntime.    *)

Byte == Conns \X (1..MaxBytes)
FlushType == [pc : {"idle", "lock", "swap", "delete"}, todo : SUBSET Conns, delta : SUBSET Byte]

ByteTypes ==
    /\ counter \in [Conns -> SUBSET Byte] /\ real \in [Conns -> 0..MaxBytes]
    /\ counters \subseteq Conns
    /\ conn \in [Conns -> {"none", "open", "removing", "removed"}]
    /\ flush \in [Bytes!Flushers -> FlushType]
    /\ row \subseteq Byte /\ failed \subseteq Byte

\* A flush holds bytes only between its lock and its transaction; that of a
\* removal has the one counter of its connection to empty.
FlushCourses ==
    /\ \A f \in Bytes!Flushers : flush[f].pc # "swap" => flush[f].delta = {}
    /\ \A c \in Conns :
         /\ flush[c].pc # "idle" => conn[c] = "removing"
         /\ flush[c].todo \subseteq {c}
         /\ flush[c].pc = "lock" => flush[c].todo = {c}
         /\ flush[c].pc = "delete" => flush[c].todo = {}

\* No two places count the same byte, only bytes that were carried are
\* counted, and each of those is.
OncePlaced ==
    \A b \in Byte :
        /\ \A c \in Conns : b \in counter[c] => b[1] = c /\ b \notin row \cup failed
        /\ \A f \in Bytes!Flushers : b \in flush[f].delta =>
             /\ b \notin row \cup failed
             /\ \A c \in Conns : b \notin counter[c]
             /\ \A g \in Bytes!Flushers : b \in flush[g].delta => g = f
        /\ ~ (b \in row /\ b \in failed)
        /\ b[2] <= real[b[1]] <=>
             \/ b \in row \cup failed
             \/ \E c \in Conns : b \in counter[c]
             \/ \E f \in Bytes!Flushers : b \in flush[f].delta

LeftEmpty == \A c \in Conns \ late : Bytes!Flushed(c) => counter[c] = {}

ByteInv == ByteTypes /\ FlushCourses /\ OncePlaced /\ LeftEmpty

\* The record of flush f becomes that with these fields.
Fl(f, pc, todo, delta) ==
    /\ flush' \in [Bytes!Flushers -> FlushType]
    /\ flush'[f].pc = pc /\ flush'[f].todo = todo /\ flush'[f].delta = delta
    /\ \A g \in Bytes!Flushers \ {f} : flush'[g] = flush[g]

LEMMA FlPut ==
    ASSUME ByteTypes, NEW f \in Bytes!Flushers, NEW r \in FlushType,
           flush' = [flush EXCEPT ![f] = r]
    PROVE  Fl(f, r.pc, r.todo, r.delta)
<1>1. flush \in [Bytes!Flushers -> FlushType]
  BY Zenon DEF ByteTypes
<1>2. /\ flush' \in [Bytes!Flushers -> FlushType] /\ flush'[f] = r
      /\ \A g \in Bytes!Flushers \ {f} : flush'[g] = flush[g]
  BY <1>1, Zenon
<1> QED BY <1>2, Zenon DEF Fl

LEMMA FlFields ==
    ASSUME ByteTypes, NEW f \in Bytes!Flushers
    PROVE  /\ flush[f] \in FlushType
           /\ flush[f].pc \in {"idle", "lock", "swap", "delete"}
           /\ flush[f].todo \in SUBSET Conns /\ flush[f].delta \in SUBSET Byte
BY Zenon DEF ByteTypes, FlushType

LEMMA WhoFlushes ==
    /\ Conns \subseteq Bytes!Flushers /\ {"timer", "close"} \subseteq Bytes!Flushers
    /\ \A c \in Conns : c # "timer" /\ c # "close"
BY RuntimeConstants DEF Bytes!Flushers

LEMMA BytesStart == Bytes!Init => ByteInv
<1> SUFFICES ASSUME Bytes!Init PROVE ByteInv
  OBVIOUS
<1> USE RuntimeConstants
<1>1. /\ flush \in [Bytes!Flushers -> FlushType]
      /\ \A f \in Bytes!Flushers :
           flush[f].pc = "idle" /\ flush[f].todo = {} /\ flush[f].delta = {}
  BY DEF Bytes!Init, Bytes!Idle, FlushType
<1>2. /\ counter = [c \in Conns |-> {}] /\ real = [c \in Conns |-> 0] /\ row = {} /\ failed = {}
      /\ counters = {} /\ conn = [c \in Conns |-> "none"]
  BY DEF Bytes!Init
<1>3. ByteTypes
  BY <1>1, <1>2 DEF ByteTypes
<1>4. FlushCourses
  BY <1>1, WhoFlushes DEF FlushCourses
<1>5. OncePlaced
  BY <1>1, <1>2 DEF OncePlaced, Byte
<1>6. LeftEmpty
  BY <1>2 DEF LeftEmpty
<1> QED BY <1>3, <1>4, <1>5, <1>6 DEF ByteInv

\* A step that moves no byte keeps each in its place.
LEMMA NothingMoves ==
    ASSUME ByteTypes, OncePlaced, UNCHANGED <<counter, real, row, failed>>,
           \A f \in Bytes!Flushers : flush'[f].delta = flush[f].delta
    PROVE  OncePlaced'
BY DEF OncePlaced

\* A flush begins, of the timer, of Close or of a removal.
LEMMA FlushBegins ==
    ASSUME ByteTypes, NEW f \in Bytes!Flushers, NEW todo \in SUBSET Conns, Bytes!Begin(f, todo)
    PROVE  flush[f].pc = "idle" /\ Fl(f, "lock", todo, {})
<1> DEFINE r == [pc |-> "lock", todo |-> todo, delta |-> {}]
<1>1. flush[f].pc = "idle" /\ flush' = [flush EXCEPT ![f] = r]
  BY Zenon DEF Bytes!Begin
<1>2. r \in FlushType /\ r.pc = "lock" /\ r.todo = todo /\ r.delta = {}
  BY Zenon DEF FlushType
<1>3. Fl(f, r.pc, r.todo, r.delta)
  BY <1>1, <1>2, FlPut, Zenon
<1> QED BY <1>1, <1>2, <1>3, Zenon

LEMMA ByteFlushBegins ==
    ASSUME ByteInv, Bytes!FlushTimer \/ Bytes!FlushClose
    PROVE  ByteInv'
<1>1. PICK f \in {"timer", "close"} : Bytes!Begin(f, counters)
  BY Zenon DEF Bytes!FlushTimer, Bytes!FlushClose
<1>2. UNCHANGED <<counter, counters, conn, row, real, failed, late>>
  BY DEF Bytes!FlushTimer, Bytes!FlushClose, Bytes!history
<1>3. f \in Bytes!Flushers /\ counters \in SUBSET Conns /\ \A c \in Conns : c # f
  BY WhoFlushes DEF ByteInv, ByteTypes
<1>4. flush[f].pc = "idle" /\ Fl(f, "lock", counters, {})
  BY <1>1, <1>3, FlushBegins, Zenon DEF ByteInv
<1>5. ByteTypes'
  BY <1>2, <1>4 DEF ByteInv, ByteTypes, Fl
<1>6. FlushCourses'
  BY <1>2, <1>3, <1>4, WhoFlushes DEF ByteInv, FlushCourses, Fl
<1>7. OncePlaced'
  <2>1. flush[f].delta = {}
    BY <1>3, <1>4, Zenon DEF ByteInv, FlushCourses
  <2>2. \A g \in Bytes!Flushers : flush'[g].delta = flush[g].delta
    BY <1>4, <2>1 DEF Fl
  <2> QED BY <1>2, <2>2, NothingMoves DEF ByteInv
<1>8. LeftEmpty'
  BY <1>2, <1>3, <1>4, WhoFlushes DEF ByteInv, LeftEmpty, Bytes!Flushed, Fl
<1> QED BY <1>5, <1>6, <1>7, <1>8 DEF ByteInv

LEMMA ByteRemove ==
    ASSUME ByteInv, NEW c \in Conns, Bytes!Remove(c)
    PROVE  ByteInv'
<1>1. Bytes!Begin(c, {c}) /\ conn[c] = "open" /\ conn' = [conn EXCEPT ![c] = "removing"]
  BY Zenon DEF Bytes!Remove, Bytes!Removing
<1>2. UNCHANGED <<counter, counters, row, real, failed, late>>
  BY DEF Bytes!Remove, Bytes!Removing, Bytes!history
<1>3. c \in Bytes!Flushers /\ {c} \in SUBSET Conns
  BY WhoFlushes
<1>4. flush[c].pc = "idle" /\ Fl(c, "lock", {c}, {})
  BY <1>1, <1>3, FlushBegins, Zenon DEF ByteInv
<1>5. ByteTypes'
  BY <1>1, <1>2, <1>4 DEF ByteInv, ByteTypes, Fl
<1>6. FlushCourses'
  BY <1>1, <1>2, <1>3, <1>4, WhoFlushes DEF ByteInv, ByteTypes, FlushCourses, Fl
<1>7. OncePlaced'
  <2>1. flush[c].delta = {}
    BY <1>3, <1>4, Zenon DEF ByteInv, FlushCourses
  <2>2. \A g \in Bytes!Flushers : flush'[g].delta = flush[g].delta
    BY <1>4, <2>1 DEF Fl
  <2> QED BY <1>2, <2>2, NothingMoves DEF ByteInv
<1>8. LeftEmpty'
  BY <1>1, <1>2, <1>3, <1>4, WhoFlushes DEF ByteInv, ByteTypes, LeftEmpty, Bytes!Flushed, Fl
<1> QED BY <1>5, <1>6, <1>7, <1>8 DEF ByteInv

LEMMA ByteLock ==
    ASSUME ByteInv, NEW f \in Bytes!Flushers, Bytes!Lock(f)
    PROVE  ByteInv'
<1> DEFINE r == [flush[f] EXCEPT !.pc = "swap"]
<1>1. flush[f].pc = "lock" /\ flush' = [flush EXCEPT ![f] = r]
  BY Zenon DEF Bytes!Lock
<1>2. UNCHANGED <<counter, counters, conn, row, real, failed, late>>
  BY DEF Bytes!Lock, Bytes!history
<1>3. r \in FlushType /\ r.pc = "swap" /\ r.todo = flush[f].todo /\ r.delta = flush[f].delta
  <2>1. flush[f] \in FlushType
    BY FlFields, Zenon DEF ByteInv
  <2> QED BY <2>1, Zenon DEF FlushType
<1>4. Fl(f, "swap", flush[f].todo, flush[f].delta)
  <2>1. Fl(f, r.pc, r.todo, r.delta)
    BY <1>1, <1>3, FlPut, Zenon DEF ByteInv
  <2> QED BY <1>3, <2>1, Zenon
<1> HIDE DEF r
<1>5. ByteTypes'
  BY <1>2, <1>4 DEF ByteInv, ByteTypes, Fl
<1>6. FlushCourses'
  BY <1>1, <1>2, <1>4, WhoFlushes DEF ByteInv, FlushCourses, Fl
<1>7. OncePlaced'
  <2>1. \A g \in Bytes!Flushers : flush'[g].delta = flush[g].delta
    BY <1>4 DEF Fl
  <2> QED BY <1>2, <2>1, NothingMoves DEF ByteInv
<1>8. LeftEmpty'
  BY <1>1, <1>2, <1>4, WhoFlushes DEF ByteInv, FlushCourses, LeftEmpty, Bytes!Flushed, Fl
<1> QED BY <1>5, <1>6, <1>7, <1>8 DEF ByteInv

LEMMA ByteSwap ==
    ASSUME ByteInv, NEW f \in Bytes!Flushers, NEW c \in Conns, Bytes!Swap(f, c)
    PROVE  ByteInv'
<1> DEFINE todo == flush[f].todo \ {c}
           delta == flush[f].delta \cup counter[c]
           r == [pc |-> "swap", todo |-> todo, delta |-> delta]
<1>1. /\ flush[f].pc = "swap" /\ c \in flush[f].todo /\ flush' = [flush EXCEPT ![f] = r]
  BY Zenon DEF Bytes!Swap, Bytes!Swapping
<1>2. UNCHANGED <<counters, conn, row, real, failed, late>> /\ counter' = [counter EXCEPT ![c] = {}]
  BY DEF Bytes!Swap, Bytes!Swapping, Bytes!history
<1>3. todo \in SUBSET Conns /\ delta \in SUBSET Byte
  BY FlFields DEF ByteInv, ByteTypes
<1>4. Fl(f, "swap", todo, delta)
  <2> HIDE DEF todo, delta
  <2>1. r \in FlushType /\ r.pc = "swap" /\ r.todo = todo /\ r.delta = delta
    BY <1>3, Zenon DEF FlushType
  <2>2. Fl(f, r.pc, r.todo, r.delta)
    BY <1>1, <2>1, FlPut, Zenon DEF ByteInv
  <2> QED BY <2>1, <2>2, Zenon
<1> HIDE DEF todo, delta, r
<1>5. ByteTypes'
  BY <1>2, <1>4 DEF ByteInv, ByteTypes, Fl
<1>6. FlushCourses'
  BY <1>1, <1>2, <1>4, WhoFlushes DEF ByteInv, FlushCourses, todo, Fl
<1>7. OncePlaced'
  BY <1>2, <1>4 DEF ByteInv, ByteTypes, OncePlaced, delta, Fl
<1>8. LeftEmpty'
  BY <1>1, <1>2, <1>4, WhoFlushes
     DEF ByteInv, ByteTypes, FlushCourses, LeftEmpty, Bytes!Flushed, todo, Fl
<1> QED BY <1>5, <1>6, <1>7, <1>8 DEF ByteInv

LEMMA BytePersist ==
    ASSUME ByteInv, NEW f \in Bytes!Flushers, Bytes!Persist(f)
    PROVE  ByteInv'
<1> DEFINE pc == IF f \in Conns THEN "delete" ELSE "idle"
           r == [Bytes!Idle EXCEPT !.pc = pc]
<1>1. flush[f].pc = "swap" /\ flush[f].todo = {} /\ flush' = [flush EXCEPT ![f] = r]
  BY Zenon DEF Bytes!Persist
<1>2. /\ UNCHANGED <<counter, counters, conn, real, late>>
      /\ \/ row' = row \cup flush[f].delta /\ failed' = failed
         \/ failed' = failed \cup flush[f].delta /\ row' = row
  BY DEF Bytes!Persist
<1>3. pc \in {"idle", "delete"} /\ (f \in Conns => pc = "delete") /\ flush[f].delta \subseteq Byte
  BY FlFields DEF ByteInv
<1>4. Fl(f, pc, {}, {})
  <2> HIDE DEF pc
  <2>1. r \in FlushType /\ r.pc = pc /\ r.todo = {} /\ r.delta = {}
    BY <1>3, Zenon DEF FlushType, Bytes!Idle
  <2>2. Fl(f, r.pc, r.todo, r.delta)
    BY <1>1, <2>1, FlPut, Zenon DEF ByteInv
  <2> QED BY <2>1, <2>2, Zenon
<1> HIDE DEF pc, r
<1>5. ByteTypes'
  BY <1>2, <1>3, <1>4 DEF ByteInv, ByteTypes, Fl
<1>6. FlushCourses'
  BY <1>1, <1>2, <1>3, <1>4, WhoFlushes DEF ByteInv, FlushCourses, Fl
<1>7. OncePlaced'
  BY <1>2, <1>3, <1>4 DEF ByteInv, ByteTypes, OncePlaced, Fl
<1>8. LeftEmpty'
  BY <1>1, <1>2, <1>4, WhoFlushes DEF ByteInv, LeftEmpty, Bytes!Flushed, Fl
<1> QED BY <1>5, <1>6, <1>7, <1>8 DEF ByteInv

LEMMA ByteDelete ==
    ASSUME ByteInv, NEW c \in Conns, Bytes!Delete(c)
    PROVE  ByteInv'
<1>1. /\ flush[c].pc = "delete" /\ flush' = [flush EXCEPT ![c] = Bytes!Idle]
      /\ conn' = [conn EXCEPT ![c] = "removed"] /\ counters' = counters \ {c}
  BY Zenon DEF Bytes!Delete
<1>2. UNCHANGED <<counter, row, real, failed, late>>
  BY DEF Bytes!Delete, Bytes!history
<1>3. c \in Bytes!Flushers
  BY WhoFlushes
<1>4. Fl(c, "idle", {}, {})
  <2> DEFINE r == Bytes!Idle
  <2>1. r \in FlushType /\ r.pc = "idle" /\ r.todo = {} /\ r.delta = {}
    BY Zenon DEF FlushType, Bytes!Idle
  <2>2. Fl(c, r.pc, r.todo, r.delta)
    BY <1>1, <1>3, <2>1, FlPut, Zenon DEF ByteInv
  <2> QED BY <2>1, <2>2, Zenon
<1>5. ByteTypes'
  BY <1>1, <1>2, <1>4 DEF ByteInv, ByteTypes, Fl
<1>6. FlushCourses'
  BY <1>1, <1>2, <1>3, <1>4, WhoFlushes DEF ByteInv, ByteTypes, FlushCourses, Fl
<1>7. OncePlaced'
  <2>1. flush[c].delta = {}
    BY <1>1, <1>3, Zenon DEF ByteInv, FlushCourses
  <2>2. \A g \in Bytes!Flushers : flush'[g].delta = flush[g].delta
    BY <1>4, <2>1 DEF Fl
  <2> QED BY <1>2, <2>2, NothingMoves DEF ByteInv
<1>8. LeftEmpty'
  <2>1. Bytes!Flushed(c)
    BY <1>1, <1>3, Zenon DEF ByteInv, FlushCourses, Bytes!Flushed
  <2> QED
    BY <1>1, <1>2, <1>4, <2>1, WhoFlushes DEF ByteInv, ByteTypes, LeftEmpty, Bytes!Flushed, Fl
<1> QED BY <1>5, <1>6, <1>7, <1>8 DEF ByteInv

LEMMA ByteAdd ==
    ASSUME ByteInv, NEW c \in Conns, Bytes!Add(c)
    PROVE  ByteInv'
<1> DEFINE b == <<c, real[c] + 1>>
<1>1. /\ real[c] < MaxBytes /\ counter' = [counter EXCEPT ![c] = @ \cup {b}]
      /\ real' = [real EXCEPT ![c] = @ + 1] /\ UNCHANGED <<counters, conn, flush, row, failed>>
      /\ late' = IF Bytes!Flushed(c) THEN late \cup {c} ELSE late
  BY DEF Bytes!Add
<1>2. real[c] \in 0..MaxBytes /\ b \in Byte
  BY <1>1, RuntimeConstants DEF ByteInv, ByteTypes, Byte
<1>3. ByteTypes'
  BY <1>1, <1>2, RuntimeConstants DEF ByteInv, ByteTypes
<1>4. FlushCourses'
  BY <1>1 DEF ByteInv, FlushCourses
<1>5. OncePlaced'
  BY <1>1, <1>2, RuntimeConstants DEF ByteInv, ByteTypes, OncePlaced, Byte
<1>6. LeftEmpty'
  BY <1>1 DEF ByteInv, ByteTypes, LeftEmpty, Bytes!Flushed
<1> QED BY <1>3, <1>4, <1>5, <1>6 DEF ByteInv

LEMMA ByteNext == ByteInv /\ [Bytes!Next]_bytes => ByteInv'
<1> SUFFICES ASSUME ByteInv, [Bytes!Next]_bytes PROVE ByteInv'
  OBVIOUS
<1>1. ASSUME NEW c \in Conns, Bytes!Register(c) PROVE ByteInv'
  <2>1. /\ conn[c] = "none" /\ conn' = [conn EXCEPT ![c] = "open"]
        /\ counters' = counters \cup {c} /\ UNCHANGED <<counter, flush, row, real, failed, late>>
    BY <1>1 DEF Bytes!Register, Bytes!history
  <2>2. ByteTypes'
    BY <2>1 DEF ByteInv, ByteTypes
  <2>3. FlushCourses'
    BY <2>1 DEF ByteInv, ByteTypes, FlushCourses
  <2>4. OncePlaced'
    BY <2>1, NothingMoves DEF ByteInv
  <2>5. LeftEmpty'
    BY <2>1 DEF ByteInv, ByteTypes, LeftEmpty, Bytes!Flushed
  <2> QED BY <2>2, <2>3, <2>4, <2>5 DEF ByteInv
<1>2. CASE Bytes!TickerEnds \/ Bytes!Cancel \/ UNCHANGED bytes
  <2>1. UNCHANGED <<counter, counters, conn, flush, row, real, failed, late>>
    BY <1>2 DEF Bytes!TickerEnds, Bytes!Cancel, Bytes!history, bytes
  <2>2. ByteTypes'
    BY <2>1 DEF ByteInv, ByteTypes
  <2>3. FlushCourses'
    BY <2>1 DEF ByteInv, FlushCourses
  <2>4. OncePlaced'
    BY <2>1, NothingMoves DEF ByteInv
  <2>5. LeftEmpty'
    BY <2>1 DEF ByteInv, LeftEmpty, Bytes!Flushed
  <2> QED BY <2>2, <2>3, <2>4, <2>5 DEF ByteInv
<1> QED
  BY <1>1, <1>2, ByteFlushBegins, ByteRemove, ByteLock, ByteSwap, BytePersist, ByteDelete,
     ByteAdd, Zenon DEF Bytes!Next

LEMMA BytesStay == MCSpec => [](part = "bytes" => ByteInv)
<1>1. MCInit => (part = "bytes" => ByteInv)
  BY BytesStart, Zenon DEF MCInit
<1>2. (part = "bytes" => ByteInv) /\ [MCNext]_<<part, edits, vars, set, bytes>>
        => (part = "bytes" => ByteInv)'
  <2> SUFFICES ASSUME part = "bytes" => ByteInv, [MCNext]_<<part, edits, vars, set, bytes>>,
                      part' = "bytes"
               PROVE  ByteInv'
    BY Zenon
  <2>1. part = "bytes" /\ [Bytes!Next]_bytes
    BY DEF MCNext
  <2> QED BY <2>1, ByteNext
<1> QED BY <1>1, <1>2, PTL DEF MCSpec

\* The places that count a byte, one by one.
LEMMA PlacesOf ==
    ASSUME NEW b
    PROVE  /\ \A c \in Conns : b \in counter[c] <=> <<"counter", c>> \in Bytes!Places(b)
           /\ \A f \in Bytes!Flushers : b \in flush[f].delta <=> <<"flush", f>> \in Bytes!Places(b)
           /\ b \in row <=> <<"row">> \in Bytes!Places(b)
           /\ b \in failed <=> <<"lost">> \in Bytes!Places(b)
           /\ \A p \in Bytes!Places(b) :
                \/ \E c \in Conns : p = <<"counter", c>> /\ b \in counter[c]
                \/ \E f \in Bytes!Flushers : p = <<"flush", f>> /\ b \in flush[f].delta
                \/ p = <<"row">> /\ b \in row
                \/ p = <<"lost">> /\ b \in failed
BY DEF Bytes!Places

(* Every byte that a connection carried is counted in exactly one place (its *)
(* counter, a flush under way, the database or a transaction that failed),   *)
(* and the counter of a removed connection is empty, unless a read returned  *)
(* after its last swap (statistics/telemetry.go, flushCounters): for any     *)
(* number of connections and bytes, however flushes overlap.                 *)
THEOREM BytesCountedOnce == MCSpec => []BytesConserved
<1>1. ASSUME part = "bytes" => ByteInv PROVE BytesConserved
  <2> SUFFICES ASSUME ByteInv PROVE Bytes!BytesConserved /\ Bytes!RemovedIsEmpty
    BY <1>1 DEF BytesConserved
  <2>1. ASSUME NEW c \in Conns, NEW i \in 1..MaxBytes, i <= real[c]
        PROVE  \E p \in Bytes!Places(<<c, i>>) : Bytes!Places(<<c, i>>) = {p}
    <3> DEFINE b == <<c, i>>
    <3>1. b \in Byte /\ b[2] <= real[b[1]]
      BY <2>1 DEF Byte
    <3> HIDE DEF b
    <3>2. \E p : p \in Bytes!Places(b)
      <4>1. \/ b \in row \/ b \in failed
            \/ \E d \in Conns : b \in counter[d]
            \/ \E f \in Bytes!Flushers : b \in flush[f].delta
        BY <3>1, Zenon DEF ByteInv, OncePlaced
      <4> QED BY <4>1, PlacesOf, Zenon
    <3>3. \A p, q \in Bytes!Places(b) : p = q
      BY <3>1, PlacesOf DEF ByteInv, OncePlaced
    <3>4. \E p \in Bytes!Places(b) : Bytes!Places(b) = {p}
      BY <3>2, <3>3
    <3> QED BY <3>4 DEF b
  <2>2. ASSUME NEW c \in Conns, NEW i \in 1..MaxBytes, ~ (i <= real[c])
        PROVE  Bytes!Places(<<c, i>>) = {}
    <3> DEFINE b == <<c, i>>
    <3>1. b \in Byte /\ ~ (b[2] <= real[b[1]])
      BY <2>2 DEF Byte
    <3> HIDE DEF b
    <3>2. Bytes!Places(b) = {}
      BY <3>1, PlacesOf DEF ByteInv, OncePlaced
    <3> QED BY <3>2 DEF b
  <2>3. Bytes!BytesConserved
    BY <2>1, <2>2, Zenon DEF Bytes!BytesConserved
  <2>4. Bytes!RemovedIsEmpty
    BY Zenon DEF Bytes!RemovedIsEmpty, ByteInv, LeftEmpty, Bytes!Flushed
  <2> QED BY <2>3, <2>4
<1> QED BY <1>1, BytesStay, PTL
=============================================================================
