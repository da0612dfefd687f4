----------------------------- MODULE MCLifecycle ----------------------------
(* What connections are made of, for TLC: the table of UDP sources, the map  *)
(* that makes its values once, the pipe, and the queue of packets.  They     *)
(* share no state, so a behaviour drives one of them (part) and has none of  *)
(* the state of the others.                                                  *)
EXTENDS RingBuffer

CONSTANTS
    Handlers, MaxControls,                          \* of the table of UDP sources
    Callers, None,                                  \* of the map
    Readers, Writers, WriteLength, Sizes, MaxSets   \* of the pipe

ASSUME LifecycleConstants ==
    /\ None \notin Callers \cup Writers
    /\ MaxControls \in Nat /\ WriteLength \in Nat /\ Sizes \subseteq Nat

VARIABLES
    part,
    entry, closed, control, handler, reaper, owner,
    data, store, holder, call, created, stored, upset,
    done, writeDone, deadline, setter, reader, writer, wrMu, got

table == <<entry, closed, control, handler, reaper, owner>>
map == <<data, store, holder, call, created, stored, upset>>
pipe == <<done, writeDone, deadline, setter, reader, writer, wrMu, got>>
everything == <<part, table, map, pipe, vars>>

(* For the queue, a ring of one slot that may double twice; the limit may be *)
(* lowered to one when it already holds four elements.                       *)

(* Three handlers and two controls let a handler hold a control across its   *)
(* reaping and the creation of the next one.                                 *)
Table == INSTANCE NatTable WITH Writers <- Handlers, writer <- handler

(* With three callers one can wait on a mutex that is already gone from the  *)
(* map while another makes a new one.                                        *)
Map == INSTANCE SyncMap

(* Two writes of two bytes to two reads with room for one; deadlines are     *)
(* set twice.                                                                *)
Pip == INSTANCE Pipe WITH Length <- WriteLength

(* What a behaviour does not drive is left out of its states.                *)
NoTable ==
    /\ entry = None /\ closed = None /\ control = None /\ handler = None /\ reaper = None
    /\ owner = None
NoSyncMap ==
    /\ data = None /\ store = None /\ holder = None /\ call = None /\ created = None
    /\ stored = None /\ upset = None
NoPipe ==
    /\ done = None /\ writeDone = None /\ deadline = None /\ setter = None /\ reader = None
    /\ writer = None /\ wrMu = None /\ got = None

MCInit ==
    /\ part \in {"table", "map", "pipe", "ring"}
    /\ IF part = "table" THEN Table!Init ELSE NoTable
    /\ IF part = "map" THEN Map!Init ELSE NoSyncMap
    /\ IF part = "pipe" THEN Pip!Init ELSE NoPipe
    /\ Init /\ (part # "ring" => maxCap = 4)

MCNext ==
    \/ part = "table" /\ Table!Next /\ UNCHANGED <<part, map, pipe, vars>>
    \/ part = "map" /\ Map!Next /\ UNCHANGED <<part, table, pipe, vars>>
    \/ part = "pipe" /\ Pip!Next /\ UNCHANGED <<part, table, map, vars>>
    \/ part = "ring" /\ Next /\ UNCHANGED <<part, table, map, pipe>>

(* The fairness of each component, for the one that is driven.               *)
Fairness ==
    /\ WF_table(part = "table" /\ Table!ReaperStep)
    /\ \A c \in Table!Controls : WF_table(part = "table" /\ Table!Ages(c))
    /\ \A c \in Callers : WF_map(part = "map" /\ Map!Step(c))
    /\ \A r \in Readers : WF_pipe(part = "pipe" /\ Pip!ReaderStep(r))
    /\ \A w \in Writers : WF_pipe(part = "pipe" /\ Pip!WriterStep(w))
    /\ WF_pipe(part = "pipe" /\ Pip!SetterStep)
    /\ \A d \in Pip!Deadlines : /\ WF_pipe(part = "pipe" /\ Pip!Fire(d))
                                /\ WF_pipe(part = "pipe" /\ Pip!Expire(d))

MCSpec == MCInit /\ [][MCNext]_everything /\ Fairness

-----------------------------------------------------------------------------
(* Nothing is lost from the table of UDP sources, and Close closes all of    *)
(* them (NatTable, net/nat/table.go).                                        *)
ControlsKnown == part = "table" => Table!OpenControlsAreKnown /\ Table!CloseClosesAll

(* A source that has gone idle leaves the table (NatTable,                   *)
(* net/nat/table.go).                                                        *)
IdleIsReaped == \A c \in Table!Controls : []<>(part = "table" => Table!NotIdle(c))

(* A value is made once, every caller gets one that was in the map, and no   *)
(* mutex outlives its callers (SyncMap, utils/syncmap).                      *)
MadeOnce == part = "map" => Map!MadeOnce

(* A Write is read together and in order (Pipe, net/pipe/pipe.go:223).       *)
WrittenTogether == part = "pipe" => Pip!WrittenTogether

(* No deadline is missed (Pipe, net/pipe/pipe.go:32).                        *)
DeadlineReaches == part = "pipe" => Pip!DeadlineReaches

(* Every call of the map returns, and so does every call on a pipe that is   *)
(* closed: SyncMap!CallsReturn and Pipe!CloseEndsCalls together.             *)
CallsEnd ==
    <>[](/\ part = "map" => Map!Returned
         /\ part = "pipe" => Pip!AllEnded)
=============================================================================
