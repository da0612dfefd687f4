------------------------------ MODULE MCRuntime -----------------------------
(* The dialers of the nodes, a dial through a set of nodes and the bytes     *)
(* that connections carry, for TLC: NodeRuntime, SetDo and Telemetry share   *)
(* no state, so a behaviour drives one of them (part) and has none of the    *)
(* state of the others.  Two getters use a node again and again and two      *)
(* calls edit it, so that each may be overtaken by another; nodes share no   *)
(* dialers.  A set has three nodes.  Telemetry has two connections of up to  *)
(* two bytes.                                                                *)
EXTENDS NodeRuntime, TLC

CONSTANTS
    g1, g2, e1, e2, i1, n1, n2, n3,
    MaxEdits,        \* bound: calls that edit nodes
    Nodes,           \* of SetDo
    Conns, MaxBytes  \* of Telemetry

ASSUME RuntimeConstants ==
    /\ {"wait", "error"} \cap Nodes = {}
    /\ {"timer", "close"} \cap Conns = {} /\ None \notin {"timer", "close"} \cup Conns
    /\ MaxBytes \in Nat

VARIABLES
    part, edits,
    lastID, storeIndex, parent, ctx, caller, loop, task,
    counter, counters, conn, flushMu, flush, closing, ticker, row, real, failed, late

Set == INSTANCE SetDo
set == <<lastID, storeIndex, parent, ctx, caller, loop, task>>

Bytes == INSTANCE Telemetry WITH lost <- failed
bytes == <<counter, counters, conn, flushMu, flush, closing, ticker, row, real, failed, late>>

(* What a behaviour does not drive is left out of its states.                *)
NoSet ==
    /\ lastID = None /\ storeIndex = None /\ parent = None /\ ctx = None /\ caller = None
    /\ loop = None /\ task = None
NoBytes ==
    /\ counter = None /\ counters = None /\ conn = None /\ flushMu = None /\ flush = None
    /\ closing = None /\ ticker = None /\ row = None /\ real = None /\ failed = None
    /\ late = None

MCInit ==
    /\ Init /\ edits = 0
    /\ part \in {"nodes", "set", "bytes"}
    /\ IF part = "set" THEN Set!Init ELSE NoSet
    /\ IF part = "bytes" THEN Bytes!Init ELSE NoBytes

(* A call that edits nodes begins.                                           *)
Begins == \E e \in Editors : editor[e].pc = "idle" /\ editor'[e].pc # "idle"

MCNext ==
    \/ /\ part = "nodes" /\ Next /\ UNCHANGED <<part, set, bytes>>
       /\ edits' = IF Begins THEN edits + 1 ELSE edits
       /\ edits' <= MaxEdits
    \/ part = "set" /\ Set!Next /\ UNCHANGED <<part, edits, vars, bytes>>
    \/ part = "bytes" /\ Bytes!Next /\ UNCHANGED <<part, edits, vars, set>>

MCSpec == MCInit /\ [][MCNext]_<<part, edits, vars, set, bytes>>

MCSymmetry == Permutations(Getters) \cup Permutations(Editors)

-----------------------------------------------------------------------------
(* A dial over a set of nodes loses no connection, and fails only when       *)
(* every node has failed (SetDo, node/set.go:160).                           *)
SetLosesNothing == part = "set" => Set!NoConnLost /\ Set!FailsOnlyIfAllFail

(* Every byte is counted once, and a connection that is removed leaves none  *)
(* behind (Telemetry, statistics/telemetry.go).                              *)
BytesConserved == part = "bytes" => Bytes!BytesConserved /\ Bytes!RemovedIsEmpty
=============================================================================
