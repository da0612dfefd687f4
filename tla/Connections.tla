---------------------------- MODULE Connections -----------------------------
(***************************************************************************)
(* The live connections and their watchers: Connections of                 *)
(* pkg/statistics/statistic.go, notify.go, and the session rows of         *)
(* sqlite.go.                                                              *)
(*                                                                         *)
(* A connection is stored in three steps by the goroutine that dialed it   *)
(* and removed in three by whoever closes it: its owner, CloseConn or the  *)
(* Close of the store.  One goroutine sends what notifyStore collected to  *)
(* the watchers.  Byte counters are modules Telemetry's and TotalCache's.  *)
(***************************************************************************)
EXTENDS Naturals, FiniteSets

CONSTANTS
    Conns,        \* connections of one process, each with its own id
    Watchers,     \* calls of Notify
    Listed        \* bound: the connections CloseConn is called for

Closers == {"owner", "CloseConn"}

VARIABLES
    connStore,
    sessions,            \* connection_sessions, durable
    ns,                  \* notifyStore: store, removeStore, length
    closed,              \* notify.closed
    opening,             \* connection -> step of Conn/PacketConn
    removing,            \* connection, closer -> step of Remove
    notifier,            \* the watchers registered
    watcher,             \* watcher -> [pc, snapshot, view, unsure]: view is its
                         \* screen; unsure (history) holds the connections it
                         \* may have missed an event of while joining
    sender,              \* start and send
    early,               \* history: connections that CloseConn met while they
                         \* were being stored
    failed               \* history: connections whose row is not what it should
                         \* be because a statement failed, which is only logged

vars == <<connStore, sessions, ns, closed, opening, removing,
          notifier, watcher, sender, early, failed>>
watching == <<notifier, watcher, sender, early>>

NothingPending == [store |-> {}, removeStore |-> {}, length |-> 0]
Waiting == [pc |-> "wait", added |-> {}, removed |-> {}, left |-> {}]
Absent == [pc |-> "none", snapshot |-> {}, view |-> {}, unsure |-> {}]

NoneOpening == [c \in Conns |-> "none"]
NoneRemoving == [c \in Conns |-> [k \in Closers |-> "none"]]
NoWatchers == [w \in Watchers |-> Absent]

Init ==
    /\ connStore = {} /\ sessions = {}
    /\ ns = NothingPending /\ closed = FALSE
    /\ opening = NoneOpening /\ removing = NoneRemoving
    /\ notifier = {} /\ watcher = NoWatchers /\ sender = Waiting
    /\ early = {} /\ failed = {}

Open(c) == opening[c] = "open"
Closing(c) == \E k \in Closers : removing[c][k] \notin {"none", "done"}
Closed(c) == \E k \in Closers : removing[c][k] = "done"

\* nothing is under way
Settled ==
    /\ \A c \in Conns : opening[c] \in {"none", "open"} /\ ~ Closing(c)
    /\ ns.store = {} /\ ns.removeStore = {} /\ sender = Waiting

-----------------------------------------------------------------------------
(* storeConnection *)

StoreConn(c) ==
    /\ opening[c] = "none"
    /\ connStore' = connStore \cup {c}
    /\ opening' = [opening EXCEPT ![c] = "info"]
    /\ UNCHANGED <<sessions, ns, closed, removing, watching, failed>>

StoreInfo(c, ok) ==
    /\ opening[c] = "info"
    /\ sessions' = IF ok THEN sessions \cup {c} ELSE sessions
    /\ failed' = IF ok THEN failed \ {c} ELSE failed \cup {c}
    /\ opening' = [opening EXCEPT ![c] = "pub"]
    /\ UNCHANGED <<connStore, ns, closed, removing, watching>>

\* A length above 13 wakes the sender, which a ticker may do at any time.
Publish(pending) == ns' = IF closed THEN ns ELSE pending

Pushed(c) == [ns EXCEPT !.store = @ \cup {c}, !.length = @ + 1]

pubNewConn(c) ==
    /\ opening[c] = "pub"
    /\ Publish(Pushed(c))
    /\ opening' = [opening EXCEPT ![c] = "open"]
    /\ UNCHANGED <<connStore, sessions, closed, removing, watching, failed>>

-----------------------------------------------------------------------------
(* Remove, by the owner after Conn returned, or by CloseConn and Close,     *)
(* which find the connection in connStore.                                  *)

Step(c, k, from, to) ==
    /\ removing[c][k] = from
    /\ removing' = [removing EXCEPT ![c][k] = to]

OwnerCloses(c) ==
    /\ Open(c) /\ Step(c, "owner", "none", "conn")
    /\ UNCHANGED <<connStore, sessions, ns, closed, opening, watching, failed>>
CloseConn(c) ==
    /\ c \in connStore \cap Listed /\ Step(c, "CloseConn", "none", "conn")
    /\ early' = IF Open(c) THEN early ELSE early \cup {c}
    /\ UNCHANGED <<connStore, sessions, ns, closed, opening, notifier,
                   watcher, sender, failed>>

RemoveConn(c, k) ==
    /\ Step(c, k, "conn", "info") /\ connStore' = connStore \ {c}
    /\ UNCHANGED <<sessions, ns, closed, opening, watching, failed>>

RemoveInfo(c, k, ok) ==
    /\ Step(c, k, "info", "pub")
    /\ sessions' = IF ok THEN sessions \ {c} ELSE sessions
    /\ failed' = IF ok THEN failed \ {c} ELSE failed \cup ({c} \cap sessions)
    /\ UNCHANGED <<connStore, ns, closed, opening, watching>>

\* mutant: a removal is published even if its push was not sent yet
RemovedAlways(c) ==
    [ns EXCEPT !.removeStore = @ \cup {c}, !.length = @ + 1]

\* notifyStore.remove
Removed(c) ==
    IF c \in ns.store
    THEN [ns EXCEPT !.store = @ \ {c}, !.length = @ - 1]
    ELSE [ns EXCEPT !.removeStore = @ \cup {c}, !.length = @ + 1]

pubRemoveConn(c, k) ==
    /\ Step(c, k, "pub", "done")
    /\ Publish(Removed(c))
    /\ UNCHANGED <<connStore, sessions, closed, opening, watching, failed>>

-----------------------------------------------------------------------------
(* Notify *)

\* allInfos.  A connection whose first event is still to be sent is in the
\* snapshot already; closing it now withdraws that event and sends no other.
Snapshot(w) ==
    /\ watcher[w].pc = "none"
    /\ watcher' = [watcher EXCEPT ![w] =
         [@ EXCEPT !.pc = "send", !.snapshot = connStore,
                   !.unsure = ns.store \cup
                     {c \in Conns : opening[c] \in {"info", "pub"}}]]
    /\ UNCHANGED <<connStore, sessions, ns, closed, opening, removing,
                   notifier, sender, early, failed>>
\* register: the snapshot is sent, then the watcher stored
SendSnapshot(w) ==
    /\ watcher[w].pc = "send"
    /\ watcher' = [watcher EXCEPT ![w] =
                     [@ EXCEPT !.pc = "store", !.snapshot = {},
                               !.view = watcher[w].snapshot]]
    /\ UNCHANGED <<connStore, sessions, ns, closed, opening, removing,
                   notifier, sender, early, failed>>
Register(w) ==
    /\ watcher[w].pc = "store"
    /\ watcher' = [watcher EXCEPT ![w].pc = "registered"]
    /\ notifier' = notifier \cup {w}
    \* a Range under way may or may not come to the new entry
    /\ \E seen \in IF sender.pc = "send" THEN {{}, {w}} ELSE {{}} :
         sender' = [sender EXCEPT !.left = @ \cup seen]
    /\ UNCHANGED <<connStore, sessions, ns, closed, opening, removing,
                   early, failed>>
\* the stream ends, or a Send to it fails
Unregister(w) ==
    /\ watcher[w].pc \in {"send", "registered"}
    /\ watcher' = [watcher EXCEPT ![w] = Absent]
    /\ notifier' = notifier \ {w}
    /\ sender' = [sender EXCEPT !.left = @ \ {w}]
    /\ UNCHANGED <<connStore, sessions, ns, closed, opening, removing,
                   early, failed>>

\* start: the trigger or the ticker, then dump
Dump ==
    /\ sender.pc = "wait" /\ ~ closed
    /\ sender' = [pc |-> "range", added |-> ns.store,
                  removed |-> ns.removeStore, left |-> {}]
    /\ ns' = NothingPending
    /\ UNCHANGED <<connStore, sessions, closed, opening, removing, notifier,
                   watcher, early, failed>>

\* a watcher that is not registered by now does not get these events
Range ==
    /\ sender.pc = "range"
    /\ sender' = [sender EXCEPT !.pc = "send", !.left = notifier]
    /\ watcher' = [w \in Watchers |->
         IF watcher[w].pc \in {"send", "store"}
         THEN [watcher[w] EXCEPT !.unsure = @ \cup sender.added \cup sender.removed]
         ELSE watcher[w]]
    /\ UNCHANGED <<connStore, sessions, ns, closed, opening, removing,
                   notifier, early, failed>>

\* what a watcher shows after the two events
Screen(view) == (view \ sender.removed) \cup sender.added

Send(w) ==
    /\ sender.pc = "send" /\ w \in sender.left
    /\ watcher' = [watcher EXCEPT ![w].view = Screen(@)]
    /\ sender' = [sender EXCEPT !.left = @ \ {w}]
    /\ UNCHANGED <<connStore, sessions, ns, closed, opening, removing,
                   notifier, early, failed>>
Sent ==
    /\ sender.pc = "send" /\ sender.left = {} /\ sender' = Waiting
    /\ UNCHANGED <<connStore, sessions, ns, closed, opening, removing,
                   notifier, watcher, early, failed>>

-----------------------------------------------------------------------------
(* Close of the store begins with notify; then it closes what it finds.     *)

CloseNotify ==
    /\ ~ closed /\ closed' = TRUE
    /\ UNCHANGED <<connStore, sessions, ns, opening, removing, watching, failed>>

\* clearPreviousSessions, before anything else
Restart(ok) ==
    /\ connStore' = {} /\ sessions' = (IF ok THEN {} ELSE sessions) /\ failed' = sessions'
    /\ ns' = NothingPending /\ closed' = FALSE
    /\ opening' = NoneOpening /\ removing' = NoneRemoving
    /\ notifier' = {} /\ watcher' = NoWatchers /\ sender' = Waiting
    /\ early' = {}

Next ==
    \/ \E c \in Conns :
         \/ StoreConn(c) \/ pubNewConn(c)
         \/ OwnerCloses(c) \/ CloseConn(c)
         \/ \E ok \in BOOLEAN : StoreInfo(c, ok)
         \/ \E k \in Closers :
              \/ RemoveConn(c, k) \/ pubRemoveConn(c, k)
              \/ \E ok \in BOOLEAN : RemoveInfo(c, k, ok)
    \/ \E w \in Watchers :
         Snapshot(w) \/ SendSnapshot(w) \/ Register(w) \/ Unregister(w) \/ Send(w)
    \/ Dump \/ Range \/ Sent \/ CloseNotify \/ \E ok \in BOOLEAN : Restart(ok)

Spec == Init /\ [][Next]_vars

-----------------------------------------------------------------------------
(* Properties. *)

\* A connection has a session row from when it has been stored until it is
\* closed (docs/sqlite-storage-redesign.md:950: "remove the session row when its
\* connection closes"), whoever closes it and also when two do, and there are no
\* other rows.  Except for one that CloseConn meets while it is being stored,
\* whose row may be written after it was deleted and stays until the next start,
\* and for those whose INSERT or DELETE failed, or that a start could not clear:
\* without its row a connection is shown by its id alone (statistic.go:102).
SessionsAreOpen ==
    \A c \in Conns \ (early \cup failed) :
        /\ Open(c) /\ ~ Closing(c) /\ ~ Closed(c) => c \in sessions
        /\ Closed(c) /\ ~ Closing(c) => c \notin sessions
        /\ opening[c] = "none" => c \notin sessions

\* When nothing is under way, every watcher shows exactly the connections that
\* are open, whatever order they were opened and closed in and however the
\* events were batched; except for those it joined in the middle of (register
\* sends the snapshot before it stores the watcher, and remove withdraws an
\* event that the snapshot has overtaken) and those closed while being stored.
ScreensAgree ==
    Settled /\ ~ closed =>
        \A w \in notifier : \A c \in Conns \ (watcher[w].unsure \cup early) :
            c \in watcher[w].view <=> c \in connStore

\* The length that decides whether to wake the sender, unsigned in the code,
\* counts at least what is pending: a decrement never wraps it around.
LengthCovers ==
    ns.length >= Cardinality(ns.store) + Cardinality(ns.removeStore)
=============================================================================
