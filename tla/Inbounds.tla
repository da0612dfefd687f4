------------------------------ MODULE Inbounds ------------------------------
(* Inbounds as they are stored and as they run: ContractStore                *)
(* (inbound/contract_store.go) writes the database and then the runtime      *)
(* (inbound/inbound.go), whose edits exclude each other while Close does not *)
(* take their lock; a server is made in layers                               *)
(* (inbound/contract_listener.go).                                           *)
EXTENDS Naturals, Sequences, FiniteSets

CONSTANTS
    Keys,       \* ids of inbounds
    Editors,    \* requests of the API, and the Sync of the start
    Configs,    \* records: enabled, port, interface, and whether the transports can be made
    None,
    MaxEdits    \* bound on the edits

VARIABLES
    stored,      \* the rows of inbounds_v2
    store,       \* Inbound.store: key to server (0: none)
    servers,     \* every server made: key, config, and whether it is open
    interfaces,  \* what Interfaces returns
    mu,          \* the holder of Inbound.mu
    editor,      \* per editor: where it is, key, config, and the server it made
    unsynced,    \* keys the Sync of the start has not come to
    closing,     \* keys Close has yet to visit, and the visit under way
    left,        \* ports of listeners that nobody can close any more
    edits,
    crossed,     \* history: keys two edits of which overlapped
    failed,      \* history: keys whose last server could not be made
    outdated,    \* history: interfaces were not refreshed after a server was closed
    late         \* history: a server was made or stored after Close began

runtime == <<store, servers, interfaces, mu, left>>
history == <<crossed, failed, outdated, late>>
vars == <<stored, runtime, editor, unsynced, closing, edits, history>>

Idle == [at |-> "idle", key |-> None, config |-> None, server |-> 0]
NotClosed == [begun |-> FALSE, todo |-> {}, key |-> None, server |-> 0]

Init ==
    /\ stored \in [Keys -> Configs \cup {None}]
    /\ unsynced = {k \in Keys : stored[k] # None}
    /\ store = [k \in Keys |-> 0] /\ servers = <<>> /\ interfaces = {} /\ mu = None
    /\ left = {} /\ editor = [e \in Editors |-> Idle] /\ closing = NotClosed /\ edits = 0
    /\ crossed = {} /\ failed = {} /\ outdated = FALSE /\ late = FALSE

AllIdle == \A e \in Editors : editor[e].at = "idle"
Busy(k) == \E e \in Editors : editor[e].at # "idle" /\ editor[e].key = k
Open == {s \in 1..Len(servers) : servers[s].open}
InUse == left \cup {servers[s].config.port : s \in Open}
Interfaces(st) == {servers'[st[k]].config.interface : k \in {j \in Keys : st[j] # 0}}
Closed(s) == IF s = 0 THEN servers ELSE [servers EXCEPT ![s].open = FALSE]

Goes(e, at) == editor' = [editor EXCEPT ![e] = IF at = "idle" THEN Idle ELSE [@ EXCEPT !.at = at]]
-----------------------------------------------------------------------------
(* Sync applies the rows one after the other before the API is there.        *)
Sync(e, k) ==
    /\ AllIdle /\ k \in unsynced /\ unsynced' = unsynced \ {k}
    /\ editor' = [editor EXCEPT ![e] = [Idle EXCEPT !.at = "save", !.key = k, !.config = stored[k]]]
    /\ UNCHANGED <<stored, runtime, closing, edits, history>>

(* ContractStore.Save and Delete: the row first; a row that is not there     *)
(* cannot be deleted.                                                        *)
Edit(e, k, c, at) ==
    /\ unsynced = {} /\ editor[e].at = "idle" /\ edits < MaxEdits /\ edits' = edits + 1
    /\ stored' = [stored EXCEPT ![k] = c]
    /\ editor' = [editor EXCEPT ![e] = [Idle EXCEPT !.at = at, !.key = k, !.config = c]]
    /\ crossed' = IF Busy(k) THEN crossed \cup {k} ELSE crossed
    /\ UNCHANGED <<runtime, unsynced, closing, failed, outdated, late>>
Save(e, k, c) == Edit(e, k, c, "save")
Delete(e, k) == stored[k] # None /\ Edit(e, k, None, "remove")

(* Inbound.SaveContract: nothing to do for the same config; else the old     *)
(* server leaves the store and is closed, and an inbound that is not enabled *)
(* ends here, before the interfaces are refreshed.                           *)
Replace(e, kept) ==
    LET k == editor[e].key
        c == editor[e].config
        s == store[k]
        same == s # 0 /\ servers[s].config = c
    IN  /\ editor[e].at = "save" /\ mu = None
        /\ mu' = IF same \/ ~c.enabled THEN None ELSE e
        /\ Goes(e, IF same \/ ~c.enabled THEN "idle" ELSE "listen")
        /\ store' = [store EXCEPT ![k] = IF same THEN s ELSE kept]
        /\ servers' = IF same THEN servers ELSE Closed(s)
        /\ outdated' = (outdated \/ (s # 0 /\ ~same))
        /\ failed' = failed \ {k}
        /\ UNCHANGED <<stored, interfaces, left, unsynced, closing, edits, crossed, late>>
ReplaceKeeping(e) == Replace(e, store[editor[e].key])  \* mutant
SaveContract(e) == Replace(e, 0)

(* listenContract makes the network, the transports and the protocol.  When  *)
(* a transport fails, the listener below it is not closed by anyone.         *)
Listen(e) ==
    LET c == editor[e].config
    IN  /\ editor[e].at = "listen" /\ c.port \notin InUse /\ c.transports
        /\ servers' = Append(servers, [key |-> editor[e].key, config |-> c, open |-> TRUE])
        /\ editor' = [editor EXCEPT ![e].at = "store", ![e].server = Len(servers) + 1]
        /\ late' = (late \/ closing.begun)
        /\ UNCHANGED <<stored, store, interfaces, mu, left, unsynced, closing, edits,
                       crossed, failed, outdated>>

ListenFails(e) ==
    LET c == editor[e].config
    IN  /\ editor[e].at = "listen" /\ mu' = None /\ Goes(e, "idle")
        /\ left' = IF c.port \notin InUse /\ ~c.transports THEN left \cup {c.port} ELSE left
        /\ failed' = failed \cup {editor[e].key}
        /\ UNCHANGED <<stored, store, servers, interfaces, unsynced, closing, edits,
                       crossed, outdated, late>>

Store(e) ==
    /\ editor[e].at = "store" /\ mu' = None /\ Goes(e, "idle")
    /\ store' = [store EXCEPT ![editor[e].key] = editor[e].server] /\ UNCHANGED servers
    /\ interfaces' = Interfaces(store') /\ outdated' = FALSE
    /\ late' = (late \/ closing.begun)
    /\ UNCHANGED <<stored, left, unsynced, closing, edits, crossed, failed>>

Remove(e) ==
    LET k == editor[e].key
    IN  /\ editor[e].at = "remove" /\ mu = None /\ Goes(e, "idle")
        /\ servers' = Closed(store[k]) /\ store' = [store EXCEPT ![k] = 0]
        /\ interfaces' = IF store[k] = 0 THEN interfaces ELSE Interfaces(store')
        /\ outdated' = (outdated /\ store[k] = 0)
        /\ failed' = failed \ {k}
        /\ UNCHANGED <<stored, mu, left, unsynced, closing, edits, crossed, late>>
-----------------------------------------------------------------------------
(* Close visits the keys without the lock: it closes the server it read and  *)
(* deletes the key, whatever is stored there by then.                        *)
CloseBegins ==
    /\ ~closing.begun /\ unsynced = {}
    /\ closing' = [NotClosed EXCEPT !.begun = TRUE, !.todo = Keys]
    /\ UNCHANGED <<stored, runtime, editor, unsynced, edits, history>>

Visit(k) ==
    /\ k \in closing.todo /\ closing.key = None
    /\ closing' = IF store[k] = 0 THEN [closing EXCEPT !.todo = @ \ {k}]
                  ELSE [closing EXCEPT !.todo = @ \ {k}, !.key = k, !.server = store[k]]
    /\ UNCHANGED <<stored, runtime, editor, unsynced, edits, history>>

Visited ==
    /\ closing.key # None
    /\ servers' = Closed(closing.server) /\ store' = [store EXCEPT ![closing.key] = 0]
    /\ closing' = [closing EXCEPT !.key = None, !.server = 0]
    /\ UNCHANGED <<stored, interfaces, mu, left, editor, unsynced, edits, history>>

Next ==
    \/ \E e \in Editors :
          \/ \E k \in Keys : Sync(e, k) \/ Delete(e, k) \/ \E c \in Configs : Save(e, k, c)
          \/ SaveContract(e) \/ Listen(e) \/ ListenFails(e) \/ Store(e) \/ Remove(e)
    \/ CloseBegins \/ Visited \/ \E k \in Keys : Visit(k)

Spec == Init /\ [][Next]_vars
-----------------------------------------------------------------------------
AtRest == AllIdle /\ unsynced = {}

(* An inbound runs as it is stored: with its config when it is enabled and   *)
(* could be started, not at all otherwise, unless two edits of it crossed    *)
(* between the database and the runtime (contract_store.go:60).              *)
RunsAsStored ==
    AtRest /\ ~closing.begun =>
        \A k \in Keys \ crossed :
            IF stored[k] = None \/ (stored[k] # None /\ ~stored[k].enabled) THEN store[k] = 0
            ELSE IF k \in failed THEN store[k] = 0
            ELSE store[k] \in Open /\ servers[store[k]].config = stored[k]

(* No server stays open that the runtime does not know (inbound.go:181), and *)
(* none after Close except one that an edit made meanwhile (inbound.go:199). *)
NoServerLost ==
    /\ AtRest /\ ~closing.begun => \A s \in Open : store[servers[s].key] = s
    /\ AtRest /\ closing.begun /\ closing.todo = {} /\ closing.key = None /\ ~late => Open = {}

(* Every interface of a running server is reported; others only until the    *)
(* next refresh when a server was closed without one (inbound.go:188).       *)
InterfacesKnown ==
    AtRest /\ ~closing.begun =>
        LET running == {servers[s].config.interface : s \in Open}
        IN  running \subseteq interfaces /\ (interfaces = running \/ outdated)

(* A port has one listener.  One that a failed transport left open keeps its *)
(* port from every later server (contract_listener.go:42).                   *)
OneListenerPerPort ==
    \A s \in Open :
        /\ servers[s].config.port \notin left
        /\ \A r \in Open \ {s} : servers[r].config.port # servers[s].config.port

InboundsAsStored == OneListenerPerPort /\ RunsAsStored /\ NoServerLost /\ InterfacesKnown
=============================================================================
