----------------------------- MODULE NodeRuntime ----------------------------
(***************************************************************************)
(* Node definitions and the dialers made from them: NodeRuntime and        *)
(* ProxyStore of pkg/node/runtime.go and store.go, over the rows of        *)
(* pkg/store/node.go.                                                      *)
(*                                                                         *)
(* A dialer is made when a node is first used and kept under the node's    *)
(* id.  Calls that edit nodes delete the dialers they make obsolete; the   *)
(* deletion and the change of the database are separate steps, in an order *)
(* that differs from call to call.  LoadOrCreate of the map               *)
(* (pkg/utils/syncmap/syncmap.go) keeps the makers of a dialer apart with  *)
(* a mutex per id, which is gone from the map of mutexes when its maker    *)
(* returns, although others may still wait for it: two dialers may then be *)
(* made at once, and the one that comes too late is kept nowhere.          *)
(***************************************************************************)
EXTENDS Naturals, FiniteSets

CONSTANTS
    Ids, None,
    Getters,       \* calls of GetDialerByID and Get
    Editors,       \* calls of the operations that change something
    MaxProxies,    \* bound: dialers made
    MaxVersion     \* bound: versions of a node's definition

ASSUME NodeRuntimeConstants ==
    /\ None \notin Ids /\ None \notin Nat
    /\ None \notin [id : Ids, version : Nat, open : BOOLEAN]
    /\ "Close" \notin Editors
    /\ MaxProxies \in Nat /\ MaxVersion \in Nat

VARIABLES
    nodes,    \* nodes_v2: id -> version, None without a row
    selected, \* the nodes in metadata: the one for TCP and the one for UDP
    tagged,   \* the nodes in a tag; every node has a tag of its own
    store,    \* ProxyStore.store: id -> dialer
    proxy,    \* dialer -> [id, version, open] or None
    closed,   \* "open", then "runtime" (NodeRuntime.closed), "store"
              \* (ProxyStore.closed too), "closed" when Close has ended
    single,   \* SyncMap.single.store: id -> its mutex, or None
    getter,   \* getter -> [pc, id, version, mu, own, made]
    editor,   \* editor or Close -> [pc, id, todo, closing, after]
    raced,    \* history: nodes whose row changed when the dialers had been
              \* deleted already, or a getter had read the old row
    upset,    \* history: ids whose entry was deleted or could not be made
    lost      \* history: dialers made while another took their place in store

rows == <<nodes, selected, tagged>>
vars == <<rows, store, proxy, closed, single, getter, editor, raced, upset, lost>>

Proxies == 1 .. MaxProxies
Deleters == Editors \cup {"Close"}
\* mu: the mutex a getter has or waits for; own: whether it made it; made: the
\* dialer it has made and not stored yet
NoGet == [pc |-> "idle", id |-> None, version |-> 0, mu |-> None, own |-> FALSE,
          made |-> None]
\* todo: ids still to delete; closing: dialers taken out of the map; after: the
\* step that follows the deletion
NoEdit == [pc |-> "idle", id |-> None, todo |-> {}, closing |-> {}, after |-> "idle"]

Init ==
    /\ nodes = [i \in Ids |-> 1] /\ selected = {} /\ tagged = {}
    /\ store = [i \in Ids |-> None] /\ proxy = [p \in Proxies |-> None]
    /\ closed = "open" /\ single = [i \in Ids |-> None]
    /\ getter = [g \in Getters |-> NoGet] /\ editor = [e \in Deleters |-> NoEdit]
    /\ raced = {} /\ upset = {} /\ lost = {}

IsOpen(p) == proxy[p] # None /\ proxy[p].open
Made == {p \in Proxies : proxy[p] # None}

-----------------------------------------------------------------------------
(* GetDialerByID: the row is read, then the dialer loaded or made from it.  *)
(* A row that cannot be read leaves nothing behind.                         *)

ReadNode(g, i) ==
    /\ getter[g].pc = "idle" /\ closed = "open" /\ nodes[i] # None
    /\ getter' = [getter EXCEPT ![g] = [NoGet EXCEPT !.pc = "create", !.id = i,
                                                    !.version = nodes[i]]]
    /\ UNCHANGED <<rows, store, proxy, closed, single, editor, raced, upset, lost>>

Loading(g, allowed) ==
    /\ getter[g].pc = "create"
    /\ getter' = [getter EXCEPT ![g] =
         IF allowed /\ store[@.id] = None THEN [@ EXCEPT !.pc = "mutex"] ELSE NoGet]
    /\ UNCHANGED <<rows, store, proxy, closed, single, editor, raced, upset, lost>>

\* mutant: the closed flag is not looked at
LoadAlways(g) == Loading(g, TRUE)

\* LoadOrCreate: under the read lock, which is kept until it returns, the flag
\* is looked at, and an entry that is there returned
LoadOrCreate(g) == Loading(g, closed \in {"open", "runtime"})

\* getMu: the mutex of the id, or a new one; a mutex is called by any name that
\* is free
GetMu(g) ==
    LET i == getter[g].id
        Join(m, own) == getter' = [getter EXCEPT ![g].pc = "lock", ![g].mu = m,
                                                 ![g].own = own]
    IN  /\ getter[g].pc = "mutex"
        /\ \/ single[i] # None /\ Join(single[i], FALSE) /\ UNCHANGED single
           \/ /\ single[i] = None
              /\ \E m \in Getters \ {getter[h].mu : h \in Getters} :
                   Join(m, TRUE) /\ single' = [single EXCEPT ![i] = m]
        /\ UNCHANGED <<rows, store, proxy, closed, editor, raced, upset, lost>>

\* mu.Unlock, and the return of all but the maker of the mutex
Unlocked(g) ==
    IF getter[g].own
    THEN [NoGet EXCEPT !.pc = "done", !.id = getter[g].id, !.mu = getter[g].mu]
    ELSE NoGet

\* mu.Lock and the second look: the entry is there by now ...
Inner(g) ==
    /\ getter[g].pc = "lock"
    /\ \A h \in Getters : getter[h].pc = "store" => getter[h].mu # getter[g].mu

FindEntry(g) ==
    /\ Inner(g) /\ store[getter[g].id] # None
    /\ getter' = [getter EXCEPT ![g] = Unlocked(g)]
    /\ UNCHANGED <<rows, store, proxy, closed, single, editor, raced, upset, lost>>

\* ... or the dialer is made ...
MakeDialer(g) ==
    /\ Inner(g) /\ store[getter[g].id] = None
    /\ \E p \in Proxies \ Made :
         /\ \A q \in Proxies \ Made : p <= q
         /\ proxy' = [proxy EXCEPT ![p] =
              [id |-> getter[g].id, version |-> getter[g].version, open |-> TRUE]]
         /\ getter' = [getter EXCEPT ![g].pc = "store", ![g].made = p]
    /\ UNCHANGED <<rows, store, closed, single, editor, raced, upset, lost>>

\* ... or cannot be made.
MakeFails(g) ==
    /\ Inner(g) /\ store[getter[g].id] = None
    /\ getter' = [getter EXCEPT ![g] = Unlocked(g)]
    /\ upset' = upset \cup {getter[g].id}
    /\ UNCHANGED <<rows, store, proxy, closed, single, editor, raced, lost>>

\* LoadOrStore: a dialer that finds another one in its place is forgotten
LoadOrStore(g) ==
    /\ getter[g].pc = "store"
    /\ LET i == getter[g].id
           p == getter[g].made
       IN  IF store[i] = None
           THEN store' = [store EXCEPT ![i] = p] /\ UNCHANGED lost
           ELSE lost' = lost \cup {p} /\ UNCHANGED store
    /\ getter' = [getter EXCEPT ![g] = Unlocked(g)]
    /\ UNCHANGED <<rows, proxy, closed, single, editor, raced, upset>>

\* done: the mutex leaves the map of mutexes
DropMu(g) ==
    /\ getter[g].pc = "done"
    /\ single' = [single EXCEPT ![getter[g].id] = None]
    /\ getter' = [getter EXCEPT ![g] = NoGet]
    /\ UNCHANGED <<rows, store, proxy, closed, editor, raced, upset, lost>>

-----------------------------------------------------------------------------
(* Edits.  "delete": ids to delete from the map; "close": a dialer taken    *)
(* out of it is closed; "write": the database; "using": clearIdleProxies.   *)

Edit(e, pc, i, todo, after) ==
    /\ editor[e].pc = "idle"
    /\ editor' = [editor EXCEPT ![e] =
         [pc |-> pc, id |-> i, todo |-> todo, closing |-> {}, after |-> after]]
    /\ UNCHANGED <<rows, store, proxy, closed, single, getter, raced, upset, lost>>

openNodes == closed = "open"

\* mutant: the dialer is deleted before the row is written
SaveLate(e, i) == openNodes /\ Edit(e, "delete", i, {i}, "save")

Save(e, i) == openNodes /\ Edit(e, "save", i, {i}, "delete")
CloseNode(e, i) == Edit(e, "delete", i, {i}, "idle")
ReplaceRemote(e, i) == Edit(e, "delete", i, {i}, "replace")
Remove(e, i) == Edit(e, "delete", i, {i}, "drop")
Use(e, i) == openNodes /\ nodes[i] # None /\ Edit(e, "use", i, {}, "using")
AddTag(e, i) == openNodes /\ Edit(e, "tag", i, {}, "using")
DeleteTag(e, i) == openNodes /\ Edit(e, "untag", i, {}, "using")

Writes == {"save", "replace", "drop", "use", "tag", "untag"}

Changed(version) ==
    IF version = None THEN 1
    ELSE IF version < MaxVersion THEN version + 1 ELSE version

\* The rows after an operation on i.  ReplaceRemote drops the other nodes of
\* the group: any that came from the same subscription.
NodesAfter(op, i) ==
    CASE op = "save"    -> {[nodes EXCEPT ![i] = Changed(@)]}
      [] op = "replace" -> {[j \in Ids |-> IF j = i THEN Changed(nodes[j])
                                           ELSE IF j \in gone THEN None ELSE nodes[j]] :
                              gone \in SUBSET (Ids \ {i})}
      [] op = "drop"    -> {[nodes EXCEPT ![i] = None]}
      [] OTHER          -> {nodes}

\* The tags; Delete of a node without a row is rolled back.
TagsAfter(op, i) ==
    CASE op = "tag"                       -> tagged \cup {i}
      [] op = "untag"                     -> tagged \ {i}
      [] op = "drop" /\ nodes[i] # None   -> tagged \ {i}
      [] OTHER                            -> tagged

\* A getter has read the row of i and not stored a dialer yet.
Reading(g, i) == getter[g].id = i /\ getter[g].pc # "done"

\* the operation of NodeStore; a selection outlives its node
Write(e) ==
    /\ editor[e].pc \in Writes
    /\ LET i == editor[e].id
           op == editor[e].pc
       IN  /\ nodes' \in NodesAfter(op, i)
           /\ selected' = IF op = "use" THEN {i} ELSE selected
           /\ tagged' = TagsAfter(op, i)
           /\ raced' = raced \cup
                {j \in Ids : /\ nodes'[j] # nodes[j]
                            /\ \/ op \in {"replace", "drop"}
                               \/ \E g \in Getters : Reading(g, j)}
    /\ editor' = [editor EXCEPT ![e].pc =
         IF editor[e].after = "delete" THEN "delete" ELSE "using"]
    /\ UNCHANGED <<store, proxy, closed, single, getter, upset, lost>>

\* An error of the database ends the call.  Use may have written one of its
\* two keys.
Fail(e) ==
    /\ editor[e].pc \in Writes \cup {"using"}
    /\ selected' \in {selected} \cup
         IF editor[e].pc # "use" THEN {}
         ELSE {{editor[e].id}} \cup {{editor[e].id, j} : j \in selected}
    /\ editor' = [editor EXCEPT ![e] = NoEdit]
    /\ UNCHANGED <<nodes, tagged, store, proxy, closed, single, getter, raced, upset, lost>>

\* clearIdleProxies: the ids in use are read, then all others deleted
ReadUsing(e) ==
    /\ editor[e].pc = "using"
    /\ editor' = [editor EXCEPT ![e].pc = "delete", ![e].after = "idle",
                                ![e].todo = Ids \ (tagged \cup selected)]
    /\ UNCHANGED <<rows, store, proxy, closed, single, getter, raced, upset, lost>>

\* Delete: LoadAndDelete
Delete(e, i) ==
    /\ editor[e].pc = "delete" /\ i \in editor[e].todo
    /\ store' = [store EXCEPT ![i] = None]
    /\ editor' = [editor EXCEPT ![e].todo = @ \ {i},
         ![e].closing = IF store[i] = None THEN @ ELSE @ \cup {store[i]}]
    /\ upset' = IF store[i] = None THEN upset ELSE upset \cup {i}
    /\ UNCHANGED <<rows, proxy, closed, single, getter, raced, lost>>

\* Delete: the entry is locked, its dialer closed
CloseProxy(e, p) ==
    /\ p \in editor[e].closing
    /\ proxy' = [proxy EXCEPT ![p].open = FALSE]
    /\ editor' = [editor EXCEPT ![e].closing = @ \ {p}]
    /\ UNCHANGED <<rows, store, closed, single, getter, raced, upset, lost>>

\* What comes after the deletions; openNodes for the calls that delete first.
Deleted(e) ==
    /\ editor[e].pc = "delete" /\ editor[e].todo = {} /\ editor[e].closing = {}
    /\ editor' = [editor EXCEPT ![e] =
         IF @.after \in Writes /\ openNodes
         THEN [@ EXCEPT !.pc = editor[e].after, !.after = "using"]
         ELSE NoEdit]
    /\ closed' = IF e = "Close" THEN "closed" ELSE closed
    /\ UNCHANGED <<rows, store, proxy, single, getter, raced, upset, lost>>

-----------------------------------------------------------------------------
(* Close: the flag of the runtime, that of the store, and, when no getter   *)
(* holds the lock, every dialer of the map in turn.                         *)

CloseBegin ==
    /\ closed = "open" /\ closed' = "runtime"
    /\ UNCHANGED <<rows, store, proxy, single, getter, editor, raced, upset, lost>>
CloseStore ==
    /\ closed = "runtime" /\ closed' = "store"
    /\ UNCHANGED <<rows, store, proxy, single, getter, editor, raced, upset, lost>>
CloseAll ==
    /\ closed = "store" /\ \A g \in Getters : getter[g].pc \in {"idle", "create"}
    /\ Edit("Close", "delete", None, Ids, "idle")

Next ==
    \/ \E g \in Getters :
         \/ \E i \in Ids : ReadNode(g, i)
         \/ LoadOrCreate(g) \/ GetMu(g) \/ FindEntry(g) \/ MakeDialer(g) \/ MakeFails(g)
         \/ LoadOrStore(g) \/ DropMu(g)
    \/ \E e \in Editors :
         \/ \E i \in Ids : \/ Save(e, i) \/ CloseNode(e, i) \/ ReplaceRemote(e, i)
                           \/ Remove(e, i) \/ Use(e, i) \/ AddTag(e, i)
                           \/ DeleteTag(e, i)
         \/ Write(e) \/ Fail(e) \/ ReadUsing(e)
    \/ \E d \in Deleters :
         \/ \E i \in Ids : Delete(d, i)
         \/ \E p \in Proxies : CloseProxy(d, p)
         \/ Deleted(d)
    \/ CloseBegin \/ CloseStore \/ CloseAll

Spec == Init /\ [][Next]_vars

-----------------------------------------------------------------------------
(* Properties. *)

Quiet == /\ \A g \in Getters : getter[g] = NoGet
         /\ \A d \in Deleters : editor[d] = NoEdit

\* When nothing is under way, a cached dialer was made from the definition in
\* the database (docs/sqlite-storage-redesign.md:970: "source of truth for node
\* definitions is SQLite").  Except where the row changed between the two steps
\* of a getter, or in a call that deletes the dialers first: a getter may then
\* keep a dialer of the old definition, and nothing deletes it.
CacheFresh ==
    Quiet => \A i \in Ids \ raced :
               store[i] # None => proxy[store[i]].version = nodes[i]

\* A dialer that is open is in the map, with the getter that is about to put it
\* there or held by the call that is closing it: overlapping deletions, edits
\* and Close lose none.  Except one whose place was taken while it was made
\* (syncmap.go:46): that takes an entry that was deleted, or could not be made,
\* while others waited for its mutex (syncmap.go:131).
NoOpenProxyLost ==
    /\ \A p \in Proxies \ lost : IsOpen(p) =>
        \/ store[proxy[p].id] = p
        \/ \E g \in Getters : getter[g].made = p
        \/ \E d \in Deleters : p \in editor[d].closing
    /\ \A p \in lost : proxy[p].id \in upset

\* After Close no dialer is open, whichever getters and edits were under way,
\* with the same exception.
ClosedMeansClosed ==
    closed = "closed" /\ Quiet => \A p \in Proxies \ lost : ~ IsOpen(p)

\* Overlapping deletions, edits and Close lose no open dialer, and Close leaves
\* none open (node/runtime.go and node/store.go).
NoDialerLost == NoOpenProxyLost /\ ClosedMeansClosed
=============================================================================
