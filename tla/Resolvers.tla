------------------------------ MODULE Resolvers -----------------------------
(* Resolvers as they are stored and as they are used: ResolverCtr writes the *)
(* database and then the runtime (resolver/resolver.go), lookups make a      *)
(* resolver when they first need it, the bootstrap resolver is swapped, and  *)
(* so are the pools and lists of FakeDNS, which have no lock                 *)
(* (resolver/fakeip.go).                                                     *)
EXTENDS Naturals, Sequences, FiniteSets

CONSTANTS
    Names,      \* ids of resolvers other than "bootstrap"
    Callers,    \* goroutines in Resolver.getResolver
    Editors,    \* requests of the API
    Configs,    \* what a resolver, the bootstrap or FakeDNS can be set to
    Bad,        \* the configs newContractResolver refuses
    None,
    MaxEdits    \* bound on the edits

VARIABLES
    stored,     \* the rows: by name, of the bootstrap and of FakeDNS
    configs,    \* Resolver.resolvers
    store,      \* Resolver.store: name to entry (0: none)
    entries,    \* every resolver made: name, config, and whether it is open
    single,     \* SyncMap.single.store: name to its mutex (None: none)
    caller,     \* per caller: where it is, name, config it read, the mutex it has or
                \* waits for and whether it made it, result
    editor,     \* per editor: where it is, what it edits, and the entry or pool in hand
    boot, bootstrapConfig,      \* what the bootstrap runs with; Resolver.bootstrapConfig
    whitelist, whitelistSlice,  \* the trie and the list it was made of
    fake, pools,                \* Fakedns.fake; every pool: its range and whether it is open
    edits,
    crossed,    \* history: what two edits overlapped on
    unequal,    \* history: names made from a config that was replaced meanwhile
    upset,      \* history: names whose entry left the store or could not be made
    lost,       \* history: entries made while another took their place in store
    refused     \* history: rows whose change failed, or whose pool could not be opened

lookups == <<store, entries, single, caller, unequal, upset, lost>>
bootstrap == <<boot, bootstrapConfig>>
fakedns == <<whitelist, whitelistSlice, fake, pools>>
vars == <<stored, configs, lookups, editor, bootstrap, fakedns, edits, crossed, refused>>

Rows == Names \cup {"bootstrap", "fakedns"}
Free == [at |-> "idle", name |-> None, config |-> None, mu |-> None, own |-> FALSE,
         entry |-> 0, closed |-> {}]
Idle == [at |-> "idle", row |-> None, config |-> None, old |-> 0, next |-> 0]
Closed == {x \in 1..Len(entries) : ~entries[x].open}

(* After ApplyStored, with one config for everything.                        *)
Init ==
    /\ \E c \in Configs \ Bad :
          /\ stored = [r \in Rows |-> c] /\ configs = [n \in Names |-> c]
          /\ boot = c /\ bootstrapConfig = c /\ whitelist = c /\ whitelistSlice = c
          /\ pools = <<[range |-> c, open |-> TRUE]>>
    /\ store = [n \in Names |-> 0] /\ entries = <<>> /\ single = [n \in Names |-> None]
    /\ caller = [c \in Callers |-> Free] /\ editor = [e \in Editors |-> Idle] /\ fake = 1
    /\ edits = 0 /\ crossed = {} /\ unequal = {} /\ refused = {}
    /\ upset = {} /\ lost = {}
-----------------------------------------------------------------------------
(* getResolver: an entry that is there is returned.                          *)
elsewhere == <<stored, configs, editor, bootstrap, fakedns, edits, crossed, refused>>
Get(c, n) ==
    /\ caller[c].at = "idle"
    /\ caller' = [caller EXCEPT ![c] =
          [Free EXCEPT !.at = IF store[n] # 0 THEN "got" ELSE "mutex", !.name = n,
                       !.entry = store[n], !.closed = Closed]]
    /\ UNCHANGED <<store, entries, single, unequal, upset, lost, elsewhere>>

(* LoadOrCreate: the mutex of the name, or a new one, called by any name     *)
(* that is free ...                                                          *)
GetMu(c) ==
    LET n == caller[c].name
        Join(m, own) == caller' = [caller EXCEPT ![c].at = "lock", ![c].mu = m, ![c].own = own]
    IN  /\ caller[c].at = "mutex"
        /\ \/ single[n] # None /\ Join(single[n], FALSE) /\ UNCHANGED single
           \/ /\ single[n] = None
              /\ \E m \in Callers \ {caller[d].mu : d \in Callers} :
                    Join(m, TRUE) /\ single' = [single EXCEPT ![n] = m]
        /\ UNCHANGED <<store, entries, unequal, upset, lost, elsewhere>>

(* ... which keeps those who wait for it apart: the entry is there by now,   *)
(* or the config is read; without one e is nil and e.Resolver panics.        *)
Lock(c) ==
    LET n == caller[c].name
        panics == store[n] = 0 /\ configs[n] = None
    IN  /\ caller[c].at = "lock"
        /\ \A d \in Callers : caller[d].at = "make" => caller[d].mu # caller[c].mu
        /\ caller' = [caller EXCEPT
              ![c].at = IF store[n] # 0 THEN "got" ELSE IF panics THEN "panicked" ELSE "make",
              ![c].entry = store[n], ![c].config = IF store[n] # 0 THEN None ELSE configs[n]]
        /\ upset' = IF panics THEN upset \cup {n} ELSE upset
        /\ UNCHANGED <<store, entries, single, unequal, lost, elsewhere>>

(* The constructor fails and so does getResolver, with the same panic, or it *)
(* makes the resolver, for the store or, when another one is there by now,   *)
(* for nobody.                                                               *)
Make(c) ==
    LET n == caller[c].name
        config == caller[c].config
        x == Len(entries) + 1
        Got(y) == caller' = [caller EXCEPT ![c].at = "got", ![c].entry = y, ![c].config = None]
    IN  /\ caller[c].at = "make"
        /\ IF config \in Bad
           THEN /\ caller' = [caller EXCEPT ![c].at = "panicked", ![c].config = None]
                /\ upset' = upset \cup {n} /\ UNCHANGED <<store, entries, unequal, lost>>
           ELSE /\ entries' = Append(entries, [name |-> n, config |-> config, open |-> TRUE])
                /\ UNCHANGED upset
                /\ IF store[n] = 0
                   THEN /\ Got(x) /\ store' = [store EXCEPT ![n] = x]
                        /\ unequal' = IF config # configs[n] THEN unequal \cup {n} ELSE unequal
                        /\ UNCHANGED lost
                   ELSE Got(store[n]) /\ lost' = lost \cup {x} /\ UNCHANGED <<store, unequal>>
        /\ UNCHANGED <<single, elsewhere>>

(* The maker of the mutex takes it out of the map of mutexes.                *)
Return(c) ==
    /\ caller[c].at \in {"got", "panicked"} /\ caller' = [caller EXCEPT ![c] = Free]
    /\ single' = IF caller[c].own THEN [single EXCEPT ![caller[c].name] = None] ELSE single
    /\ UNCHANGED <<store, entries, unequal, upset, lost, elsewhere>>
-----------------------------------------------------------------------------
Goes(e, at) == editor' = [editor EXCEPT ![e] = IF at = "idle" THEN Idle ELSE [@ EXCEPT !.at = at]]

(* SaveContract, SaveContractFakedns and RemoveContract begin with the row;  *)
(* a save whose row fails ends there, a removal goes on.                     *)
Edit(e, r, c, at) ==
    /\ editor[e].at = "idle" /\ edits < MaxEdits /\ edits' = edits + 1
    /\ editor' = [editor EXCEPT ![e] = [Idle EXCEPT !.at = at, !.row = r, !.config = c]]
    /\ crossed' = IF \E d \in Editors : editor[d].row = r THEN crossed \cup {r} ELSE crossed
    /\ UNCHANGED <<configs, lookups, bootstrap, fakedns>>
SaveContract(e, r, c) ==
    /\ Edit(e, r, c, CASE r \in Names -> "apply" [] r = "bootstrap" -> "boot" [] OTHER -> "list")
    /\ stored' = [stored EXCEPT ![r] = c] /\ refused' = refused \ {r}
RemoveContract(e, n, ok) ==
    /\ Edit(e, n, None, "apply")
    /\ stored' = IF ok THEN [stored EXCEPT ![n] = None] ELSE stored
    /\ refused' = IF ok THEN refused \ {n} ELSE refused \cup {n}

(* Resolver.Apply and Delete, under the lock: the config, and the entry made *)
(* of another one leaves the store ...                                       *)
Applied(e, left) ==
    LET n == editor[e].row
        c == editor[e].config
        x == store[n]
        replaced == x # 0 /\ (c = None \/ entries[x].config # c)
    IN  /\ editor[e].at = "apply" /\ configs' = [configs EXCEPT ![n] = c]
        /\ IF replaced
           THEN /\ store' = [store EXCEPT ![n] = left] /\ unequal' = unequal \ {n}
                /\ upset' = upset \cup {n}
                /\ editor' = [editor EXCEPT ![e].at = "close", ![e].old = x]
           ELSE Goes(e, "idle") /\ UNCHANGED <<store, unequal, upset>>
        /\ UNCHANGED <<stored, entries, single, caller, lost, bootstrap, fakedns, edits, crossed,
                       refused>>
Apply(e) == Applied(e, 0)

(* ... and is closed without it.                                             *)
CloseOld(e) ==
    /\ editor[e].at = "close" /\ entries' = [entries EXCEPT ![editor[e].old].open = FALSE]
    /\ Goes(e, "idle")
    /\ UNCHANGED <<stored, configs, store, single, caller, unequal, upset, lost, bootstrap,
                   fakedns, edits, crossed, refused>>
-----------------------------------------------------------------------------
(* ApplyBootstrap: nothing for the same config; else SetBootstrap closes the *)
(* old resolver and takes the new one, and the config is noted later.        *)
ApplyBootstrap(e) ==
    /\ editor[e].at = "boot"
    /\ Goes(e, IF bootstrapConfig = editor[e].config THEN "idle" ELSE "swap")
    /\ UNCHANGED <<stored, configs, lookups, bootstrap, fakedns, edits, crossed, refused>>
SetBootstrap(e) ==
    /\ editor[e].at = "swap"
    /\ IF editor[e].config \in Bad THEN Goes(e, "idle") /\ UNCHANGED boot
       ELSE Goes(e, "note") /\ boot' = editor[e].config
    /\ UNCHANGED <<stored, configs, lookups, bootstrapConfig, fakedns, edits, crossed, refused>>
NoteBootstrap(e) ==
    /\ editor[e].at = "note" /\ bootstrapConfig' = editor[e].config /\ Goes(e, "idle")
    /\ UNCHANGED <<stored, configs, lookups, boot, fakedns, edits, crossed, refused>>
-----------------------------------------------------------------------------
(* Fakedns.Apply: the trie, then the list it was made of ...                 *)
ApplyList(e) ==
    /\ editor[e].at = "list"
    /\ IF whitelistSlice = editor[e].config THEN Goes(e, "range") /\ UNCHANGED whitelist
       ELSE Goes(e, "slice") /\ whitelist' = editor[e].config
    /\ UNCHANGED <<stored, configs, lookups, bootstrap, whitelistSlice, fake, pools, edits,
                   crossed, refused>>
NoteList(e) ==
    /\ editor[e].at = "slice" /\ whitelistSlice' = editor[e].config /\ Goes(e, "range")
    /\ UNCHANGED <<stored, configs, lookups, bootstrap, whitelist, fake, pools, edits, crossed,
                   refused>>

(* ... then the pools, when the ranges differ and they can be opened ...     *)
OpenPools(e, ok) ==
    /\ editor[e].at = "range"
    /\ IF pools[fake].range = editor[e].config
       THEN ok /\ Goes(e, "idle") /\ UNCHANGED <<pools, refused>>
       ELSE IF ok
       THEN /\ pools' = Append(pools, [range |-> editor[e].config, open |-> TRUE])
            /\ editor' = [editor EXCEPT ![e].at = "old", ![e].next = Len(pools) + 1]
            /\ UNCHANGED refused
       ELSE Goes(e, "idle") /\ refused' = refused \cup {"fakedns"} /\ UNCHANGED pools
    /\ UNCHANGED <<stored, configs, lookups, bootstrap, whitelist, whitelistSlice, fake, edits,
                   crossed>>

(* ... and take the place of the old ones, which are closed.                 *)
ReadOld(e) ==
    /\ editor[e].at = "old" /\ editor' = [editor EXCEPT ![e].at = "next", ![e].old = fake]
    /\ UNCHANGED <<stored, configs, lookups, bootstrap, fakedns, edits, crossed, refused>>
StoreNext(e) ==
    /\ editor[e].at = "next" /\ fake' = editor[e].next /\ Goes(e, "pool")
    /\ UNCHANGED <<stored, configs, lookups, bootstrap, whitelist, whitelistSlice, pools, edits,
                   crossed, refused>>
ClosePools(e) ==
    /\ editor[e].at = "pool" /\ pools' = [pools EXCEPT ![editor[e].old].open = FALSE]
    /\ Goes(e, "idle")
    /\ UNCHANGED <<stored, configs, lookups, bootstrap, whitelist, whitelistSlice, fake, edits,
                   crossed, refused>>

Next ==
    \/ \E c \in Callers : GetMu(c) \/ Lock(c) \/ Make(c) \/ Return(c) \/ \E n \in Names : Get(c, n)
    \/ \E e \in Editors :
          \/ \E r \in Rows, c \in Configs : SaveContract(e, r, c)
          \/ \E n \in Names, ok \in BOOLEAN : RemoveContract(e, n, ok)
          \/ Apply(e) \/ CloseOld(e)
          \/ ApplyBootstrap(e) \/ SetBootstrap(e) \/ NoteBootstrap(e)
          \/ ApplyList(e) \/ NoteList(e) \/ ReadOld(e) \/ StoreNext(e) \/ ClosePools(e)
          \/ \E ok \in BOOLEAN : OpenPools(e, ok)

Spec == Init /\ [][Next]_vars
-----------------------------------------------------------------------------
AtRest == \A e \in Editors : editor[e].at = "idle"

(* A lookup never gets a resolver that was closed before it began            *)
(* (resolver.go:143).                                                        *)
NeverClosedBefore == \A c \in Callers : caller[c].at = "got" => caller[c].entry \notin caller[c].closed

(* When no edit is under way, the config of a name is the stored one; its    *)
(* resolver, if it has been made, is open and has that config; and no other  *)
(* is open.  Two edits of a name may cross (resolver.go:399), a lookup may   *)
(* store a resolver of the config it read before an edit (resolver.go:107),  *)
(* and a resolver stays open and unknown when another one took its place     *)
(* while it was made: that takes one that was dropped or could not be made   *)
(* while others waited for its mutex (syncmap.go:46, syncmap.go:131).        *)
NamesAsStored ==
    AtRest =>
        /\ \A n \in Names \ crossed : n \notin refused => configs[n] = stored[n]
        /\ \A n \in Names : store[n] # 0 =>
              /\ entries[store[n]].open
              /\ entries[store[n]].config = configs[n] \/ n \in unequal
        /\ \A x \in 1..Len(entries) : entries[x].open =>
              IF x \in lost THEN entries[x].name \in upset ELSE store[entries[x].name] = x

(* The same of the bootstrap resolver, unless it was refused ...             *)
BootstrapAsStored ==
    AtRest /\ "bootstrap" \notin crossed =>
        /\ boot = bootstrapConfig
        /\ stored["bootstrap"] \in Bad \/ boot = stored["bootstrap"]

(* ... and of FakeDNS: one open pool.  Applications that overlap may leave   *)
(* others open, or the trie of one with the list of the other, after which   *)
(* the list is never applied (fakeip.go:87, fakeip.go:117); but none of them *)
(* closes the pool that lookups use.                                         *)
FakednsAsStored ==
    /\ pools[fake].open
    /\ AtRest /\ "fakedns" \notin crossed =>
        /\ whitelist = whitelistSlice /\ whitelist = stored["fakedns"]
        /\ {p \in 1..Len(pools) : pools[p].open} = {fake}
        /\ pools[fake].range = stored["fakedns"] \/ "fakedns" \in refused

ResolversAsStored ==
    NeverClosedBefore /\ NamesAsStored /\ BootstrapAsStored /\ FakednsAsStored
=============================================================================
