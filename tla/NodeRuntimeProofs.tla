-------------------------- MODULE NodeRuntimeProofs -------------------------
(***************************************************************************)
(* Proofs about NodeRuntime, for any number of nodes, dialers, getters and *)
(* edits.  First what each step does to the records of the calls, then the *)
(* invariants: the mutex keeps the getters of an id apart while its entry  *)
(* was never deleted, no open dialer is lost, which also needs to know     *)
(* what Close has emptied, and the dialers in the map are fresh or about   *)
(* to go.                                                                  *)
(***************************************************************************)
EXTENDS NodeRuntime, TLAPS

USE SMTT(30)

EditorPC == Writes \cup {"idle", "using", "delete"}
GetterPC == {"idle", "create", "mutex", "lock", "store", "done"}
Dialer == [id : Ids, version : Nat, open : BOOLEAN]
GetType == [pc : GetterPC, id : Ids \cup {None}, version : Nat, mu : Getters \cup {None},
            own : BOOLEAN, made : Proxies \cup {None}]
EditType == [pc : EditorPC, id : Ids \cup {None}, todo : SUBSET Ids,
             closing : SUBSET Proxies, after : EditorPC]
ClosedType == {"open", "runtime", "store", "closed"}

Types ==
    /\ nodes \in [Ids -> Nat \cup {None}]
    /\ selected \subseteq Ids /\ tagged \subseteq Ids /\ raced \subseteq Ids
    /\ upset \subseteq Ids /\ lost \subseteq Proxies
    /\ store \in [Ids -> Proxies \cup {None}]
    /\ proxy \in [Proxies -> Dialer \cup {None}]
    /\ closed \in ClosedType
    /\ single \in [Ids -> Getters \cup {None}]
    /\ getter \in [Getters -> GetType]
    /\ editor \in [Deleters -> EditType]

\* A call holds dialers only while it deletes, and knows the node it works on.
\* Save deletes after it has written; only Close closes.
Courses ==
    /\ \A d \in Deleters :
         /\ editor[d].pc # "delete" => editor[d].closing = {}
         /\ editor[d].pc \in Writes \/ editor[d].after \in Writes => editor[d].id \in Ids
         /\ editor[d].pc = "save" => editor[d].after = "delete" /\ editor[d].id \in editor[d].todo
         /\ editor[d].after # "save"
    /\ editor["Close"].after = "idle"
    /\ editor["Close"].pc = "idle" \/ (editor["Close"].pc = "delete" /\ closed = "store")

\* What a getter knows at each step: its node, its mutex, and the dialer that it
\* has made of what it has read.
Known(pc, id, mu, made) ==
    /\ id \in Ids \/ (pc = "idle" /\ id = None)
    /\ pc \in {"idle", "create", "mutex"} <=> mu = None
    /\ pc = "store" <=> made # None

\* A getter that has the read lock keeps Close out.
Calls ==
    \A g \in Getters :
        /\ Known(getter[g].pc, getter[g].id, getter[g].mu, getter[g].made)
        /\ getter[g].made # None =>
             /\ proxy[getter[g].made] # None
             /\ proxy[getter[g].made].id = getter[g].id
             /\ proxy[getter[g].made].version = getter[g].version
        /\ getter[g].pc \notin {"idle", "create"} =>
             closed # "closed" /\ editor["Close"].pc # "delete"

\* No two getters make a dialer under one mutex.  While the entry of an id was
\* neither deleted nor impossible to make, all who want to make it wait for the
\* mutex in the map of mutexes, until it is made.
Apart ==
    /\ \A g, h \in Getters :
         getter[g].pc = "store" /\ getter[h].pc = "store" /\ getter[g].mu = getter[h].mu => g = h
    /\ \A g \in Getters : getter[g].id \in Ids \ upset =>
         IF store[getter[g].id] = None
         THEN /\ getter[g].pc # "done"
              /\ getter[g].pc \in {"lock", "store"} => getter[g].mu = single[getter[g].id]
         ELSE getter[g].pc # "store"

\* The map holds dialers that were made, and so do the calls that close them.
Holds ==
    /\ \A i \in Ids : store[i] # None => proxy[store[i]] # None
    /\ \A d \in Deleters : \A p \in editor[d].closing : proxy[p] # None
    /\ \A p \in lost : proxy[p] # None

\* Close takes everything out of the map, and nothing comes back.
Emptied ==
    /\ editor["Close"].pc = "delete" =>
         \A i \in Ids \ editor["Close"].todo : store[i] = None
    /\ closed = "closed" => \A i \in Ids : store[i] = None

Lost == NoOpenProxyLost /\ Holds /\ Emptied

\* What a getter has read is in the database, and a dialer in the map is made
\* from it or about to be deleted.
Fresh ==
    \A i \in Ids \ raced :
        /\ \A g \in Getters : Reading(g, i) => getter[g].version = nodes[i]
        /\ store[i] # None =>
             \/ proxy[store[i]].version = nodes[i]
             \/ \E d \in Deleters : editor[d].pc = "delete" /\ i \in editor[d].todo

LEMMA Constants ==
    /\ None \notin Proxies /\ None \notin Dialer /\ None \notin Ids /\ "Close" \in Deleters
    /\ \A e \in Editors : e \in Deleters /\ e # "Close"
  BY NodeRuntimeConstants DEF Proxies, Dialer, Deleters

LEMMA TypesInit == Init => Types /\ Courses /\ Calls /\ Apart
<1>1. /\ NoGet \in GetType /\ NoGet.pc = "idle" /\ NoGet.id = None /\ NoGet.mu = None
      /\ NoGet.made = None
  BY Zenon DEF NoGet, GetType, GetterPC
<1>2. NoEdit \in EditType
  BY Zenon DEF NoEdit, EditType, EditorPC, Writes
<1>3. Init => Types
  BY <1>1, <1>2 DEF Init, Types, ClosedType
<1>4. Init => Courses
  BY Constants DEF Init, Courses, NoEdit, Writes
<1>5. Init => Calls /\ Apart
  <2>1. Init => \A g \in Getters : getter[g] = NoGet
    BY Zenon DEF Init
  <2> QED
    BY <1>1, <2>1, Constants DEF Calls, Known, Apart
<1> QED
  BY <1>3, <1>4, <1>5, Zenon
-----------------------------------------------------------------------------
(* What the steps do. *)

\* The record of call d becomes that with these fields.
Ed(d, pc, id, todo, hold, after) ==
    /\ editor' \in [Deleters -> EditType]
    /\ editor'[d].pc = pc /\ editor'[d].id = id /\ editor'[d].todo = todo
    /\ editor'[d].closing = hold /\ editor'[d].after = after
    /\ \A b \in Deleters \ {d} : editor'[b] = editor[b]

LEMMA EdPut ==
    ASSUME Types, NEW d \in Deleters, NEW r \in EditType, editor' = [editor EXCEPT ![d] = r]
    PROVE  Ed(d, r.pc, r.id, r.todo, r.closing, r.after)
<1>1. editor \in [Deleters -> EditType]
  BY Zenon DEF Types
<1>2. /\ editor' \in [Deleters -> EditType] /\ editor'[d] = r
      /\ \A b \in Deleters \ {d} : editor'[b] = editor[b]
  BY <1>1, Zenon
<1> QED
  BY <1>2, Zenon DEF Ed

LEMMA EdFields ==
    ASSUME Types, NEW d \in Deleters
    PROVE  /\ editor[d] \in EditType
           /\ editor[d].pc \in EditorPC /\ editor[d].id \in Ids \cup {None}
           /\ editor[d].todo \in SUBSET Ids /\ editor[d].closing \in SUBSET Proxies
           /\ editor[d].after \in EditorPC
  BY Zenon DEF Types, EditType

LEMMA EdIdle ==
    ASSUME Types, NEW d \in Deleters, editor' = [editor EXCEPT ![d] = NoEdit]
    PROVE  Ed(d, "idle", None, {}, {}, "idle")
<1>1. /\ NoEdit \in EditType /\ NoEdit.pc = "idle" /\ NoEdit.id = None /\ NoEdit.todo = {}
      /\ NoEdit.closing = {} /\ NoEdit.after = "idle"
  BY Zenon DEF NoEdit, EditType, EditorPC
<1>2. Ed(d, NoEdit.pc, NoEdit.id, NoEdit.todo, NoEdit.closing, NoEdit.after)
  BY <1>1, EdPut, Zenon
<1> QED
  BY <1>1, <1>2, Zenon

\* All but the calls that edit.
rest == <<nodes, selected, tagged, store, proxy, closed, single, getter, raced, upset, lost>>

LEMMA EditDoes ==
    ASSUME Types, NEW d \in Deleters, NEW pc \in EditorPC, NEW i \in Ids \cup {None},
           NEW todo \in SUBSET Ids, NEW after \in EditorPC, Edit(d, pc, i, todo, after)
    PROVE  editor[d].pc = "idle" /\ Ed(d, pc, i, todo, {}, after) /\ UNCHANGED rest
<1> DEFINE r == [pc |-> pc, id |-> i, todo |-> todo, closing |-> {}, after |-> after]
<1>1. editor[d].pc = "idle" /\ UNCHANGED rest /\ editor' = [editor EXCEPT ![d] = r]
  BY Zenon DEF Edit, rest, rows
<1>2. /\ r \in EditType /\ r.pc = pc /\ r.id = i /\ r.todo = todo /\ r.closing = {}
      /\ r.after = after
  BY Zenon DEF EditType
<1>3. Ed(d, r.pc, r.id, r.todo, r.closing, r.after)
  BY <1>1, <1>2, EdPut, Zenon
<1> QED
  BY <1>1, <1>2, <1>3, Zenon

\* The calls that begin.
Opens(e, i) ==
    \/ Save(e, i) \/ CloseNode(e, i) \/ ReplaceRemote(e, i) \/ Remove(e, i) \/ Use(e, i)
    \/ AddTag(e, i) \/ DeleteTag(e, i)

LEMMA BeginDoes ==
    ASSUME Types, NEW e \in Editors, NEW i \in Ids, Opens(e, i)
    PROVE  /\ editor[e].pc = "idle" /\ UNCHANGED rest
           /\ \/ Ed(e, "save", i, {i}, {}, "delete")
              \/ \E after \in {"idle", "replace", "drop"} : Ed(e, "delete", i, {i}, {}, after)
              \/ \E pc \in {"use", "tag", "untag"} : Ed(e, pc, i, {}, {}, "using")
<1>0. /\ e \in Deleters /\ {"save", "delete", "idle", "replace", "drop", "use", "tag", "untag",
                            "using"} \subseteq EditorPC
      /\ {i} \in SUBSET Ids /\ {} \in SUBSET Ids
  BY Constants, Zenon DEF EditorPC, Writes
<1>1. CASE Save(e, i)
  <2>1. Edit(e, "save", i, {i}, "delete")
    BY <1>1, Zenon DEF Save
  <2> QED
    BY <1>0, <2>1, EditDoes, Zenon
<1>2. CASE CloseNode(e, i) \/ ReplaceRemote(e, i) \/ Remove(e, i)
  <2>1. PICK after \in {"idle", "replace", "drop"} : Edit(e, "delete", i, {i}, after)
    BY <1>2, Zenon DEF CloseNode, ReplaceRemote, Remove
  <2> QED
    BY <1>0, <2>1, EditDoes, Zenon
<1>3. CASE Use(e, i) \/ AddTag(e, i) \/ DeleteTag(e, i)
  <2>1. PICK pc \in {"use", "tag", "untag"} : Edit(e, pc, i, {}, "using")
    BY <1>3, Zenon DEF Use, AddTag, DeleteTag
  <2> QED
    BY <1>0, <2>1, EditDoes, Zenon
<1> QED
  BY <1>1, <1>2, <1>3, Zenon DEF Opens

LEMMA FailDoes ==
    ASSUME Types, Courses, NEW e \in Editors, Fail(e)
    PROVE  /\ editor[e].pc \in Writes \cup {"using"} /\ Ed(e, "idle", None, {}, {}, "idle")
           /\ selected' \subseteq Ids
           /\ UNCHANGED <<nodes, tagged, store, proxy, closed, single, getter, raced, upset, lost>>
<1>1. e \in Deleters
  BY Constants, Zenon
<1>2. Ed(e, "idle", None, {}, {}, "idle")
  BY <1>1, EdIdle, Zenon DEF Fail
<1>3. selected' \subseteq Ids
  <2>1. CASE editor[e].pc # "use"
    BY <2>1, Zenon DEF Fail, Types
  <2>2. CASE editor[e].pc = "use"
    <3>1. \/ selected' = selected \/ selected' = {editor[e].id}
          \/ \E j \in selected : selected' = {editor[e].id, j}
      BY <2>2, Zenon DEF Fail
    <3>2. editor[e].id \in Ids
      BY <1>1, <2>2, Zenon DEF Courses, Writes
    <3> QED
      BY <3>1, <3>2, Zenon DEF Types
  <2> QED
    BY <2>1, <2>2, Zenon
<1> QED
  BY <1>2, <1>3, Zenon DEF Fail

LEMMA ReadUsingDoes ==
    ASSUME Types, NEW e \in Editors, ReadUsing(e)
    PROVE  /\ editor[e].pc = "using" /\ UNCHANGED rest
           /\ \E todo \in SUBSET Ids :
                Ed(e, "delete", editor[e].id, todo, editor[e].closing, "idle")
<1>1. e \in Deleters /\ "delete" \in EditorPC /\ "idle" \in EditorPC
  BY Constants, Zenon DEF EditorPC
<1> DEFINE todo == Ids \ (tagged \cup selected)
<1>2. todo \in SUBSET Ids
  BY Zenon
<1> DEFINE r == [editor[e] EXCEPT !.pc = "delete", !.after = "idle", !.todo = todo]
<1>3. editor' = [editor EXCEPT ![e] = r]
  BY <1>1, Zenon DEF ReadUsing, Types
<1>4. editor[e] \in EditType
  BY <1>1, EdFields, Zenon
<1>5. /\ r \in EditType /\ r.pc = "delete" /\ r.id = editor[e].id /\ r.todo = todo
      /\ r.closing = editor[e].closing /\ r.after = "idle"
  BY <1>1, <1>2, <1>4, Zenon DEF EditType
<1>6. Ed(e, r.pc, r.id, r.todo, r.closing, r.after)
  BY <1>1, <1>3, <1>5, EdPut, Zenon
<1>7. Ed(e, "delete", editor[e].id, todo, editor[e].closing, "idle")
  BY <1>5, <1>6, Zenon
<1> QED
  BY <1>2, <1>7, Zenon DEF ReadUsing, rest, rows

\* Entry i leaves the map.
LEMMA DeleteDoes ==
    ASSUME Types, NEW d \in Deleters, NEW i \in Ids, Delete(d, i)
    PROVE  /\ editor[d].pc = "delete" /\ i \in editor[d].todo
           /\ UNCHANGED <<nodes, selected, tagged, proxy, closed, single, getter, raced, lost>>
           /\ store' \in [Ids -> Proxies \cup {None}] /\ store'[i] = None
           /\ \A j \in Ids \ {i} : store'[j] = store[j]
           /\ upset' = IF store[i] = None THEN upset ELSE upset \cup {i}
           /\ \E hold \in SUBSET Proxies :
                /\ hold = editor[d].closing \cup ({store[i]} \ {None})
                /\ Ed(d, "delete", editor[d].id, editor[d].todo \ {i}, hold, editor[d].after)
<1>1. /\ editor[d].pc = "delete" /\ i \in editor[d].todo /\ store' = [store EXCEPT ![i] = None]
      /\ UNCHANGED <<nodes, selected, tagged, proxy, closed, single, getter, raced, lost>>
      /\ upset' = IF store[i] = None THEN upset ELSE upset \cup {i}
  BY Zenon DEF Delete, rows
<1>2. /\ store' \in [Ids -> Proxies \cup {None}] /\ store'[i] = None
      /\ \A j \in Ids \ {i} : store'[j] = store[j]
  BY <1>1, Zenon DEF Types
<1> DEFINE todo == editor[d].todo \ {i}
           hold == editor[d].closing \cup ({store[i]} \ {None})
           r == [editor[d] EXCEPT !.todo = todo, !.closing = hold]
<1>3. editor[d] \in EditType /\ store[i] \in Proxies \cup {None}
  BY EdFields, Zenon DEF Types
<1>4. todo \in SUBSET Ids /\ hold \in SUBSET Proxies
  BY <1>3, EdFields, Zenon
<1>5. hold = IF store[i] = None THEN editor[d].closing ELSE editor[d].closing \cup {store[i]}
  BY Zenon
<1>6. editor' = [editor EXCEPT ![d] = r]
  <2> HIDE DEF hold
  <2>1. editor' = [editor EXCEPT ![d].todo = @ \ {i}, ![d].closing = hold]
    BY <1>5, Zenon DEF Delete
  <2> QED
    BY <2>1, Zenon DEF Types
<1>7. /\ r \in EditType /\ r.pc = "delete" /\ r.id = editor[d].id /\ r.todo = todo
      /\ r.closing = hold /\ r.after = editor[d].after
  <2> HIDE DEF hold, todo
  <2> QED
    BY <1>1, <1>3, <1>4, Zenon DEF EditType
<1>8. Ed(d, r.pc, r.id, r.todo, r.closing, r.after)
  BY <1>6, <1>7, EdPut, Zenon
<1>9. Ed(d, "delete", editor[d].id, todo, hold, editor[d].after)
  BY <1>7, <1>8, Zenon
<1> QED
  BY <1>1, <1>2, <1>4, <1>9, Zenon

\* Dialer p is closed.
LEMMA CloseProxyDoes ==
    ASSUME Types, Holds, NEW d \in Deleters, NEW p \in Proxies, CloseProxy(d, p)
    PROVE  /\ p \in editor[d].closing
           /\ UNCHANGED <<nodes, selected, tagged, store, closed, single, getter, raced, upset, lost>>
           /\ Ed(d, editor[d].pc, editor[d].id, editor[d].todo, editor[d].closing \ {p},
                 editor[d].after)
           /\ proxy' \in [Proxies -> Dialer \cup {None}] /\ proxy[p] # None /\ proxy'[p] # None
           /\ ~proxy'[p].open /\ proxy'[p].id = proxy[p].id
           /\ proxy'[p].version = proxy[p].version
           /\ \A q \in Proxies \ {p} : proxy'[q] = proxy[q]
<1>1. /\ p \in editor[d].closing /\ proxy' = [proxy EXCEPT ![p].open = FALSE]
      /\ UNCHANGED <<nodes, selected, tagged, store, closed, single, getter, raced, upset, lost>>
      /\ editor' = [editor EXCEPT ![d].closing = editor[d].closing \ {p}]
  BY Zenon DEF CloseProxy, rows
<1> DEFINE hold == editor[d].closing \ {p}
           r == [editor[d] EXCEPT !.closing = hold]
           dialer == [proxy[p] EXCEPT !.open = FALSE]
<1>2. hold \in SUBSET Proxies /\ editor[d] \in EditType
  BY EdFields, Zenon
<1>3. /\ r \in EditType /\ r.pc = editor[d].pc /\ r.id = editor[d].id
      /\ r.todo = editor[d].todo /\ r.closing = hold /\ r.after = editor[d].after
  <2> HIDE DEF hold
  <2> QED
    BY <1>2, Zenon DEF EditType
<1>4. Ed(d, r.pc, r.id, r.todo, r.closing, r.after)
  BY <1>1, <1>3, EdPut, Zenon
<1>5. Ed(d, editor[d].pc, editor[d].id, editor[d].todo, hold, editor[d].after)
  BY <1>3, <1>4, Zenon
<1>6. proxy[p] \in Dialer /\ proxy[p] # None
  BY <1>1, Zenon DEF Types, Holds
<1>7. dialer \in Dialer /\ ~dialer.open /\ dialer.id = proxy[p].id /\ dialer.version = proxy[p].version
  BY <1>6, Zenon DEF Dialer
<1>8. /\ proxy' \in [Proxies -> Dialer \cup {None}] /\ proxy'[p] = dialer
      /\ \A q \in Proxies \ {p} : proxy'[q] = proxy[q]
  <2>1. proxy' = [proxy EXCEPT ![p] = dialer]
    BY <1>1, Zenon
  <2> HIDE DEF dialer
  <2> QED
    BY <1>7, <2>1, Zenon DEF Types
<1> QED
  BY <1>1, <1>5, <1>6, <1>7, <1>8, Constants, Zenon

LEMMA DeletedDoes ==
    ASSUME Types, NEW d \in Deleters, Deleted(d)
    PROVE  /\ editor[d].pc = "delete" /\ editor[d].todo = {} /\ editor[d].closing = {}
           /\ UNCHANGED <<nodes, selected, tagged, store, proxy, single, getter, raced, upset, lost>>
           /\ closed' = IF d = "Close" THEN "closed" ELSE closed
           /\ \/ Ed(d, "idle", None, {}, {}, "idle")
              \/ /\ editor[d].after \in Writes
                 /\ Ed(d, editor[d].after, editor[d].id, {}, {}, "using")
<1>1. /\ editor[d].pc = "delete" /\ editor[d].todo = {} /\ editor[d].closing = {}
      /\ UNCHANGED <<nodes, selected, tagged, store, proxy, single, getter, raced, upset, lost>>
      /\ closed' = IF d = "Close" THEN "closed" ELSE closed
  BY Zenon DEF Deleted, rows
<1>2. CASE editor[d].after \in Writes /\ openNodes
  <2> DEFINE r == [editor[d] EXCEPT !.pc = editor[d].after, !.after = "using"]
  <2>1. editor' = [editor EXCEPT ![d] = r]
    BY <1>2, Zenon DEF Deleted
  <2>2. editor[d] \in EditType /\ editor[d].after \in EditorPC /\ "using" \in EditorPC
    BY EdFields, Zenon DEF EditorPC
  <2>3. /\ r \in EditType /\ r.pc = editor[d].after /\ r.id = editor[d].id /\ r.todo = {}
        /\ r.closing = {} /\ r.after = "using"
    BY <1>1, <2>2, Zenon DEF EditType
  <2>4. Ed(d, r.pc, r.id, r.todo, r.closing, r.after)
    BY <2>1, <2>3, EdPut, Zenon
  <2> QED
    BY <1>1, <1>2, <2>3, <2>4, Zenon
<1>3. CASE ~(editor[d].after \in Writes /\ openNodes)
  <2>1. editor' = [editor EXCEPT ![d] = NoEdit]
    BY <1>3, Zenon DEF Deleted
  <2> QED
    BY <1>1, <2>1, EdIdle, Zenon
<1> QED
  BY <1>2, <1>3, Zenon


\* The record of getter g becomes that with these fields.
Got(g, pc, id, version, mu, made) ==
    /\ getter' \in [Getters -> GetType]
    /\ getter'[g].pc = pc /\ getter'[g].id = id /\ getter'[g].version = version
    /\ getter'[g].mu = mu /\ getter'[g].made = made
    /\ \A h \in Getters \ {g} : getter'[h] = getter[h]

LEMMA GotPut ==
    ASSUME Types, NEW g \in Getters, NEW r \in GetType, getter' = [getter EXCEPT ![g] = r]
    PROVE  Got(g, r.pc, r.id, r.version, r.mu, r.made)
<1>1. getter \in [Getters -> GetType]
  BY Zenon DEF Types
<1>2. /\ getter' \in [Getters -> GetType] /\ getter'[g] = r
      /\ \A h \in Getters \ {g} : getter'[h] = getter[h]
  BY <1>1, Zenon
<1> QED
  BY <1>2, Zenon DEF Got

LEMMA GotFields ==
    ASSUME Types, NEW g \in Getters
    PROVE  /\ getter[g] \in GetType
           /\ getter[g].pc \in GetterPC /\ getter[g].id \in Ids \cup {None}
           /\ getter[g].version \in Nat /\ getter[g].mu \in Getters \cup {None}
           /\ getter[g].own \in BOOLEAN /\ getter[g].made \in Proxies \cup {None}
  BY Zenon DEF Types, GetType

LEMMA GotIdle ==
    ASSUME Types, NEW g \in Getters, getter' = [getter EXCEPT ![g] = NoGet]
    PROVE  Got(g, "idle", None, 0, None, None)
<1>1. /\ NoGet \in GetType /\ NoGet.pc = "idle" /\ NoGet.id = None /\ NoGet.version = 0
      /\ NoGet.mu = None /\ NoGet.made = None
  BY Zenon DEF NoGet, GetType, GetterPC
<1>2. Got(g, NoGet.pc, NoGet.id, NoGet.version, NoGet.mu, NoGet.made)
  BY <1>1, GotPut, Zenon
<1> QED
  BY <1>1, <1>2, Zenon

\* All but the getters.
others == <<nodes, selected, tagged, store, proxy, closed, single, editor, raced, upset, lost>>

LEMMA ReadNodeDoes ==
    ASSUME Types, NEW g \in Getters, NEW i \in Ids, ReadNode(g, i)
    PROVE  Got(g, "create", i, nodes[i], None, None) /\ UNCHANGED others
<1> DEFINE r == [NoGet EXCEPT !.pc = "create", !.id = i, !.version = nodes[i]]
<1>1. nodes[i] # None /\ getter' = [getter EXCEPT ![g] = r] /\ UNCHANGED others
  BY Zenon DEF ReadNode, others, rows
<1>2. nodes[i] \in Nat
  BY <1>1, Zenon DEF Types
<1>3. /\ r \in GetType /\ r.pc = "create" /\ r.id = i /\ r.version = nodes[i] /\ r.mu = None
      /\ r.made = None
  BY <1>2, Zenon DEF NoGet, GetType, GetterPC
<1>4. Got(g, r.pc, r.id, r.version, r.mu, r.made)
  BY <1>1, <1>3, GotPut, Zenon
<1> QED
  BY <1>1, <1>3, <1>4, Zenon

LEMMA LoadDoes ==
    ASSUME Types, NEW g \in Getters, LoadOrCreate(g)
    PROVE  /\ getter[g].pc = "create" /\ UNCHANGED others
           /\ \/ Got(g, "idle", None, 0, None, None)
              \/ /\ closed \in {"open", "runtime"} /\ store[getter[g].id] = None
                 /\ Got(g, "mutex", getter[g].id, getter[g].version, getter[g].mu, getter[g].made)
<1> DEFINE r == [getter[g] EXCEPT !.pc = "mutex"]
<1>1. /\ getter[g].pc = "create" /\ UNCHANGED others
      /\ \/ getter' = [getter EXCEPT ![g] = NoGet]
         \/ /\ closed \in {"open", "runtime"} /\ store[getter[g].id] = None
            /\ getter' = [getter EXCEPT ![g] = r]
  BY Zenon DEF LoadOrCreate, Loading, others, rows
<1>2. getter[g] \in GetType
  BY GotFields, Zenon
<1>3. /\ r \in GetType /\ r.pc = "mutex" /\ r.id = getter[g].id /\ r.version = getter[g].version
      /\ r.mu = getter[g].mu /\ r.made = getter[g].made
  BY <1>2, Zenon DEF GetType, GetterPC
<1>4. ASSUME getter' = [getter EXCEPT ![g] = r]
      PROVE  Got(g, r.pc, r.id, r.version, r.mu, r.made)
  BY <1>3, <1>4, GotPut, Zenon
<1> QED
  BY <1>1, <1>3, <1>4, GotIdle, Zenon

LEMMA GetMuDoes ==
    ASSUME Types, Calls, NEW g \in Getters, GetMu(g)
    PROVE  /\ getter[g].pc = "mutex"
           /\ UNCHANGED <<nodes, selected, tagged, store, proxy, closed, editor, raced, upset, lost>>
           /\ \E m \in Getters \cup {None} :
                /\ Got(g, "lock", getter[g].id, getter[g].version, m, getter[g].made)
                /\ \/ m = single[getter[g].id] /\ m # None /\ single' = single
                   \/ /\ single[getter[g].id] = None /\ m # getter[g].mu
                      /\ single' = [single EXCEPT ![getter[g].id] = m]
<1> DEFINE r(m, own) == [getter[g] EXCEPT !.pc = "lock", !.mu = m, !.own = own]
<1>1. /\ getter[g].pc = "mutex"
      /\ UNCHANGED <<nodes, selected, tagged, store, proxy, closed, editor, raced, upset, lost>>
  BY Zenon DEF GetMu, rows
<1>2. getter[g] \in GetType
  BY GotFields, Zenon
<1>3. ASSUME NEW m \in Getters \cup {None}, NEW own \in BOOLEAN,
             getter' = [getter EXCEPT ![g].pc = "lock", ![g].mu = m, ![g].own = own]
      PROVE  Got(g, "lock", getter[g].id, getter[g].version, m, getter[g].made)
  <2>1. getter' = [getter EXCEPT ![g] = r(m, own)]
    BY <1>3, Zenon DEF Types
  <2>2. /\ r(m, own) \in GetType /\ r(m, own).pc = "lock" /\ r(m, own).id = getter[g].id
        /\ r(m, own).version = getter[g].version /\ r(m, own).mu = m
        /\ r(m, own).made = getter[g].made
    BY <1>2, Zenon DEF GetType, GetterPC
  <2> HIDE DEF r
  <2>3. Got(g, r(m, own).pc, r(m, own).id, r(m, own).version, r(m, own).mu, r(m, own).made)
    BY <2>1, <2>2, GotPut, Zenon
  <2> QED
    BY <2>2, <2>3, Zenon
<1>4. CASE single[getter[g].id] # None
  <2>1. /\ getter' = [getter EXCEPT ![g].pc = "lock", ![g].mu = single[getter[g].id],
                                    ![g].own = FALSE]
        /\ single' = single
    BY <1>4, Zenon DEF GetMu
  <2>2. getter[g].id \in Ids
    BY <1>1, Zenon DEF Calls, Known
  <2>3. single[getter[g].id] \in Getters \cup {None}
    BY <2>2, Zenon DEF Types
  <2> QED
    BY <1>1, <1>3, <1>4, <2>1, <2>3, Zenon
<1>5. CASE single[getter[g].id] = None
  <2>1. PICK m \in Getters \ {getter[h].mu : h \in Getters} :
          /\ getter' = [getter EXCEPT ![g].pc = "lock", ![g].mu = m, ![g].own = TRUE]
          /\ single' = [single EXCEPT ![getter[g].id] = m]
    BY <1>5, Zenon DEF GetMu
  <2>2. m # getter[g].mu /\ m \in Getters \cup {None}
    BY <2>1, Zenon
  <2> QED
    BY <1>1, <1>3, <1>5, <2>1, <2>2, Zenon
<1> QED
  BY <1>4, <1>5, Zenon

\* A getter returns, or has still to drop its mutex.
Unlocks(g) ==
    \/ Got(g, "idle", None, 0, None, None)
    \/ Got(g, "done", getter[g].id, 0, getter[g].mu, None)

LEMMA UnlockDoes ==
    ASSUME Types, NEW g \in Getters, getter' = [getter EXCEPT ![g] = Unlocked(g)]
    PROVE  Unlocks(g)
<1>1. CASE ~getter[g].own
  <2>1. Unlocked(g) = NoGet
    BY <1>1, Zenon DEF Unlocked
  <2> QED
    BY <2>1, GotIdle, Zenon DEF Unlocks
<1>2. CASE getter[g].own
  <2> DEFINE r == [NoGet EXCEPT !.pc = "done", !.id = getter[g].id, !.mu = getter[g].mu]
  <2>1. Unlocked(g) = r
    BY <1>2, Zenon DEF Unlocked
  <2>2. getter[g].id \in Ids \cup {None} /\ getter[g].mu \in Getters \cup {None}
    BY GotFields, Zenon
  <2>3. /\ r \in GetType /\ r.pc = "done" /\ r.id = getter[g].id /\ r.version = 0
        /\ r.mu = getter[g].mu /\ r.made = None
    BY <2>2, Zenon DEF NoGet, GetType, GetterPC
  <2>4. Got(g, r.pc, r.id, r.version, r.mu, r.made)
    BY <2>1, <2>3, GotPut, Zenon
  <2> QED
    BY <2>3, <2>4, Zenon DEF Unlocks
<1> QED
  BY <1>1, <1>2, Zenon

LEMMA FindDoes ==
    ASSUME Types, NEW g \in Getters, FindEntry(g)
    PROVE  /\ getter[g].pc = "lock" /\ store[getter[g].id] # None
           /\ Unlocks(g) /\ UNCHANGED others
  BY UnlockDoes, Zenon DEF FindEntry, Inner, others, rows

LEMMA MakeFailsDoes ==
    ASSUME Types, NEW g \in Getters, MakeFails(g)
    PROVE  /\ getter[g].pc = "lock" /\ Unlocks(g) /\ upset' = upset \cup {getter[g].id}
           /\ UNCHANGED <<nodes, selected, tagged, store, proxy, closed, single, editor, raced, lost>>
  BY UnlockDoes, Zenon DEF MakeFails, Inner, rows

LEMMA StoreDoes ==
    ASSUME Types, Calls, NEW g \in Getters, LoadOrStore(g)
    PROVE  /\ getter[g].pc = "store" /\ Unlocks(g)
           /\ UNCHANGED <<nodes, selected, tagged, proxy, closed, single, editor, raced, upset>>
           /\ \/ /\ store[getter[g].id] = None /\ lost' = lost
                 /\ store' \in [Ids -> Proxies \cup {None}]
                 /\ store'[getter[g].id] = getter[g].made
                 /\ \A j \in Ids \ {getter[g].id} : store'[j] = store[j]
              \/ /\ store[getter[g].id] # None /\ store' = store
                 /\ lost' = lost \cup {getter[g].made}
<1>1. /\ getter[g].pc = "store" /\ Unlocks(g)
      /\ UNCHANGED <<nodes, selected, tagged, proxy, closed, single, editor, raced, upset>>
  BY UnlockDoes, Zenon DEF LoadOrStore, rows
<1>2. getter[g].id \in Ids /\ getter[g].made \in Proxies \cup {None}
  BY <1>1, GotFields, Zenon DEF Calls, Known
<1>3. CASE store[getter[g].id] = None
  <2>1. store' = [store EXCEPT ![getter[g].id] = getter[g].made] /\ lost' = lost
    BY <1>3, Zenon DEF LoadOrStore
  <2> QED
    BY <1>1, <1>2, <1>3, <2>1, Zenon DEF Types
<1>4. CASE store[getter[g].id] # None
  BY <1>1, <1>4, Zenon DEF LoadOrStore
<1> QED
  BY <1>3, <1>4, Zenon

LEMMA DropDoes ==
    ASSUME Types, Calls, NEW g \in Getters, DropMu(g)
    PROVE  /\ getter[g].pc = "done" /\ Got(g, "idle", None, 0, None, None)
           /\ single' \in [Ids -> Getters \cup {None}]
           /\ \A j \in Ids \ {getter[g].id} : single'[j] = single[j]
           /\ UNCHANGED <<nodes, selected, tagged, store, proxy, closed, editor, raced, upset, lost>>
<1>1. /\ getter[g].pc = "done" /\ Got(g, "idle", None, 0, None, None)
      /\ single' = [single EXCEPT ![getter[g].id] = None]
      /\ UNCHANGED <<nodes, selected, tagged, store, proxy, closed, editor, raced, upset, lost>>
  BY GotIdle, Zenon DEF DropMu, rows
<1> QED
  BY <1>1, Zenon DEF Types

\* A dialer p is made of what g has read.
LEMMA MakeDoes ==
    ASSUME Types, Calls, NEW g \in Getters, MakeDialer(g)
    PROVE  /\ getter[g].pc = "lock" /\ store[getter[g].id] = None
           /\ \A h \in Getters : getter[h].pc = "store" => getter[h].mu # getter[g].mu
           /\ UNCHANGED <<nodes, selected, tagged, store, closed, single, editor, raced, upset, lost>>
           /\ \E p \in Proxies :
                /\ Got(g, "store", getter[g].id, getter[g].version, getter[g].mu, p)
                /\ proxy[p] = None /\ proxy' \in [Proxies -> Dialer \cup {None}]
                /\ proxy'[p] # None /\ proxy'[p].id = getter[g].id
                /\ proxy'[p].version = getter[g].version
                /\ \A q \in Proxies \ {p} : proxy'[q] = proxy[q]
<1>1. /\ getter[g].pc = "lock" /\ store[getter[g].id] = None
      /\ \A h \in Getters : getter[h].pc = "store" => getter[h].mu # getter[g].mu
      /\ UNCHANGED <<nodes, selected, tagged, store, closed, single, editor, raced, upset, lost>>
  BY Zenon DEF MakeDialer, Inner, rows
<1>2. getter[g] \in GetType /\ getter[g].id \in Ids /\ getter[g].version \in Nat
  BY <1>1, GotFields, Zenon DEF Calls, Known
<1> DEFINE dialer == [id |-> getter[g].id, version |-> getter[g].version, open |-> TRUE]
<1>3. PICK p \in Proxies \ Made :
        /\ proxy' = [proxy EXCEPT ![p] = dialer]
        /\ getter' = [getter EXCEPT ![g].pc = "store", ![g].made = p]
  BY Zenon DEF MakeDialer
<1>4. proxy[p] = None
  BY <1>3, Zenon DEF Made
<1>5. /\ dialer \in Dialer /\ dialer.id = getter[g].id /\ dialer.version = getter[g].version
  BY <1>2, Zenon DEF Dialer
<1>6. dialer # None
  BY <1>5, Constants, Zenon
<1> DEFINE r == [getter[g] EXCEPT !.pc = "store", !.made = p]
<1>7. getter' = [getter EXCEPT ![g] = r]
  BY <1>3, Zenon DEF Types
<1>8. /\ r \in GetType /\ r.pc = "store" /\ r.id = getter[g].id /\ r.version = getter[g].version
      /\ r.mu = getter[g].mu /\ r.made = p
  BY <1>2, <1>3, Zenon DEF GetType, GetterPC
<1>9. Got(g, r.pc, r.id, r.version, r.mu, r.made)
  BY <1>7, <1>8, GotPut, Zenon
<1>10. Got(g, "store", getter[g].id, getter[g].version, getter[g].mu, p)
  BY <1>8, <1>9, Zenon
<1> HIDE DEF dialer, r
<1>11. /\ proxy' \in [Proxies -> Dialer \cup {None}] /\ proxy'[p] = dialer
       /\ \A q \in Proxies \ {p} : proxy'[q] = proxy[q]
  BY <1>3, <1>5, Zenon DEF Types
<1> QED
  BY <1>1, <1>4, <1>5, <1>6, <1>10, <1>11, Zenon

LEMMA WriteDoes ==
    ASSUME Types, Courses, NEW e \in Editors, Write(e)
    PROVE  /\ editor[e].pc \in Writes /\ editor[e].id \in Ids
           /\ nodes' \in [Ids -> Nat \cup {None}]
           /\ selected' \subseteq Ids /\ tagged' \subseteq Ids
           /\ raced \subseteq raced' /\ raced' \subseteq Ids
           /\ UNCHANGED <<store, proxy, closed, single, getter, upset, lost>>
           /\ \E pc \in {"delete", "using"} :
                /\ pc = "delete" <=> editor[e].after = "delete"
                /\ Ed(e, pc, editor[e].id, editor[e].todo, editor[e].closing, editor[e].after)
           /\ \A j \in Ids \ raced' : nodes'[j] # nodes[j] =>
                editor[e].pc = "save" /\ j = editor[e].id /\ \A g \in Getters : ~Reading(g, j)
<1>0. e \in Deleters /\ "delete" \in EditorPC /\ "using" \in EditorPC
  BY Constants, Zenon DEF EditorPC
<1>1. PICK i \in Ids : i = editor[e].id /\ editor[e].pc \in Writes
  BY <1>0, Zenon DEF Write, Courses
<1>2. PICK op \in Writes : op = editor[e].pc
  BY <1>1, Zenon
<1>3. /\ nodes' \in NodesAfter(op, i) /\ selected' = (IF op = "use" THEN {i} ELSE selected)
      /\ tagged' = TagsAfter(op, i)
      /\ raced' = raced \cup {j \in Ids : /\ nodes'[j] # nodes[j]
                                          /\ \/ op \in {"replace", "drop"}
                                             \/ \E g \in Getters : Reading(g, j)}
      /\ UNCHANGED <<store, proxy, closed, single, getter, upset, lost>>
  BY <1>1, <1>2, Zenon DEF Write
<1>4. selected' \subseteq Ids /\ tagged' \subseteq Ids
  <2>1. selected' \subseteq Ids
    BY <1>3, Zenon DEF Types
  <2>2. tagged' = tagged \cup {i} \/ tagged' = tagged \ {i} \/ tagged' = tagged
    BY <1>2, <1>3, Zenon DEF TagsAfter, Writes
  <2> QED
    BY <2>1, <2>2, Zenon DEF Types
<1>5. /\ nodes' \in [Ids -> Nat \cup {None}]
      /\ op \notin {"replace", "drop"} =>
           \A j \in Ids : nodes'[j] # nodes[j] => op = "save" /\ j = i
  <2>0. \A j \in Ids : Changed(nodes[j]) \in Nat
    BY NodeRuntimeConstants DEF Types, Changed
  <2>1. CASE op = "save"
    <3>1. nodes' = [nodes EXCEPT ![i] = Changed(nodes[i])]
      BY <1>3, <2>1, Zenon DEF NodesAfter
    <3> QED
      BY <2>0, <2>1, <3>1, Zenon DEF Types
  <2>2. CASE op = "replace"
    <3>1. PICK gone \in SUBSET (Ids \ {i}) :
            nodes' = [j \in Ids |-> IF j = i THEN Changed(nodes[j])
                                    ELSE IF j \in gone THEN None ELSE nodes[j]]
      BY <1>3, <2>2, Zenon DEF NodesAfter
    <3> QED
      BY <2>0, <2>2, <3>1, Zenon DEF Types
  <2>3. CASE op = "drop"
    <3>1. nodes' = [nodes EXCEPT ![i] = None]
      BY <1>3, <2>3, Zenon DEF NodesAfter
    <3> QED
      BY <2>3, <3>1, Zenon DEF Types
  <2>4. CASE op \in {"use", "tag", "untag"}
    <3>1. nodes' = nodes
      BY <1>3, <2>4, Zenon DEF NodesAfter
    <3> QED
      BY <2>4, <3>1, Zenon DEF Types
  <2> QED
    BY <1>2, <2>1, <2>2, <2>3, <2>4, Zenon DEF Writes
<1>6. raced \subseteq raced' /\ raced' \subseteq Ids
  BY <1>3, Zenon DEF Types
<1>7. \A j \in Ids \ raced' : nodes'[j] # nodes[j] =>
        editor[e].pc = "save" /\ j = editor[e].id /\ \A g \in Getters : ~Reading(g, j)
  <2>1. ASSUME NEW j \in Ids \ raced', nodes'[j] # nodes[j]
        PROVE  op \notin {"replace", "drop"} /\ \A g \in Getters : ~Reading(g, j)
    BY <1>3, <2>1, Zenon
  <2> QED
    BY <1>1, <1>2, <1>5, <2>1, Zenon
<1>8. PICK pc \in {"delete", "using"} :
        pc = IF editor[e].after = "delete" THEN "delete" ELSE "using"
  BY Zenon
<1> DEFINE r == [editor[e] EXCEPT !.pc = pc]
<1>9. editor' = [editor EXCEPT ![e] = r]
  BY <1>8, Zenon DEF Write
<1>10. editor[e] \in EditType /\ pc \in EditorPC
  BY <1>0, <1>8, EdFields, Zenon
<1>11. /\ r \in EditType /\ r.pc = pc /\ r.id = editor[e].id /\ r.todo = editor[e].todo
       /\ r.closing = editor[e].closing /\ r.after = editor[e].after
  BY <1>10, Zenon DEF EditType
<1>12. Ed(e, r.pc, r.id, r.todo, r.closing, r.after)
  BY <1>0, <1>9, <1>11, EdPut, Zenon
<1>13. Ed(e, pc, editor[e].id, editor[e].todo, editor[e].closing, editor[e].after)
  BY <1>11, <1>12, Zenon
<1>14. pc = "delete" <=> editor[e].after = "delete"
  BY <1>8, Zenon
<1> QED
  BY <1>1, <1>3, <1>4, <1>5, <1>6, <1>7, <1>13, <1>14, Zenon
-----------------------------------------------------------------------------
(* Types and courses. *)

Closing == CloseBegin \/ CloseStore

LEMMA ClosingDoes ==
    ASSUME Closing
    PROVE  /\ UNCHANGED <<nodes, selected, tagged, store, proxy, single, getter, editor, raced, upset, lost>>
           /\ \/ closed = "open" /\ closed' = "runtime"
              \/ closed = "runtime" /\ closed' = "store"
  BY Zenon DEF Closing, CloseBegin, CloseStore, rows

LEMMA CloseAllDoes ==
    ASSUME Types, CloseAll
    PROVE  /\ closed = "store" /\ editor["Close"].pc = "idle" /\ UNCHANGED rest
           /\ Ed("Close", "delete", None, Ids, {}, "idle")
           /\ \A g \in Getters : getter[g].pc \in {"idle", "create"}
<1>1. /\ "Close" \in Deleters /\ "delete" \in EditorPC /\ "idle" \in EditorPC
      /\ None \in Ids \cup {None} /\ Ids \in SUBSET Ids
  BY Constants, Zenon DEF EditorPC
<1>2. /\ closed = "store" /\ Edit("Close", "delete", None, Ids, "idle")
      /\ \A g \in Getters : getter[g].pc \in {"idle", "create"}
  BY Zenon DEF CloseAll
<1> QED
  BY <1>1, <1>2, EditDoes, Zenon

\* The steps of a getter.
Gets(g) ==
    \/ \E i \in Ids : ReadNode(g, i)
    \/ LoadOrCreate(g) \/ GetMu(g) \/ FindEntry(g) \/ MakeDialer(g) \/ MakeFails(g)
    \/ LoadOrStore(g) \/ DropMu(g)

\* They leave alone what the edits do, and make at most one dialer.
Grown ==
    \A q \in Proxies : proxy[q] # None =>
        proxy'[q] # None /\ proxy'[q].id = proxy[q].id /\ proxy'[q].version = proxy[q].version

LEMMA GetsDo ==
    ASSUME Types, Calls, NEW g \in Getters, Gets(g)
    PROVE  UNCHANGED <<nodes, selected, tagged, closed, editor, raced>> /\ Grown /\ Types'
<1>1. ASSUME NEW i \in Ids, ReadNode(g, i)
      PROVE  UNCHANGED <<nodes, selected, tagged, closed, editor, raced>> /\ Grown /\ Types'
  BY <1>1, ReadNodeDoes, Zenon DEF Types, Got, others, Grown
<1>2. ASSUME LoadOrCreate(g)
      PROVE  UNCHANGED <<nodes, selected, tagged, closed, editor, raced>> /\ Grown /\ Types'
  BY <1>2, LoadDoes, Zenon DEF Types, Got, others, Grown
<1>3. ASSUME GetMu(g)
      PROVE  UNCHANGED <<nodes, selected, tagged, closed, editor, raced>> /\ Grown /\ Types'
  <2>1. single' \in [Ids -> Getters \cup {None}]
    BY <1>3, GetMuDoes, Zenon DEF Types
  <2> QED
    BY <1>3, <2>1, GetMuDoes, Zenon DEF Types, Got, Grown
<1>4. ASSUME FindEntry(g)
      PROVE  UNCHANGED <<nodes, selected, tagged, closed, editor, raced>> /\ Grown /\ Types'
  BY <1>4, FindDoes, Zenon DEF Types, Unlocks, Got, others, Grown
<1>5. ASSUME MakeDialer(g)
      PROVE  UNCHANGED <<nodes, selected, tagged, closed, editor, raced>> /\ Grown /\ Types'
  BY <1>5, MakeDoes, Zenon DEF Types, Got, Grown
<1>6. ASSUME MakeFails(g)
      PROVE  UNCHANGED <<nodes, selected, tagged, closed, editor, raced>> /\ Grown /\ Types'
  <2>1. upset' \subseteq Ids
    BY <1>6, MakeFailsDoes, Zenon DEF Types, Calls, Known
  <2> QED
    BY <1>6, <2>1, MakeFailsDoes, Zenon DEF Types, Unlocks, Got, Grown
<1>7. ASSUME LoadOrStore(g)
      PROVE  UNCHANGED <<nodes, selected, tagged, closed, editor, raced>> /\ Grown /\ Types'
  <2>1. getter[g].made \in Proxies
    BY <1>7, StoreDoes, GotFields, Zenon DEF Calls, Known
  <2>2. lost' \subseteq Proxies /\ store' \in [Ids -> Proxies \cup {None}]
    BY <1>7, <2>1, StoreDoes, Zenon DEF Types
  <2> QED
    BY <1>7, <2>2, StoreDoes, Zenon DEF Types, Unlocks, Got, Grown
<1>8. ASSUME DropMu(g)
      PROVE  UNCHANGED <<nodes, selected, tagged, closed, editor, raced>> /\ Grown /\ Types'
  BY <1>8, DropDoes, Zenon DEF Types, Got, Grown
<1> QED
  BY <1>1, <1>2, <1>3, <1>4, <1>5, <1>6, <1>7, <1>8, Zenon DEF Gets

LEMMA Steps ==
    [Next]_vars <=>
        \/ \E g \in Getters : Gets(g)
        \/ \E e \in Editors : (\E i \in Ids : Opens(e, i)) \/ Write(e) \/ Fail(e) \/ ReadUsing(e)
        \/ \E d \in Deleters : \/ \E i \in Ids : Delete(d, i)
                               \/ \E p \in Proxies : CloseProxy(d, p)
                               \/ Deleted(d)
        \/ Closing \/ CloseAll \/ UNCHANGED vars
  BY Zenon DEF Next, Gets, Opens, Closing

LEMMA TypesNext == Types /\ Courses /\ Calls /\ Holds /\ [Next]_vars => Types'
<1> SUFFICES ASSUME Types, Courses, Calls, Holds, [Next]_vars PROVE Types'
  BY Zenon
<1>1. ASSUME NEW g \in Getters, Gets(g) PROVE Types'
  BY <1>1, GetsDo, Zenon
<1>3. ASSUME NEW e \in Editors, NEW i \in Ids, Opens(e, i) PROVE Types'
  BY <1>3, BeginDoes, Zenon DEF Types, Ed, rest
<1>4. ASSUME NEW e \in Editors, Write(e) PROVE Types'
  BY <1>4, WriteDoes, Zenon DEF Types, Ed
<1>5. ASSUME NEW e \in Editors, Fail(e) PROVE Types'
  BY <1>5, FailDoes, Zenon DEF Types, Ed
<1>6. ASSUME NEW e \in Editors, ReadUsing(e) PROVE Types'
  BY <1>6, ReadUsingDoes, Zenon DEF Types, Ed, rest
<1>7. ASSUME NEW d \in Deleters, NEW i \in Ids, Delete(d, i) PROVE Types'
  <2>0. upset' = upset \/ upset' = upset \cup {i}
    BY <1>7, DeleteDoes, Zenon
  <2>1. upset' \subseteq Ids
    BY <2>0, Zenon DEF Types
  <2>2. /\ UNCHANGED <<nodes, selected, tagged, proxy, closed, single, getter, raced, lost>>
        /\ store' \in [Ids -> Proxies \cup {None}] /\ editor' \in [Deleters -> EditType]
    BY <1>7, DeleteDoes, Zenon DEF Ed
  <2> QED
    BY <2>1, <2>2, Zenon DEF Types
<1>8. ASSUME NEW d \in Deleters, NEW p \in Proxies, CloseProxy(d, p) PROVE Types'
  BY <1>8, CloseProxyDoes, Zenon DEF Types, Ed
<1>9. ASSUME NEW d \in Deleters, Deleted(d) PROVE Types'
  <2>1. closed' \in ClosedType
    BY <1>9, DeletedDoes, Zenon DEF Types, ClosedType
  <2> QED
    BY <1>9, <2>1, DeletedDoes, Zenon DEF Types, Ed
<1>10. CASE Closing
  <2>1. closed' \in ClosedType
    BY <1>10, ClosingDoes, Zenon DEF ClosedType
  <2> QED
    BY <1>10, <2>1, ClosingDoes, Zenon DEF Types
<1>11. CASE CloseAll
  BY <1>11, CloseAllDoes, Zenon DEF Types, Ed, rest
<1>12. CASE UNCHANGED vars
  BY <1>12, Zenon DEF Types, vars, rows
<1> QED
  BY <1>1, <1>3, <1>4, <1>5, <1>6, <1>7, <1>8, <1>9, <1>10, <1>11, <1>12, Steps, Zenon

\* A step of call d that stays on course.
LEMMA OnCourse ==
    ASSUME Courses, NEW d \in Deleters,
           NEW pc, NEW id, NEW todo, NEW hold, NEW after, Ed(d, pc, id, todo, hold, after),
           pc # "delete" => hold = {},
           pc \in Writes \/ after \in Writes => id \in Ids,
           pc = "save" => after = "delete" /\ id \in todo,
           after # "save",
           d # "Close" => closed' = closed,
           d = "Close" => after = "idle" /\ (pc = "idle" \/ (pc = "delete" /\ closed' = "store"))
    PROVE  Courses'
<1>2. ASSUME NEW b \in Deleters
      PROVE  /\ editor'[b].pc # "delete" => editor'[b].closing = {}
             /\ editor'[b].pc \in Writes \/ editor'[b].after \in Writes => editor'[b].id \in Ids
             /\ editor'[b].pc = "save" =>
                  editor'[b].after = "delete" /\ editor'[b].id \in editor'[b].todo
             /\ editor'[b].after # "save"
  <2>1. CASE b = d
    BY <2>1, Zenon DEF Ed
  <2>2. CASE b # d
    <3>1. editor'[b] = editor[b]
      BY <2>2, Zenon DEF Ed
    <3> QED
      BY <3>1, Zenon DEF Courses
  <2> QED
    BY <2>1, <2>2, Zenon
<1>3. /\ editor'["Close"].after = "idle"
      /\ editor'["Close"].pc = "idle" \/ (editor'["Close"].pc = "delete" /\ closed' = "store")
  <2>1. CASE d = "Close"
    BY <2>1, Zenon DEF Ed
  <2>2. CASE d # "Close"
    <3>1. editor'["Close"] = editor["Close"]
      BY <2>2, Constants, Zenon DEF Ed
    <3> QED
      BY <2>2, <3>1, Zenon DEF Courses
  <2> QED
    BY <2>1, <2>2, Zenon
<1> QED
  BY <1>2, <1>3, Zenon DEF Courses

LEMMA CoursesNext == Types /\ Courses /\ Calls /\ Holds /\ [Next]_vars => Courses'
<1> SUFFICES ASSUME Types, Courses, Calls, Holds, [Next]_vars PROVE Courses'
  BY Zenon
<1>0. /\ \A e \in Editors : e \in Deleters /\ e # "Close"
      /\ "save" \in Writes /\ "replace" \in Writes /\ "drop" \in Writes
      /\ {"idle", "using", "delete"} \cap Writes = {}
  BY Constants, Zenon DEF Writes
<1>1. ASSUME NEW g \in Getters, Gets(g) PROVE Courses'
  <2>1. UNCHANGED <<closed, editor>>
    BY <1>1, GetsDo, Zenon
  <2> QED
    BY <2>1, Zenon DEF Courses
<1>3. ASSUME NEW e \in Editors, NEW i \in Ids, Opens(e, i) PROVE Courses'
  <2>1. closed' = closed
    BY <1>3, BeginDoes, Zenon DEF rest
  <2>2. CASE Ed(e, "save", i, {i}, {}, "delete")
    <3>1. i \in {i} /\ "delete" # "save"
      BY Zenon
    <3> QED
      BY <1>0, <2>1, <2>2, <3>1, OnCourse, Zenon
  <2>3. ASSUME NEW after \in {"idle", "replace", "drop"}, Ed(e, "delete", i, {i}, {}, after)
        PROVE  Courses'
    BY <1>0, <2>1, <2>3, OnCourse, Zenon
  <2>4. ASSUME NEW pc \in {"use", "tag", "untag"}, Ed(e, pc, i, {}, {}, "using") PROVE Courses'
    BY <1>0, <2>1, <2>4, OnCourse, Zenon
  <2> QED
    BY <1>3, <2>2, <2>3, <2>4, BeginDoes, Zenon
<1>4. ASSUME NEW e \in Editors, Write(e) PROVE Courses'
  <2>1. PICK pc \in {"delete", "using"} :
          Ed(e, pc, editor[e].id, editor[e].todo, editor[e].closing, editor[e].after)
    BY <1>4, WriteDoes, Zenon
  <2>2. /\ closed' = closed /\ editor[e].closing = {} /\ editor[e].id \in Ids
        /\ editor[e].after # "save" /\ pc \notin Writes
    BY <1>0, <1>4, <2>1, WriteDoes, Zenon DEF Courses
  <2> QED
    BY <1>0, <2>1, <2>2, OnCourse, Zenon
<1>5. ASSUME NEW e \in Editors, Fail(e) PROVE Courses'
  <2>1. closed' = closed /\ Ed(e, "idle", None, {}, {}, "idle")
    BY <1>5, FailDoes, Zenon
  <2> QED
    BY <1>0, <2>1, OnCourse, Zenon
<1>6. ASSUME NEW e \in Editors, ReadUsing(e) PROVE Courses'
  <2>1. PICK todo \in SUBSET Ids :
          Ed(e, "delete", editor[e].id, todo, editor[e].closing, "idle")
    BY <1>6, ReadUsingDoes, Zenon
  <2>2. closed' = closed
    BY <1>6, ReadUsingDoes, Zenon DEF rest
  <2> QED
    BY <1>0, <2>1, <2>2, OnCourse, Zenon
<1>7. ASSUME NEW d \in Deleters, NEW i \in Ids, Delete(d, i) PROVE Courses'
  <2>1. PICK hold \in SUBSET Proxies :
          Ed(d, "delete", editor[d].id, editor[d].todo \ {i}, hold, editor[d].after)
    BY <1>7, DeleteDoes, Zenon
  <2>2. closed' = closed /\ editor[d].pc = "delete"
    BY <1>7, DeleteDoes, Zenon
  <2>3. /\ editor[d].after \in Writes => editor[d].id \in Ids
        /\ editor[d].after # "save"
        /\ d = "Close" => editor[d].after = "idle" /\ closed = "store"
    BY <2>2, Zenon DEF Courses
  <2> QED
    BY <1>0, <2>1, <2>2, <2>3, OnCourse, Zenon
<1>8. ASSUME NEW d \in Deleters, NEW p \in Proxies, CloseProxy(d, p) PROVE Courses'
  <2>1. /\ Ed(d, editor[d].pc, editor[d].id, editor[d].todo, editor[d].closing \ {p},
              editor[d].after)
        /\ closed' = closed /\ p \in editor[d].closing
    BY <1>8, CloseProxyDoes, Zenon
  <2>2. editor[d].pc = "delete"
    BY <2>1, Zenon DEF Courses
  <2>3. /\ editor[d].after \in Writes => editor[d].id \in Ids
        /\ editor[d].after # "save"
        /\ d = "Close" => editor[d].after = "idle" /\ closed = "store"
    BY <2>2, Zenon DEF Courses
  <2> QED
    BY <1>0, <2>1, <2>2, <2>3, OnCourse, Zenon
<1>9. ASSUME NEW d \in Deleters, Deleted(d) PROVE Courses'
  <2>1. /\ closed' = (IF d = "Close" THEN "closed" ELSE closed)
    BY <1>9, DeletedDoes, Zenon
  <2>2. CASE Ed(d, "idle", None, {}, {}, "idle")
    BY <1>0, <2>1, <2>2, OnCourse, Zenon
  <2>3. ASSUME editor[d].after \in Writes, Ed(d, editor[d].after, editor[d].id, {}, {}, "using")
        PROVE  Courses'
    <3>1. editor[d].id \in Ids /\ editor[d].after # "save" /\ d # "Close"
      BY <1>0, <2>3, Zenon DEF Courses
    <3> QED
      BY <1>0, <2>1, <2>3, <3>1, OnCourse, Zenon
  <2> QED
    BY <1>9, <2>2, <2>3, DeletedDoes, Zenon
<1>10. CASE Closing
  <2>1. UNCHANGED editor /\ closed # "store"
    BY <1>10, ClosingDoes, Zenon
  <2> QED
    BY <2>1, Zenon DEF Courses
<1>11. CASE CloseAll
  <2>1. closed' = "store" /\ Ed("Close", "delete", None, Ids, {}, "idle")
    BY <1>11, CloseAllDoes, Zenon DEF rest
  <2> QED
    BY <1>0, <2>1, Constants, OnCourse, Zenon
<1>12. CASE UNCHANGED vars
  BY <1>12, Zenon DEF Courses, vars
<1> QED
  BY <1>1, <1>3, <1>4, <1>5, <1>6, <1>7, <1>8, <1>9, <1>10, <1>11, <1>12, Steps, Zenon
-----------------------------------------------------------------------------
(* What the getters know, and the mutexes. *)

LEMMA CallsPut ==
    ASSUME Types, Calls, Grown, UNCHANGED <<closed, editor>>, NEW g \in Getters,
           NEW pc, NEW id, NEW version, NEW mu, NEW made, Got(g, pc, id, version, mu, made),
           Known(pc, id, mu, made),
           made # None =>
             proxy'[made] # None /\ proxy'[made].id = id /\ proxy'[made].version = version,
           pc \notin {"idle", "create"} => closed # "closed" /\ editor["Close"].pc # "delete"
    PROVE  Calls'
<1>1. ASSUME NEW h \in Getters
      PROVE  /\ Known(getter'[h].pc, getter'[h].id, getter'[h].mu, getter'[h].made)
             /\ getter'[h].made # None =>
                  /\ proxy'[getter'[h].made] # None
                  /\ proxy'[getter'[h].made].id = getter'[h].id
                  /\ proxy'[getter'[h].made].version = getter'[h].version
             /\ getter'[h].pc \notin {"idle", "create"} =>
                  closed' # "closed" /\ editor'["Close"].pc # "delete"
  <2>1. CASE h = g
    BY <2>1, Zenon DEF Got
  <2>2. CASE h # g
    <3>1. getter'[h] = getter[h]
      BY <2>2, Zenon DEF Got
    <3>2. getter[h].made \in Proxies \cup {None}
      BY GotFields, Zenon
    <3>3. /\ Known(getter[h].pc, getter[h].id, getter[h].mu, getter[h].made)
          /\ getter[h].pc \notin {"idle", "create"} =>
               closed # "closed" /\ editor["Close"].pc # "delete"
      BY Zenon DEF Calls
    <3>4. getter[h].made # None =>
               /\ proxy'[getter[h].made] # None
               /\ proxy'[getter[h].made].id = getter[h].id
               /\ proxy'[getter[h].made].version = getter[h].version
      BY <3>2, Zenon DEF Calls, Grown
    <3> QED
      BY <3>1, <3>3, <3>4, Zenon
  <2> QED
    BY <2>1, <2>2, Zenon
<1> QED
  BY <1>1, Zenon DEF Calls, Known

LEMMA CallsKept ==
    ASSUME Types, Calls, Grown, getter' = getter,
           \A g \in Getters : getter[g].pc \notin {"idle", "create"} =>
             closed' # "closed" /\ editor'["Close"].pc # "delete"
    PROVE  Calls'
<1>1. \A h \in Getters : getter[h].made \in Proxies \cup {None}
  BY GotFields, Zenon
<1>2. ASSUME NEW h \in Getters, getter[h].made # None
      PROVE  /\ proxy'[getter[h].made] # None
             /\ proxy'[getter[h].made].id = getter[h].id
             /\ proxy'[getter[h].made].version = getter[h].version
  BY <1>1, <1>2, Zenon DEF Calls, Grown
<1>3. \A h \in Getters : Known(getter[h].pc, getter[h].id, getter[h].mu, getter[h].made)
  BY Zenon DEF Calls
<1> QED
  BY <1>2, <1>3, Zenon DEF Calls, Known

LEMMA CallsGet ==
    ASSUME Types, Courses, Calls, NEW g \in Getters, Gets(g)
    PROVE  Calls'
<1>0. UNCHANGED <<closed, editor>> /\ Grown
  BY GetsDo, Zenon
<1>1. /\ Known(getter[g].pc, getter[g].id, getter[g].mu, getter[g].made)
      /\ getter[g].pc \notin {"idle", "create"} => closed # "closed" /\ editor["Close"].pc # "delete"
  BY Zenon DEF Calls
<1>2. ASSUME Got(g, "idle", None, 0, None, None) PROVE Calls'
  <2>1. Known("idle", None, None, None)
    BY Zenon DEF Known
  <2> QED
    BY <1>0, <1>2, <2>1, CallsPut, Zenon
<1>3. ASSUME NEW i \in Ids, ReadNode(g, i) PROVE Calls'
  <2>1. Known("create", i, None, None)
    BY Zenon DEF Known
  <2>2. Got(g, "create", i, nodes[i], None, None)
    BY <1>3, ReadNodeDoes, Zenon
  <2> QED
    BY <1>0, <2>1, <2>2, CallsPut, Zenon
<1>4. ASSUME LoadOrCreate(g) PROVE Calls'
  <2>1. CASE Got(g, "mutex", getter[g].id, getter[g].version, getter[g].mu, getter[g].made)
             /\ closed \in {"open", "runtime"}
    <3>1. getter[g].pc = "create"
      BY <1>4, LoadDoes, Zenon
    <3>2. Known("mutex", getter[g].id, getter[g].mu, getter[g].made) /\ getter[g].made = None
      BY <1>1, <3>1, Zenon DEF Known
    <3>3. closed # "closed" /\ editor["Close"].pc # "delete"
      BY <2>1, Zenon DEF Courses
    <3> QED
      BY <1>0, <2>1, <3>2, <3>3, CallsPut, Zenon
  <2> QED
    BY <1>2, <1>4, <2>1, LoadDoes, Zenon
<1>5. ASSUME GetMu(g) PROVE Calls'
  <2>1. getter[g].pc = "mutex"
    BY <1>5, GetMuDoes, Zenon
  <2>2. getter[g].mu = None /\ getter[g].made = None /\ getter[g].id \in Ids
    BY <1>1, <2>1, Zenon DEF Known
  <2>3. PICK m : /\ Got(g, "lock", getter[g].id, getter[g].version, m, getter[g].made)
                 /\ m # None
    BY <1>5, <2>2, GetMuDoes, Zenon
  <2>4. Known("lock", getter[g].id, m, getter[g].made)
    BY <2>2, <2>3, Zenon DEF Known
  <2> QED
    BY <1>0, <1>1, <2>1, <2>2, <2>3, <2>4, CallsPut, Zenon
<1>6. ASSUME Unlocks(g), getter[g].pc \in {"lock", "store"} PROVE Calls'
  <2>1. CASE Got(g, "done", getter[g].id, 0, getter[g].mu, None)
    <3>1. Known("done", getter[g].id, getter[g].mu, None)
      BY <1>1, <1>6, Zenon DEF Known
    <3> QED
      BY <1>0, <1>1, <1>6, <2>1, <3>1, CallsPut, Zenon
  <2> QED
    BY <1>2, <1>6, <2>1, Zenon DEF Unlocks
<1>7. ASSUME MakeDialer(g) PROVE Calls'
  <2>1. getter[g].pc = "lock"
    BY <1>7, MakeDoes, Zenon
  <2>2. PICK p \in Proxies :
          /\ Got(g, "store", getter[g].id, getter[g].version, getter[g].mu, p)
          /\ proxy'[p] # None /\ proxy'[p].id = getter[g].id
          /\ proxy'[p].version = getter[g].version
    BY <1>7, MakeDoes, Zenon
  <2>3. Known("store", getter[g].id, getter[g].mu, p)
    BY <1>1, <2>1, Constants, Zenon DEF Known
  <2> QED
    BY <1>0, <1>1, <2>1, <2>2, <2>3, CallsPut, Zenon
<1>8. ASSUME FindEntry(g) \/ MakeFails(g) \/ LoadOrStore(g) PROVE Calls'
  BY <1>6, <1>8, FindDoes, MakeFailsDoes, StoreDoes, Zenon
<1>9. ASSUME DropMu(g) PROVE Calls'
  BY <1>2, <1>9, DropDoes, Zenon
<1> QED
  BY <1>3, <1>4, <1>5, <1>7, <1>8, <1>9, Zenon DEF Gets

LEMMA CallsNext == Types /\ Courses /\ Calls /\ Holds /\ [Next]_vars => Calls'
<1> SUFFICES ASSUME Types, Courses, Calls, Holds, [Next]_vars PROVE Calls'
  BY Zenon
<1>0. \A e \in Editors : e \in Deleters /\ e # "Close"
  BY Constants, Zenon
<1>1. ASSUME NEW g \in Getters, Gets(g) PROVE Calls'
  BY <1>1, CallsGet, Zenon
<1>2. ASSUME proxy' = proxy PROVE Grown
  BY <1>2, Zenon DEF Grown
<1>3. ASSUME Grown, UNCHANGED <<getter, closed>>, editor'["Close"].pc = editor["Close"].pc
      PROVE  Calls'
  <2>1. \A g \in Getters : getter[g].pc \notin {"idle", "create"} =>
          closed' # "closed" /\ editor'["Close"].pc # "delete"
    BY <1>3, Zenon DEF Calls
  <2> QED
    BY <1>3, <2>1, CallsKept, Zenon
<1>4. ASSUME NEW d \in Deleters, d # "Close",
             NEW pc, NEW id, NEW todo, NEW hold, NEW after, Ed(d, pc, id, todo, hold, after)
      PROVE  editor'["Close"].pc = editor["Close"].pc
  BY <1>4, Constants, Zenon DEF Ed
<1>5. ASSUME NEW e \in Editors, NEW i \in Ids, Opens(e, i) PROVE Calls'
  <2>1. UNCHANGED <<getter, closed, proxy>>
    BY <1>5, BeginDoes, Zenon DEF rest
  <2>2. editor'["Close"].pc = editor["Close"].pc
    BY <1>0, <1>4, <1>5, BeginDoes, Zenon
  <2> QED
    BY <1>2, <1>3, <2>1, <2>2, Zenon
<1>6. ASSUME NEW e \in Editors, Write(e) PROVE Calls'
  BY <1>0, <1>2, <1>3, <1>4, <1>6, WriteDoes, Zenon
<1>7. ASSUME NEW e \in Editors, Fail(e) PROVE Calls'
  BY <1>0, <1>2, <1>3, <1>4, <1>7, FailDoes, Zenon
<1>8. ASSUME NEW e \in Editors, ReadUsing(e) PROVE Calls'
  BY <1>0, <1>2, <1>3, <1>4, <1>8, ReadUsingDoes, Zenon DEF rest
<1>9. ASSUME NEW d \in Deleters, NEW i \in Ids, Delete(d, i) PROVE Calls'
  <2>1. UNCHANGED <<getter, closed, proxy>> /\ editor[d].pc = "delete"
    BY <1>9, DeleteDoes, Zenon
  <2>2. editor'[d].pc = "delete" /\ \A b \in Deleters \ {d} : editor'[b] = editor[b]
    BY <1>9, DeleteDoes, Zenon DEF Ed
  <2>3. editor'["Close"].pc = editor["Close"].pc
    BY <2>1, <2>2, Constants, Zenon
  <2> QED
    BY <1>2, <1>3, <2>1, <2>3, Zenon
<1>10. ASSUME NEW d \in Deleters, NEW p \in Proxies, CloseProxy(d, p) PROVE Calls'
  <2>1. /\ UNCHANGED <<getter, closed>> /\ editor'[d].pc = editor[d].pc
        /\ \A b \in Deleters \ {d} : editor'[b] = editor[b]
    BY <1>10, CloseProxyDoes, Zenon DEF Ed
  <2>2. editor'["Close"].pc = editor["Close"].pc
    BY <2>1, Constants, Zenon
  <2>3. Grown
    BY <1>10, CloseProxyDoes, Zenon DEF Grown
  <2> QED
    BY <1>3, <2>1, <2>2, <2>3, Zenon
<1>11. ASSUME NEW d \in Deleters, Deleted(d) PROVE Calls'
  <2>1. CASE d # "Close"
    BY <1>2, <1>3, <1>4, <1>11, <2>1, DeletedDoes, Zenon
  <2>2. CASE d = "Close"
    <3>1. editor["Close"].pc = "delete" /\ UNCHANGED <<getter, proxy>>
      BY <1>11, <2>2, DeletedDoes, Zenon
    <3>2. \A g \in Getters : getter[g].pc \in {"idle", "create"}
      BY <3>1, Zenon DEF Calls
    <3> QED
      BY <1>2, <3>1, <3>2, CallsKept, Zenon
  <2> QED
    BY <2>1, <2>2, Zenon
<1>12. CASE Closing
  <2>1. UNCHANGED <<getter, editor, proxy>> /\ closed' # "closed"
    BY <1>12, ClosingDoes, Zenon
  <2>2. \A g \in Getters : getter[g].pc \notin {"idle", "create"} =>
          closed' # "closed" /\ editor'["Close"].pc # "delete"
    BY <2>1, Zenon DEF Calls
  <2> QED
    BY <1>2, <2>1, <2>2, CallsKept, Zenon
<1>13. CASE CloseAll
  <2>1. UNCHANGED <<getter, proxy>> /\ \A g \in Getters : getter[g].pc \in {"idle", "create"}
    BY <1>13, CloseAllDoes, Zenon DEF rest
  <2> QED
    BY <1>2, <2>1, CallsKept, Zenon
<1>14. CASE UNCHANGED vars
  BY <1>2, <1>3, <1>14, Zenon DEF vars
<1> QED
  BY <1>1, <1>5, <1>6, <1>7, <1>8, <1>9, <1>10, <1>11, <1>12, <1>13, <1>14, Steps, Zenon

\* g's record changes; no other entry, mutex or getter does.
LEMMA ApartPut ==
    ASSUME Types, Calls, Apart, NEW g \in Getters,
           NEW pc, NEW id, NEW version, NEW mu, NEW made, Got(g, pc, id, version, mu, made),
           upset \subseteq upset',
           pc = "store" =>
             \A h \in Getters : getter[h].pc = "store" => h = g \/ getter[h].mu # mu,
           \A h \in Getters \ {g} : getter[h].id \in Ids \ upset' =>
             \/ /\ store'[getter[h].id] = store[getter[h].id]
                /\ \/ single'[getter[h].id] = single[getter[h].id]
                   \/ getter[h].pc \notin {"lock", "store"} \/ store[getter[h].id] # None
             \/ getter[h].pc # "store" /\ store'[getter[h].id] # None,
           id \in Ids \ upset' =>
             /\ store'[id] = None =>
                  pc # "done" /\ (pc \in {"lock", "store"} => mu = single'[id])
             /\ store'[id] # None => pc # "store"
    PROVE  Apart'
<1>1. /\ getter'[g].pc = pc /\ getter'[g].id = id /\ getter'[g].mu = mu
      /\ \A h \in Getters \ {g} : getter'[h] = getter[h]
  BY Zenon DEF Got
<1>2. ASSUME NEW h \in Getters, NEW k \in Getters, getter'[h].pc = "store", getter'[k].pc = "store",
             getter'[h].mu = getter'[k].mu
      PROVE  h = k
  <2>1. CASE h = g /\ k # g
    BY <1>1, <1>2, <2>1, Zenon
  <2>2. CASE h # g /\ k = g
    BY <1>1, <1>2, <2>2, Zenon
  <2>3. CASE h # g /\ k # g
    BY <1>1, <1>2, <2>3, Zenon DEF Apart
  <2> QED
    BY <2>1, <2>2, <2>3, Zenon
<1>3. ASSUME NEW h \in Getters, getter'[h].id \in Ids \ upset'
      PROVE  /\ store'[getter'[h].id] = None =>
                  /\ getter'[h].pc # "done"
                  /\ getter'[h].pc \in {"lock", "store"} => getter'[h].mu = single'[getter'[h].id]
             /\ store'[getter'[h].id] # None => getter'[h].pc # "store"
  <2>1. CASE h = g
    BY <1>1, <1>3, <2>1, Zenon
  <2>2. CASE h # g
    <3>1. getter'[h] = getter[h] /\ getter[h].id \in Ids \ upset' /\ getter[h].id \in Ids \ upset
      BY <1>1, <1>3, <2>2, Zenon
    <3>2. /\ store[getter[h].id] = None =>
                /\ getter[h].pc # "done"
                /\ getter[h].pc \in {"lock", "store"} => getter[h].mu = single[getter[h].id]
          /\ store[getter[h].id] # None => getter[h].pc # "store"
      BY <3>1, Zenon DEF Apart
    <3>3. /\ store'[getter[h].id] = None =>
                /\ getter[h].pc # "done"
                /\ getter[h].pc \in {"lock", "store"} => getter[h].mu = single'[getter[h].id]
          /\ store'[getter[h].id] # None => getter[h].pc # "store"
      BY <2>2, <3>1, <3>2, Zenon
    <3> QED
      BY <3>1, <3>3, Zenon
  <2> QED
    BY <2>1, <2>2, Zenon
<1> QED
  BY <1>2, <1>3, Zenon DEF Apart

LEMMA ApartKept ==
    ASSUME Apart, UNCHANGED <<getter, single>>, upset \subseteq upset',
           \A i \in Ids \ upset' : store'[i] = store[i]
    PROVE  Apart'
<1>1. \A g \in Getters : getter[g].id \in Ids \ upset' =>
        getter[g].id \in Ids \ upset /\ store'[getter[g].id] = store[getter[g].id]
  BY Zenon
<1> QED
  BY <1>1, Zenon DEF Apart

\* A getter leaves its section; the entry it worked on is there or upset.
LEMMA ApartUnlock ==
    ASSUME Types, Calls, Apart, NEW g \in Getters, Unlocks(g), UNCHANGED <<store, single>>,
           upset \subseteq upset', getter[g].id \in upset' \/ store[getter[g].id] # None
    PROVE  Apart'
<1>1. CASE Got(g, "idle", None, 0, None, None)
  <2>1. None \notin Ids
    BY Constants, Zenon
  <2> QED
    BY <1>1, <2>1, ApartPut, Zenon
<1>2. CASE Got(g, "done", getter[g].id, 0, getter[g].mu, None)
  BY <1>2, ApartPut, Zenon
<1> QED
  BY <1>1, <1>2, Zenon DEF Unlocks

LEMMA ApartGet ==
    ASSUME Types, Calls, Apart, NEW g \in Getters, Gets(g)
    PROVE  Apart'
<1>0. None \notin Ids
  BY Constants, Zenon
<1>1. ASSUME NEW i \in Ids, ReadNode(g, i) PROVE Apart'
  <2>1. Got(g, "create", i, nodes[i], None, None) /\ UNCHANGED others
    BY <1>1, ReadNodeDoes, Zenon
  <2>2. UNCHANGED <<store, single, upset>>
    BY <2>1, Zenon DEF others
  <2> QED
    BY <2>1, <2>2, ApartPut, Zenon
<1>2. ASSUME LoadOrCreate(g) PROVE Apart'
  <2>1. UNCHANGED <<store, single, upset>>
    BY <1>2, LoadDoes, Zenon DEF others
  <2>2. CASE Got(g, "idle", None, 0, None, None)
    BY <1>0, <2>1, <2>2, ApartPut, Zenon
  <2>3. CASE Got(g, "mutex", getter[g].id, getter[g].version, getter[g].mu, getter[g].made)
    <3>1. \A h \in Getters \ {g} : getter[h].id \in Ids \ upset' =>
             \/ /\ store'[getter[h].id] = store[getter[h].id]
                /\ \/ single'[getter[h].id] = single[getter[h].id]
                   \/ getter[h].pc \notin {"lock", "store"} \/ store[getter[h].id] # None
             \/ getter[h].pc # "store" /\ store'[getter[h].id] # None
      BY <2>1, Zenon
    <3>2. /\ "mutex" # "store" /\ "mutex" # "done" /\ "mutex" \notin {"lock", "store"}
          /\ upset \subseteq upset'
      BY <2>1, Zenon
    <3> QED
      BY <2>3, <3>1, <3>2, ApartPut, Zenon
  <2> QED
    BY <1>2, <2>2, <2>3, LoadDoes, Zenon
<1>3. ASSUME GetMu(g) PROVE Apart'
  <2>1. /\ getter[g].pc = "mutex" /\ UNCHANGED <<store, upset>>
        /\ \E m \in Getters \cup {None} :
             /\ Got(g, "lock", getter[g].id, getter[g].version, m, getter[g].made)
             /\ \/ m = single[getter[g].id] /\ m # None /\ single' = single
                \/ /\ single[getter[g].id] = None /\ m # getter[g].mu
                   /\ single' = [single EXCEPT ![getter[g].id] = m]
    BY <1>3, GetMuDoes, Zenon
  <2>2. getter[g].id \in Ids
    BY <2>1, Zenon DEF Calls, Known
  <2>3. PICK m \in Getters \cup {None} :
             /\ Got(g, "lock", getter[g].id, getter[g].version, m, getter[g].made)
             /\ \/ m = single[getter[g].id] /\ m # None /\ single' = single
                \/ /\ single[getter[g].id] = None /\ m # getter[g].mu
                   /\ single' = [single EXCEPT ![getter[g].id] = m]
    BY <2>1, Zenon
  <2>4. /\ single'[getter[g].id] = m
        /\ \A j \in Ids \ {getter[g].id} : single'[j] = single[j]
        /\ single'[getter[g].id] = single[getter[g].id] \/ single[getter[g].id] = None
    BY <2>2, <2>3, Zenon DEF Types
  <2>5. ASSUME NEW h \in Getters \ {g}, getter[h].id \in Ids \ upset',
               single'[getter[h].id] # single[getter[h].id], store[getter[h].id] = None
        PROVE  getter[h].pc \notin {"lock", "store"}
    <3>1. getter[h].id = getter[g].id
      BY <2>4, <2>5, Zenon
    <3>2. single[getter[h].id] = None
      BY <2>4, <2>5, <3>1, Zenon
    <3>3. getter[h].pc \in {"lock", "store"} => getter[h].mu = None
      BY <2>1, <2>5, <3>2, Zenon DEF Apart
    <3>4. getter[h].mu = None => getter[h].pc \in {"idle", "create", "mutex"}
      BY Zenon DEF Calls, Known
    <3> QED
      BY <3>3, <3>4, Zenon
  <2>6. \A h \in Getters \ {g} : getter[h].id \in Ids \ upset' =>
             \/ /\ store'[getter[h].id] = store[getter[h].id]
                /\ \/ single'[getter[h].id] = single[getter[h].id]
                   \/ getter[h].pc \notin {"lock", "store"} \/ store[getter[h].id] # None
             \/ getter[h].pc # "store" /\ store'[getter[h].id] # None
    BY <2>1, <2>5, Zenon
  <2>7. /\ "lock" # "store" /\ "lock" # "done" /\ upset \subseteq upset'
        /\ Got(g, "lock", getter[g].id, getter[g].version, m, getter[g].made)
        /\ m = single'[getter[g].id]
    BY <2>1, <2>3, <2>4, Zenon
  <2> QED
    BY <2>6, <2>7, ApartPut, Zenon
<1>4. ASSUME FindEntry(g) PROVE Apart'
  <2>1. Unlocks(g) /\ store[getter[g].id] # None /\ UNCHANGED <<store, single, upset>>
    BY <1>4, FindDoes, Zenon DEF others
  <2> QED
    BY <2>1, ApartUnlock, Zenon
<1>5. ASSUME MakeFails(g) PROVE Apart'
  <2>1. Unlocks(g) /\ upset' = upset \cup {getter[g].id} /\ UNCHANGED <<store, single>>
    BY <1>5, MakeFailsDoes, Zenon
  <2> QED
    BY <2>1, ApartUnlock, Zenon
<1>6. ASSUME MakeDialer(g) PROVE Apart'
  <2>1. /\ getter[g].pc = "lock" /\ store[getter[g].id] = None
        /\ \A h \in Getters : getter[h].pc = "store" => getter[h].mu # getter[g].mu
        /\ UNCHANGED <<store, single, upset>>
    BY <1>6, MakeDoes, Zenon
  <2>2. PICK p \in Proxies : Got(g, "store", getter[g].id, getter[g].version, getter[g].mu, p)
    BY <1>6, MakeDoes, Zenon
  <2>3. getter[g].id \in Ids \ upset => getter[g].mu = single[getter[g].id]
    BY <2>1, Zenon DEF Apart
  <2> QED
    BY <2>1, <2>2, <2>3, ApartPut, Zenon
<1>7. ASSUME LoadOrStore(g) PROVE Apart'
  <2>1. getter[g].pc = "store" /\ Unlocks(g) /\ UNCHANGED <<single, upset>>
    BY <1>7, StoreDoes, Zenon
  <2>2. CASE store[getter[g].id] # None
    BY <1>7, <2>1, <2>2, StoreDoes, ApartUnlock, Zenon
  <2>3. CASE store[getter[g].id] = None
    <3>1. /\ store'[getter[g].id] = getter[g].made
          /\ \A j \in Ids \ {getter[g].id} : store'[j] = store[j]
      BY <1>7, <2>3, StoreDoes, Zenon
    <3>2. getter[g].made # None
      BY <2>1, Zenon DEF Calls, Known
    <3>3. ASSUME NEW h \in Getters \ {g}, getter[h].id \in Ids \ upset',
                 getter[h].id = getter[g].id
          PROVE  getter[h].pc # "store"
      <4>1. getter[h].pc = "store" => getter[h].mu = single[getter[h].id]
        BY <2>1, <2>3, <3>3, Zenon DEF Apart
      <4>2. getter[g].mu = single[getter[g].id]
        BY <2>1, <2>3, <3>3, Zenon DEF Apart
      <4> QED
        BY <2>1, <3>3, <4>1, <4>2, Zenon DEF Apart
    <3>4. \A h \in Getters \ {g} : getter[h].id \in Ids \ upset' =>
             \/ /\ store'[getter[h].id] = store[getter[h].id]
                /\ \/ single'[getter[h].id] = single[getter[h].id]
                   \/ getter[h].pc \notin {"lock", "store"} \/ store[getter[h].id] # None
             \/ getter[h].pc # "store" /\ store'[getter[h].id] # None
      BY <2>1, <3>1, <3>2, <3>3, Zenon
    <3>5. CASE Got(g, "idle", None, 0, None, None)
      BY <1>0, <2>1, <3>4, <3>5, ApartPut, Zenon
    <3>6. CASE Got(g, "done", getter[g].id, 0, getter[g].mu, None)
      BY <2>1, <3>1, <3>2, <3>4, <3>6, ApartPut, Zenon
    <3> QED
      BY <2>1, <3>5, <3>6, Zenon DEF Unlocks
  <2> QED
    BY <2>2, <2>3, Zenon
<1>8. ASSUME DropMu(g) PROVE Apart'
  <2>1. /\ getter[g].pc = "done" /\ Got(g, "idle", None, 0, None, None)
        /\ \A j \in Ids \ {getter[g].id} : single'[j] = single[j]
        /\ UNCHANGED <<store, upset>>
    BY <1>8, DropDoes, Zenon
  <2>2. getter[g].id \in Ids \ upset => store[getter[g].id] # None
    BY <2>1, Zenon DEF Apart
  <2>3. \A h \in Getters \ {g} : getter[h].id \in Ids \ upset' =>
             \/ /\ store'[getter[h].id] = store[getter[h].id]
                /\ \/ single'[getter[h].id] = single[getter[h].id]
                   \/ getter[h].pc \notin {"lock", "store"} \/ store[getter[h].id] # None
             \/ getter[h].pc # "store" /\ store'[getter[h].id] # None
    BY <2>1, <2>2, Zenon
  <2> QED
    BY <1>0, <2>1, <2>3, ApartPut, Zenon
<1> QED
  BY <1>1, <1>2, <1>3, <1>4, <1>5, <1>6, <1>7, <1>8, Zenon DEF Gets

LEMMA ApartNext == Types /\ Courses /\ Calls /\ Holds /\ Apart /\ [Next]_vars => Apart'
<1> SUFFICES ASSUME Types, Courses, Calls, Holds, Apart, [Next]_vars PROVE Apart'
  BY Zenon
<1>0. \A e \in Editors : e \in Deleters
  BY Constants, Zenon
<1>1. ASSUME NEW g \in Getters, Gets(g) PROVE Apart'
  BY <1>1, ApartGet, Zenon
<1>2. ASSUME UNCHANGED <<getter, single, store, upset>> PROVE Apart'
  BY <1>2, ApartKept, Zenon
<1>3. ASSUME NEW e \in Editors, NEW i \in Ids, Opens(e, i) PROVE Apart'
  BY <1>2, <1>3, BeginDoes, Zenon DEF rest
<1>4. ASSUME NEW e \in Editors, Write(e) \/ Fail(e) \/ ReadUsing(e) PROVE Apart'
  BY <1>2, <1>4, WriteDoes, FailDoes, ReadUsingDoes, Zenon DEF rest
<1>5. ASSUME NEW d \in Deleters, NEW i \in Ids, Delete(d, i) PROVE Apart'
  <2>1. UNCHANGED <<getter, single>>
    BY <1>5, DeleteDoes, Zenon
  <2>2. upset \subseteq upset' /\ \A j \in Ids \ upset' : store'[j] = store[j]
    BY <1>5, DeleteDoes, Zenon
  <2> QED
    BY <2>1, <2>2, ApartKept, Zenon
<1>6. ASSUME NEW d \in Deleters, NEW p \in Proxies, CloseProxy(d, p) PROVE Apart'
  BY <1>2, <1>6, CloseProxyDoes, Zenon DEF rest
<1>7. ASSUME NEW d \in Deleters, Deleted(d) PROVE Apart'
  BY <1>2, <1>7, DeletedDoes, Zenon DEF rest
<1>8. CASE Closing
  BY <1>2, <1>8, ClosingDoes, Zenon DEF rest
<1>9. CASE CloseAll
  BY <1>2, <1>9, CloseAllDoes, Zenon DEF rest
<1>10. CASE UNCHANGED vars
  BY <1>2, <1>10, Zenon DEF vars
<1> QED
  BY <1>1, <1>3, <1>4, <1>5, <1>6, <1>7, <1>8, <1>9, <1>10, Steps, Zenon
-----------------------------------------------------------------------------
(* No open dialer is lost. *)

LEMMA LostKept ==
    ASSUME NoOpenProxyLost, Holds, UNCHANGED <<store, proxy, lost>>, upset \subseteq upset',
           \A g \in Getters : getter'[g].made = getter[g].made,
           \A d \in Deleters : editor'[d].closing = editor[d].closing
    PROVE  NoOpenProxyLost' /\ Holds'
<1>1. Holds'
  BY Zenon DEF Holds
<1>2. NoOpenProxyLost'
  BY Zenon DEF NoOpenProxyLost, IsOpen
<1> QED
  BY <1>1, <1>2, Zenon

\* A step of a call other than Close that leaves the map alone.
LEMMA LostByOther ==
    ASSUME Lost, NEW d \in Deleters, d # "Close",
           UNCHANGED <<store, proxy, closed, getter, upset, lost>>,
           NEW pc, NEW id, NEW todo, NEW hold, NEW after, Ed(d, pc, id, todo, hold, after),
           hold = editor[d].closing
    PROVE  Lost'
<1>1. \A b \in Deleters : editor'[b].closing = editor[b].closing
  BY Zenon DEF Ed
<1>2. NoOpenProxyLost' /\ Holds'
  BY <1>1, LostKept, Zenon DEF Lost
<1>3. editor'["Close"] = editor["Close"]
  BY Constants, Zenon DEF Ed
<1>4. Emptied'
  BY <1>3, Zenon DEF Emptied, Lost
<1> QED
  BY <1>2, <1>4, Zenon DEF Lost

\* A step of a getter that leaves the map and the dialers alone.
LEMMA LostByGet ==
    ASSUME Lost, NEW g \in Getters, UNCHANGED <<store, proxy, closed, editor, lost>>,
           upset \subseteq upset',
           NEW pc, NEW id, NEW version, NEW mu, NEW made, Got(g, pc, id, version, mu, made),
           made = getter[g].made
    PROVE  Lost'
<1>1. \A h \in Getters : getter'[h].made = getter[h].made
  BY Zenon DEF Got
<1>2. NoOpenProxyLost' /\ Holds'
  BY <1>1, LostKept, Zenon DEF Lost
<1>3. Emptied'
  BY Zenon DEF Emptied, Lost
<1> QED
  BY <1>2, <1>3, Zenon DEF Lost

LEMMA LostByMake ==
    ASSUME Types, Calls, Lost, NEW g \in Getters, MakeDialer(g)
    PROVE  Lost'
<1>1. getter[g].pc = "lock" /\ UNCHANGED <<store, closed, editor, upset, lost>>
  BY MakeDoes, Zenon
<1>2. PICK p \in Proxies :
        /\ Got(g, "store", getter[g].id, getter[g].version, getter[g].mu, p)
        /\ proxy[p] = None /\ proxy'[p] # None
        /\ \A q \in Proxies \ {p} : proxy'[q] = proxy[q]
  BY MakeDoes, Zenon
<1>3. getter[g].made = None
  BY <1>1, Zenon DEF Calls, Known
<1>4. getter'[g].made = p /\ \A h \in Getters \ {g} : getter'[h] = getter[h]
  BY <1>2, Zenon DEF Got
<1>5. \A q \in Proxies : proxy[q] # None => proxy'[q] = proxy[q]
  BY <1>2, Zenon
<1>6. lost \subseteq Proxies /\ store \in [Ids -> Proxies \cup {None}]
  BY Zenon DEF Types
<1>7. Holds'
  <2>1. ASSUME NEW j \in Ids, store[j] # None PROVE proxy'[store[j]] # None
    BY <1>5, <1>6, <2>1, Zenon DEF Lost, Holds
  <2>2. ASSUME NEW d \in Deleters, NEW q \in editor[d].closing PROVE proxy'[q] # None
    BY <1>5, EdFields, Zenon DEF Lost, Holds
  <2>3. \A q \in lost : proxy'[q] # None
    BY <1>5, <1>6, Zenon DEF Lost, Holds
  <2> QED
    BY <1>1, <2>1, <2>2, <2>3, Zenon DEF Holds
<1>8. ASSUME NEW q \in Proxies \ lost, proxy'[q] # None, proxy'[q].open
      PROVE  \/ store[proxy'[q].id] = q
             \/ \E h \in Getters : getter'[h].made = q
             \/ \E d \in Deleters : q \in editor[d].closing
  <2>1. CASE q = p
    BY <1>4, <2>1, Zenon
  <2>2. CASE q # p
    <3>1. proxy'[q] = proxy[q] /\ IsOpen(q) /\ q # None
      BY <1>2, <1>8, <2>2, Constants, Zenon DEF IsOpen
    <3>2. \/ store[proxy[q].id] = q
          \/ \E h \in Getters : getter[h].made = q
          \/ \E d \in Deleters : q \in editor[d].closing
      BY <3>1, Zenon DEF Lost, NoOpenProxyLost
    <3>3. ASSUME NEW h \in Getters, getter[h].made = q PROVE getter'[h].made = q
      BY <1>3, <1>4, <3>1, <3>3, Zenon
    <3> QED
      BY <3>1, <3>2, <3>3, Zenon
  <2> QED
    BY <2>1, <2>2, Zenon
<1>9. \A q \in lost : proxy'[q].id \in upset
  BY <1>5, <1>6, Zenon DEF Lost, NoOpenProxyLost, Holds
<1>10. NoOpenProxyLost'
  BY <1>1, <1>8, <1>9, Zenon DEF NoOpenProxyLost, IsOpen
<1>11. Emptied'
  BY <1>1, Zenon DEF Emptied, Lost
<1> QED
  BY <1>7, <1>10, <1>11, Zenon DEF Lost

LEMMA LostByStore ==
    ASSUME Types, Calls, Apart, Lost, NEW g \in Getters, LoadOrStore(g)
    PROVE  Lost'
<1>1. /\ getter[g].pc = "store" /\ Unlocks(g)
      /\ UNCHANGED <<proxy, closed, editor, upset>>
  BY StoreDoes, Zenon
<1>2. PICK p \in Proxies : p = getter[g].made
  BY <1>1, GotFields, Zenon DEF Calls, Known
<1>3. PICK i \in Ids : i = getter[g].id
  BY <1>1, Zenon DEF Calls, Known
<1>4. /\ p # None /\ proxy[p] # None /\ proxy[p].id = i
      /\ closed # "closed" /\ editor["Close"].pc # "delete"
  BY <1>1, <1>2, <1>3, Constants, Zenon DEF Calls
<1>5. \A h \in Getters \ {g} : getter'[h] = getter[h]
  BY <1>1, Zenon DEF Unlocks, Got
<1>6. Emptied'
  BY <1>1, <1>4, Zenon DEF Emptied
<1>7. CASE store[i] = None
  <2>1. store'[i] = p /\ lost' = lost /\ \A j \in Ids \ {i} : store'[j] = store[j]
    BY <1>2, <1>3, <1>7, StoreDoes, Zenon
  <2>2. Holds'
    <3>1. ASSUME NEW j \in Ids, store'[j] # None PROVE proxy[store'[j]] # None
      <4>1. CASE j = i
        BY <1>4, <2>1, <4>1, Zenon
      <4>2. CASE j # i
        BY <2>1, <3>1, <4>2, Zenon DEF Lost, Holds
      <4> QED
        BY <4>1, <4>2, Zenon
    <3> QED
      BY <1>1, <2>1, <3>1, Zenon DEF Lost, Holds
  <2>3. ASSUME NEW q \in Proxies \ lost, IsOpen(q)
        PROVE  \/ store'[proxy[q].id] = q
               \/ \E h \in Getters : getter'[h].made = q
               \/ \E d \in Deleters : q \in editor[d].closing
    <3>1. proxy[q] \in Dialer
      BY <2>3, Zenon DEF Types, IsOpen
    <3>2. PICK j \in Ids : j = proxy[q].id
      BY <3>1, Zenon DEF Dialer
    <3>3. CASE q = p
      BY <1>4, <2>1, <3>3, Zenon
    <3>4. CASE q # p
      <4>1. \/ store[j] = q
            \/ \E h \in Getters : getter[h].made = q
            \/ \E d \in Deleters : q \in editor[d].closing
        BY <2>3, <3>2, Zenon DEF Lost, NoOpenProxyLost
      <4>2. ASSUME store[j] = q PROVE store'[j] = q
        <5>1. j # i
          BY <1>7, <4>2, Constants, Zenon
        <5> QED
          BY <2>1, <4>2, <5>1, Zenon
      <4>3. ASSUME NEW h \in Getters, getter[h].made = q PROVE getter'[h].made = q
        BY <1>2, <1>5, <3>4, <4>3, Zenon
      <4> QED
        BY <3>2, <4>1, <4>2, <4>3, Zenon
    <3> QED
      BY <3>3, <3>4, Zenon
  <2>4. NoOpenProxyLost'
    BY <1>1, <2>1, <2>3, Zenon DEF Lost, NoOpenProxyLost, IsOpen
  <2> QED
    BY <1>6, <2>2, <2>4, Zenon DEF Lost
<1>8. CASE store[i] # None
  <2>1. store' = store /\ lost' = lost \cup {p}
    BY <1>2, <1>3, <1>8, StoreDoes, Zenon
  <2>2. i \in upset
    BY <1>1, <1>3, <1>8, Zenon DEF Apart
  <2>3. Holds'
    BY <1>1, <1>4, <2>1, Zenon DEF Lost, Holds
  <2>4. ASSUME NEW q \in Proxies \ lost', IsOpen(q)
        PROVE  \/ store[proxy[q].id] = q
               \/ \E h \in Getters : getter'[h].made = q
               \/ \E d \in Deleters : q \in editor[d].closing
    <3>1. q # p /\ q \in Proxies \ lost
      BY <2>1, <2>4, Zenon
    <3>2. \/ store[proxy[q].id] = q
          \/ \E h \in Getters : getter[h].made = q
          \/ \E d \in Deleters : q \in editor[d].closing
      BY <2>4, <3>1, Zenon DEF Lost, NoOpenProxyLost
    <3>3. ASSUME NEW h \in Getters, getter[h].made = q PROVE getter'[h].made = q
      BY <1>2, <1>5, <3>1, <3>3, Zenon
    <3> QED
      BY <3>2, <3>3, Zenon
  <2>5. \A q \in lost' : proxy[q].id \in upset
    BY <1>4, <2>1, <2>2, Zenon DEF Lost, NoOpenProxyLost
  <2>6. NoOpenProxyLost'
    BY <1>1, <2>1, <2>4, <2>5, Zenon DEF NoOpenProxyLost, IsOpen
  <2> QED
    BY <1>6, <2>3, <2>6, Zenon DEF Lost
<1> QED
  BY <1>7, <1>8, Zenon

LEMMA LostGet ==
    ASSUME Types, Calls, Apart, Lost, NEW g \in Getters, Gets(g)
    PROVE  Lost'
<1>0. getter[g].pc # "store" => getter[g].made = None
  BY Zenon DEF Calls, Known
<1>1. ASSUME NEW i \in Ids, ReadNode(g, i) PROVE Lost'
  <2>1. getter[g].pc = "idle"
    BY <1>1, Zenon DEF ReadNode
  <2> QED
    BY <1>0, <1>1, <2>1, ReadNodeDoes, LostByGet, Zenon DEF others
<1>2. ASSUME LoadOrCreate(g) PROVE Lost'
  <2>1. getter[g].made = None /\ UNCHANGED <<store, proxy, closed, editor, lost, upset>>
    BY <1>0, <1>2, LoadDoes, Zenon DEF others
  <2> QED
    BY <1>2, <2>1, LoadDoes, LostByGet, Zenon
<1>3. ASSUME GetMu(g) PROVE Lost'
  <2>1. UNCHANGED <<store, proxy, closed, editor, lost, upset>>
    BY <1>3, GetMuDoes, Zenon
  <2>2. PICK m : Got(g, "lock", getter[g].id, getter[g].version, m, getter[g].made)
    BY <1>3, GetMuDoes, Zenon
  <2> QED
    BY <2>1, <2>2, LostByGet, Zenon
<1>4. ASSUME FindEntry(g) \/ MakeFails(g) PROVE Lost'
  <2>1. /\ getter[g].pc = "lock" /\ Unlocks(g) /\ UNCHANGED <<store, proxy, closed, editor, lost>>
        /\ upset \subseteq upset'
    BY <1>4, FindDoes, MakeFailsDoes, Zenon DEF others
  <2>2. getter[g].made = None
    BY <1>0, <2>1, Zenon
  <2> QED
    BY <2>1, <2>2, LostByGet, Zenon DEF Unlocks
<1>5. ASSUME DropMu(g) PROVE Lost'
  <2>1. getter[g].made = None /\ UNCHANGED <<store, proxy, closed, editor, lost, upset>>
    BY <1>0, <1>5, DropDoes, Zenon
  <2> QED
    BY <1>5, <2>1, DropDoes, LostByGet, Zenon
<1> QED
  BY <1>1, <1>2, <1>3, <1>4, <1>5, LostByMake, LostByStore, Zenon DEF Gets

LEMMA LostByDelete ==
    ASSUME Types, Courses, Lost, NEW d \in Deleters, NEW i \in Ids, Delete(d, i)
    PROVE  Lost'
<1>1. PICK hold \in SUBSET Proxies :
        /\ hold = editor[d].closing \cup ({store[i]} \ {None})
        /\ Ed(d, "delete", editor[d].id, editor[d].todo \ {i}, hold, editor[d].after)
  BY DeleteDoes, Zenon
<1>2. /\ editor[d].pc = "delete" /\ UNCHANGED <<proxy, closed, getter, lost>> /\ store'[i] = None
      /\ upset \subseteq upset' /\ \A j \in Ids \ {i} : store'[j] = store[j]
  BY DeleteDoes, Zenon
<1>3. /\ editor'[d].closing = hold /\ editor'[d].todo = editor[d].todo \ {i}
      /\ editor'[d].pc = "delete" /\ \A b \in Deleters \ {d} : editor'[b] = editor[b]
  BY <1>1, Zenon DEF Ed
<1>4. Holds'
  <2>1. \A j \in Ids : store'[j] # None => proxy'[store'[j]] # None
    BY <1>2, Zenon DEF Lost, Holds
  <2>2. \A p \in hold : proxy[p] # None
    BY <1>1, Zenon DEF Lost, Holds
  <2>3. \A b \in Deleters : \A p \in editor'[b].closing : proxy'[p] # None
    BY <1>2, <1>3, <2>2, Zenon DEF Lost, Holds
  <2> QED
    BY <1>2, <2>1, <2>3, Zenon DEF Lost, Holds
<1>5. ASSUME NEW p \in Proxies \ lost, IsOpen(p)
      PROVE  \/ store'[proxy[p].id] = p
             \/ \E g \in Getters : getter[g].made = p
             \/ \E b \in Deleters : p \in editor'[b].closing
  <2>1. proxy[p] \in Dialer
    BY <1>5, Zenon DEF Types, IsOpen
  <2>2. PICK j \in Ids : j = proxy[p].id
    BY <2>1, Zenon DEF Dialer
  <2>3. CASE store[j] = p /\ j # i
    BY <1>2, <2>2, <2>3, Zenon
  <2>4. CASE store[j] = p /\ j = i
    <3>1. p \in hold
      BY <1>1, <2>4, Constants, Zenon
    <3> QED
      BY <1>3, <3>1, Zenon
  <2>5. ASSUME NEW b \in Deleters, p \in editor[b].closing
        PROVE  p \in editor'[b].closing
    BY <1>1, <1>3, <2>5, Zenon
  <2> QED
    BY <1>5, <2>2, <2>3, <2>4, <2>5, Zenon DEF Lost, NoOpenProxyLost
<1>6. NoOpenProxyLost'
  BY <1>2, <1>5, Zenon DEF Lost, NoOpenProxyLost, IsOpen
<1>7. Emptied'
  <2>1. ASSUME editor'["Close"].pc = "delete", NEW j \in Ids \ editor'["Close"].todo
        PROVE  store'[j] = None
    <3>1. CASE j = i
      BY <1>2, <3>1, Zenon
    <3>2. CASE j # i
      <4>1. editor["Close"].pc = "delete" /\ j \notin editor["Close"].todo
        BY <1>2, <1>3, <2>1, <3>2, Constants, Zenon
      <4> QED
        BY <1>2, <2>1, <3>2, <4>1 DEF Lost, Emptied
    <3> QED
      BY <3>1, <3>2, Zenon
  <2>2. closed' = "closed" => \A j \in Ids : store'[j] = None
    BY <1>2, Zenon DEF Lost, Emptied
  <2> QED
    BY <2>1, <2>2, Zenon DEF Emptied
<1> QED
  BY <1>4, <1>6, <1>7, Zenon DEF Lost

LEMMA LostByCloseProxy ==
    ASSUME Types, Lost, NEW d \in Deleters, NEW p \in Proxies, CloseProxy(d, p)
    PROVE  Lost'
<1>0. Holds
  BY Zenon DEF Lost
<1>1. /\ UNCHANGED <<store, closed, getter, upset, lost>> /\ proxy'[p] # None /\ ~proxy'[p].open
      /\ proxy'[p].id = proxy[p].id
      /\ \A q \in Proxies \ {p} : proxy'[q] = proxy[q]
      /\ Ed(d, editor[d].pc, editor[d].id, editor[d].todo, editor[d].closing \ {p},
            editor[d].after)
  BY <1>0, CloseProxyDoes, Zenon
<1>2. \A b \in Deleters : /\ editor'[b].pc = editor[b].pc /\ editor'[b].todo = editor[b].todo
                          /\ editor'[b].closing \subseteq editor[b].closing
                          /\ editor[b].closing \ {p} \subseteq editor'[b].closing
  BY <1>1, Zenon DEF Ed
<1>3. \A q \in Proxies : proxy[q] # None => proxy'[q] # None
  BY <1>1, Zenon
<1>4. Holds'
  <2>1. \A i \in Ids : store'[i] # None => proxy'[store'[i]] # None
    BY <1>0, <1>1, <1>3, Zenon DEF Types, Holds
  <2>2. ASSUME NEW b \in Deleters, NEW q \in editor'[b].closing PROVE proxy'[q] # None
    <3>1. q \in editor[b].closing /\ q \in Proxies
      BY <1>2, EdFields, Zenon
    <3> QED
      BY <1>0, <1>3, <3>1, Zenon DEF Holds
  <2>3. \A q \in lost' : proxy'[q] # None
    BY <1>0, <1>1, <1>3, Zenon DEF Types, Holds
  <2> QED
    BY <2>1, <2>2, <2>3, Zenon DEF Holds
<1>5. ASSUME NEW q \in Proxies \ lost, proxy'[q] # None, proxy'[q].open
      PROVE  \/ store[proxy'[q].id] = q
             \/ \E g \in Getters : getter[g].made = q
             \/ \E b \in Deleters : q \in editor'[b].closing
  <2>1. q # p /\ proxy'[q] = proxy[q]
    BY <1>1, <1>5, Zenon
  <2>2. \/ store[proxy[q].id] = q
        \/ \E g \in Getters : getter[g].made = q
        \/ \E b \in Deleters : q \in editor[b].closing
    BY <1>5, <2>1, Zenon DEF Lost, NoOpenProxyLost, IsOpen
  <2> QED
    BY <1>2, <2>1, <2>2, Zenon
<1>6. NoOpenProxyLost'
  <2>1. \A q \in lost : proxy'[q].id = proxy[q].id
    BY <1>1, Zenon DEF Types
  <2> QED
    BY <1>1, <1>5, <2>1, Zenon DEF Lost, NoOpenProxyLost, IsOpen
<1>7. Emptied'
  BY <1>1, <1>2, Constants, Zenon DEF Lost, Emptied
<1> QED
  BY <1>4, <1>6, <1>7, Zenon DEF Lost

LEMMA LostNext == Types /\ Courses /\ Calls /\ Apart /\ Lost /\ [Next]_vars => Lost'
<1> SUFFICES ASSUME Types, Courses, Calls, Apart, Lost, [Next]_vars PROVE Lost'
  BY Zenon
<1>0. /\ \A e \in Editors : e \in Deleters /\ e # "Close"
      /\ \A d \in Deleters : editor[d].pc # "delete" => editor[d].closing = {}
      /\ Holds
      /\ "delete" \notin Writes
  BY Constants, Zenon DEF Lost, Courses, Writes
<1>1. ASSUME NEW g \in Getters, Gets(g) PROVE Lost'
  BY <1>1, LostGet, Zenon
<1>4. ASSUME NEW e \in Editors, NEW i \in Ids, Opens(e, i) PROVE Lost'
  <2>1. editor[e].pc = "idle" /\ UNCHANGED <<store, proxy, closed, getter, upset, lost>>
    BY <1>4, BeginDoes, Zenon DEF rest
  <2>2. PICK pc, todo, after : Ed(e, pc, i, todo, {}, after)
    BY <1>4, BeginDoes, Zenon
  <2>3. editor[e].closing = {}
    BY <1>0, <2>1, Zenon
  <2> QED
    BY <1>0, <2>1, <2>2, <2>3, LostByOther, Zenon
<1>5. ASSUME NEW e \in Editors, Write(e) PROVE Lost'
  BY <1>0, <1>5, WriteDoes, LostByOther, Zenon
<1>6. ASSUME NEW e \in Editors, Fail(e) PROVE Lost'
  <2>1. /\ editor[e].pc \in Writes \cup {"using"} /\ Ed(e, "idle", None, {}, {}, "idle")
        /\ UNCHANGED <<store, proxy, closed, getter, upset, lost>>
    BY <1>6, FailDoes, Zenon
  <2>2. editor[e].closing = {}
    BY <1>0, <2>1, Zenon
  <2> QED
    BY <1>0, <2>1, <2>2, LostByOther, Zenon
<1>7. ASSUME NEW e \in Editors, ReadUsing(e) PROVE Lost'
  BY <1>0, <1>7, ReadUsingDoes, LostByOther, Zenon DEF rest
<1>8. ASSUME NEW d \in Deleters, NEW i \in Ids, Delete(d, i) PROVE Lost'
  BY <1>8, LostByDelete, Zenon
<1>9. ASSUME NEW d \in Deleters, NEW p \in Proxies, CloseProxy(d, p) PROVE Lost'
  BY <1>9, LostByCloseProxy, Zenon
<1>10. ASSUME NEW d \in Deleters, Deleted(d) PROVE Lost'
  <2>1. /\ editor[d].pc = "delete" /\ editor[d].todo = {} /\ editor[d].closing = {}
        /\ UNCHANGED <<store, proxy, getter, upset, lost>>
        /\ closed' = (IF d = "Close" THEN "closed" ELSE closed)
    BY <1>10, DeletedDoes, Zenon
  <2>2. PICK pc, id, after : Ed(d, pc, id, {}, {}, after)
    BY <1>10, DeletedDoes, Zenon
  <2>3. CASE d # "Close"
    BY <2>1, <2>2, <2>3, LostByOther, Zenon
  <2>4. CASE d = "Close"
    <3>1. \A b \in Deleters : editor'[b].closing = editor[b].closing
      BY <2>1, <2>2, Zenon DEF Ed
    <3>2. NoOpenProxyLost' /\ Holds'
      BY <2>1, <3>1, LostKept, Zenon DEF Lost
    <3>3. \A i \in Ids : store'[i] = None
      BY <2>1, <2>4, Zenon DEF Lost, Emptied
    <3>4. Emptied'
      BY <3>3, Zenon DEF Emptied
    <3> QED
      BY <3>2, <3>4, Zenon DEF Lost
  <2> QED
    BY <2>3, <2>4, Zenon
<1>11. CASE Closing
  <2>1. UNCHANGED <<store, proxy, editor, getter, upset, lost>> /\ closed' # "closed"
    BY <1>11, ClosingDoes, Zenon
  <2>2. NoOpenProxyLost' /\ Holds'
    BY <2>1, LostKept, Zenon DEF Lost
  <2>3. Emptied'
    BY <2>1, Zenon DEF Lost, Emptied
  <2> QED
    BY <2>2, <2>3 DEF Lost
<1>12. CASE CloseAll
  <2>1. /\ closed' = "store" /\ UNCHANGED <<store, proxy, getter, upset, lost>>
        /\ editor["Close"].pc = "idle"
        /\ Ed("Close", "delete", None, Ids, {}, "idle")
    BY <1>12, CloseAllDoes, Zenon DEF rest
  <2>2. editor["Close"].closing = {}
    BY <1>0, <2>1, Constants, Zenon
  <2>3. \A b \in Deleters : editor'[b].closing = editor[b].closing
    BY <2>1, <2>2, Zenon DEF Ed
  <2>4. NoOpenProxyLost' /\ Holds'
    BY <2>1, <2>3, LostKept, Zenon DEF Lost
  <2>5. editor'["Close"].todo = Ids
    BY <2>1, Zenon DEF Ed
  <2>6. Emptied'
    BY <2>1, <2>5, Zenon DEF Emptied
  <2> QED
    BY <2>4, <2>6 DEF Lost
<1>13. CASE UNCHANGED vars
  <2>1. NoOpenProxyLost' /\ Holds'
    BY <1>13, LostKept, Zenon DEF Lost, vars
  <2>2. Emptied'
    BY <1>13, Zenon DEF Lost, Emptied, vars
  <2> QED
    BY <2>1, <2>2, Zenon DEF Lost
<1> QED
  BY <1>1, <1>4, <1>5, <1>6, <1>7, <1>8, <1>9, <1>10, <1>11, <1>12, <1>13, Steps, Zenon

-----------------------------------------------------------------------------
(* The dialers in the map are fresh, or about to go. *)

\* A step of a call that had nothing left to delete.
LEMMA FreshKept ==
    ASSUME Fresh, NEW d \in Deleters, editor[d].pc = "delete" => editor[d].todo = {},
           \A b \in Deleters \ {d} : editor'[b] = editor[b],
           UNCHANGED <<nodes, store, proxy, getter, raced>>
    PROVE  Fresh'
<1>1. ASSUME NEW i \in Ids, NEW b \in Deleters, editor[b].pc = "delete", i \in editor[b].todo
      PROVE  editor'[b] = editor[b]
  BY <1>1, Zenon
<1> QED
  BY <1>1 DEF Fresh, Reading

LEMMA FreshByWrite ==
    ASSUME Types, Courses, Fresh, NEW e \in Editors, Write(e)
    PROVE  Fresh'
<1>0. e \in Deleters /\ "delete" \notin Writes
  BY Constants, Zenon DEF Writes
<1>1. /\ editor[e].pc \in Writes /\ raced \subseteq raced' /\ UNCHANGED <<store, proxy, getter>>
      /\ \A j \in Ids \ raced' : nodes'[j] # nodes[j] =>
           editor[e].pc = "save" /\ j = editor[e].id /\ \A g \in Getters : ~Reading(g, j)
  BY WriteDoes, Zenon
<1>2. PICK pc \in {"delete", "using"} :
        /\ pc = "delete" <=> editor[e].after = "delete"
        /\ Ed(e, pc, editor[e].id, editor[e].todo, editor[e].closing, editor[e].after)
  BY WriteDoes, Zenon
<1>3. /\ editor'[e].pc = pc /\ editor'[e].todo = editor[e].todo
      /\ \A b \in Deleters \ {e} : editor'[b] = editor[b]
  BY <1>2, Zenon DEF Ed
<1>4. ASSUME NEW i \in Ids \ raced'
      PROVE  /\ \A g \in Getters : Reading(g, i) => getter[g].version = nodes'[i]
             /\ store[i] # None =>
                  \/ proxy[store[i]].version = nodes'[i]
                  \/ \E d \in Deleters : editor'[d].pc = "delete" /\ i \in editor'[d].todo
  <2>1. CASE nodes'[i] = nodes[i]
    <3>1. ASSUME NEW d \in Deleters, editor[d].pc = "delete", i \in editor[d].todo
          PROVE  editor'[d].pc = "delete" /\ i \in editor'[d].todo
      BY <1>0, <1>1, <1>3, <3>1, Zenon
    <3>2. i \in Ids \ raced
      BY <1>1, Zenon
    <3> QED
      BY <2>1, <3>1, <3>2, Zenon DEF Fresh
  <2>2. CASE nodes'[i] # nodes[i]
    <3>1. /\ editor[e].pc = "save" /\ i = editor[e].id /\ \A g \in Getters : ~Reading(g, i)
      BY <1>1, <2>2, Zenon
    <3>2. editor[e].after = "delete" /\ i \in editor[e].todo
      BY <1>0, <3>1, Zenon DEF Courses
    <3> QED
      BY <1>0, <1>2, <1>3, <3>1, <3>2, Zenon
  <2> QED
    BY <2>1, <2>2, Zenon
<1> QED
  BY <1>1, <1>4, Zenon DEF Fresh, Reading

\* A step of a getter.
LEMMA FreshPut ==
    ASSUME Fresh, NEW g \in Getters, UNCHANGED <<nodes, editor, raced>>,
           NEW pc, NEW id, NEW version, NEW mu, NEW made, Got(g, pc, id, version, mu, made),
           pc # "done" /\ id \in Ids \ raced => version = nodes[id],
           \A j \in Ids \ raced : store'[j] # None =>
             \/ store'[j] = store[j] /\ proxy'[store[j]].version = proxy[store[j]].version
             \/ proxy'[store'[j]].version = nodes[j]
    PROVE  Fresh'
<1>1. ASSUME NEW j \in Ids \ raced, NEW h \in Getters, getter'[h].id = j, getter'[h].pc # "done"
      PROVE  getter'[h].version = nodes[j]
  <2>1. CASE h = g
    BY <1>1, <2>1, Zenon DEF Got
  <2>2. CASE h # g
    <3>1. getter'[h] = getter[h] /\ Reading(h, j)
      BY <1>1, <2>2, Zenon DEF Got, Reading
    <3> QED
      BY <3>1, Zenon DEF Fresh
  <2> QED
    BY <2>1, <2>2, Zenon
<1>2. ASSUME NEW j \in Ids \ raced, store'[j] # None
      PROVE  \/ proxy'[store'[j]].version = nodes[j]
             \/ \E d \in Deleters : editor[d].pc = "delete" /\ j \in editor[d].todo
  <2>1. CASE store'[j] = store[j] /\ proxy'[store[j]].version = proxy[store[j]].version
    BY <1>2, <2>1, Zenon DEF Fresh
  <2> QED
    BY <1>2, <2>1, Zenon
<1> QED
  BY <1>1, <1>2, Zenon DEF Fresh, Reading

LEMMA FreshGet ==
    ASSUME Types, Calls, Holds, Fresh, NEW g \in Getters, Gets(g)
    PROVE  Fresh'
<1>0. /\ UNCHANGED <<nodes, editor, raced>> /\ Grown /\ None \notin Ids
      /\ \A j \in Ids : store[j] # None => store[j] \in Proxies /\ proxy[store[j]] # None
  BY GetsDo, Constants, Zenon DEF Types, Holds
<1>1. \A j \in Ids : store[j] # None => proxy'[store[j]].version = proxy[store[j]].version
  BY <1>0, Zenon DEF Grown
<1>2. getter[g].pc # "done" /\ getter[g].id \in Ids \ raced => getter[g].version = nodes[getter[g].id]
  BY Zenon DEF Fresh, Reading
\* the steps that leave the map alone
<1>3. ASSUME store' = store, NEW pc, NEW id, NEW version, NEW mu, NEW made,
             Got(g, pc, id, version, mu, made),
             pc # "done" /\ id \in Ids \ raced => version = nodes[id]
      PROVE  Fresh'
  <2>1. \A j \in Ids \ raced : store'[j] # None =>
             \/ store'[j] = store[j] /\ proxy'[store[j]].version = proxy[store[j]].version
             \/ proxy'[store'[j]].version = nodes[j]
    BY <1>1, <1>3, Zenon
  <2> QED
    BY <1>0, <1>3, <2>1, FreshPut, Zenon
<1>4. ASSUME store' = store, Got(g, "idle", None, 0, None, None) PROVE Fresh'
  BY <1>0, <1>3, <1>4, Zenon
<1>5. ASSUME store' = store, Unlocks(g) PROVE Fresh'
  <2>1. CASE Got(g, "done", getter[g].id, 0, getter[g].mu, None)
    BY <1>3, <1>5, <2>1, Zenon
  <2> QED
    BY <1>4, <1>5, <2>1, Zenon DEF Unlocks
<1>6. ASSUME NEW i \in Ids, ReadNode(g, i) PROVE Fresh'
  BY <1>3, <1>6, ReadNodeDoes, Zenon DEF others
<1>7. ASSUME LoadOrCreate(g) PROVE Fresh'
  <2>1. getter[g].pc # "done" /\ store' = store
    BY <1>7, LoadDoes, Zenon DEF others
  <2>2. CASE Got(g, "mutex", getter[g].id, getter[g].version, getter[g].mu, getter[g].made)
    BY <1>2, <1>3, <2>1, <2>2, Zenon
  <2> QED
    BY <1>4, <1>7, <2>1, <2>2, LoadDoes, Zenon
<1>8. ASSUME GetMu(g) PROVE Fresh'
  <2>1. getter[g].pc # "done" /\ store' = store
    BY <1>8, GetMuDoes, Zenon
  <2>2. PICK m : Got(g, "lock", getter[g].id, getter[g].version, m, getter[g].made)
    BY <1>8, GetMuDoes, Zenon
  <2> QED
    BY <1>2, <1>3, <2>1, <2>2, Zenon
<1>9. ASSUME FindEntry(g) \/ MakeFails(g) PROVE Fresh'
  BY <1>5, <1>9, FindDoes, MakeFailsDoes, Zenon DEF others
<1>10. ASSUME MakeDialer(g) PROVE Fresh'
  <2>1. getter[g].pc # "done" /\ store' = store
    BY <1>10, MakeDoes, Zenon
  <2>2. PICK p : Got(g, "store", getter[g].id, getter[g].version, getter[g].mu, p)
    BY <1>10, MakeDoes, Zenon
  <2> QED
    BY <1>2, <1>3, <2>1, <2>2, Zenon
<1>11. ASSUME LoadOrStore(g) PROVE Fresh'
  <2>1. getter[g].pc = "store" /\ Unlocks(g) /\ proxy' = proxy
    BY <1>11, StoreDoes, Zenon
  <2>2. CASE store' = store
    BY <1>5, <2>1, <2>2, Zenon
  <2>3. CASE store[getter[g].id] = None
    <3>1. /\ store'[getter[g].id] = getter[g].made
          /\ \A j \in Ids \ {getter[g].id} : store'[j] = store[j]
      BY <1>11, <2>3, StoreDoes, Zenon
    <3>2. proxy'[getter[g].made].version = getter[g].version
      BY <2>1, Zenon DEF Calls, Known
    <3>3. ASSUME NEW j \in Ids \ raced, store'[j] # None
          PROVE  \/ store'[j] = store[j] /\ proxy'[store[j]].version = proxy[store[j]].version
                 \/ proxy'[store'[j]].version = nodes[j]
      <4>1. CASE j = getter[g].id
        BY <1>2, <2>1, <3>1, <3>2, <4>1, Zenon
      <4>2. CASE j # getter[g].id
        BY <2>1, <3>1, <4>2, Zenon
      <4> QED
        BY <4>1, <4>2, Zenon
    <3>4. CASE Got(g, "idle", None, 0, None, None)
      BY <1>0, <3>3, <3>4, FreshPut, Zenon
    <3>5. CASE Got(g, "done", getter[g].id, 0, getter[g].mu, None)
      BY <1>0, <3>3, <3>5, FreshPut, Zenon
    <3> QED
      BY <2>1, <3>4, <3>5, Zenon DEF Unlocks
  <2> QED
    BY <1>11, <2>2, <2>3, StoreDoes, Zenon
<1>12. ASSUME DropMu(g) PROVE Fresh'
  BY <1>4, <1>12, DropDoes, Zenon
<1> QED
  BY <1>6, <1>7, <1>8, <1>9, <1>10, <1>11, <1>12, Zenon DEF Gets

LEMMA FreshNext == Types /\ Courses /\ Calls /\ Holds /\ Fresh /\ [Next]_vars => Fresh'
<1> SUFFICES ASSUME Types, Courses, Calls, Holds, Fresh, [Next]_vars PROVE Fresh'
  BY Zenon
<1>0. \A e \in Editors : e \in Deleters
  BY Constants, Zenon
<1>1. ASSUME NEW g \in Getters, Gets(g) PROVE Fresh'
  BY <1>1, FreshGet, Zenon
<1>3. ASSUME NEW e \in Editors, NEW i \in Ids, Opens(e, i) PROVE Fresh'
  <2>1. /\ editor[e].pc # "delete" /\ UNCHANGED <<nodes, store, proxy, getter, raced>>
        /\ \A b \in Deleters \ {e} : editor'[b] = editor[b]
    BY <1>3, BeginDoes, Zenon DEF rest, Ed
  <2> QED
    BY <1>0, <2>1, FreshKept, Zenon
<1>4. ASSUME NEW e \in Editors, Write(e) PROVE Fresh'
  BY <1>4, FreshByWrite, Zenon
<1>5. ASSUME NEW e \in Editors, Fail(e) PROVE Fresh'
  <2>1. /\ editor[e].pc # "delete" /\ UNCHANGED <<nodes, store, proxy, getter, raced>>
        /\ \A b \in Deleters \ {e} : editor'[b] = editor[b]
    BY <1>5, FailDoes, Zenon DEF Ed, Writes
  <2> QED
    BY <1>0, <2>1, FreshKept, Zenon
<1>6. ASSUME NEW e \in Editors, ReadUsing(e) PROVE Fresh'
  <2>1. /\ editor[e].pc # "delete" /\ UNCHANGED <<nodes, store, proxy, getter, raced>>
        /\ \A b \in Deleters \ {e} : editor'[b] = editor[b]
    BY <1>6, ReadUsingDoes, Zenon DEF rest, Ed
  <2> QED
    BY <1>0, <2>1, FreshKept, Zenon
<1>7. ASSUME NEW d \in Deleters, NEW i \in Ids, Delete(d, i) PROVE Fresh'
  <2>1. /\ UNCHANGED <<nodes, proxy, getter, raced>> /\ store'[i] = None
        /\ \A j \in Ids \ {i} : store'[j] = store[j]
    BY <1>7, DeleteDoes, Zenon
  <2>2. /\ editor'[d].pc = "delete" /\ editor'[d].todo = editor[d].todo \ {i}
        /\ \A b \in Deleters \ {d} : editor'[b] = editor[b]
    BY <1>7, DeleteDoes, Zenon DEF Ed
  <2>3. ASSUME NEW j \in Ids, store'[j] # None, NEW b \in Deleters,
               editor[b].pc = "delete", j \in editor[b].todo
        PROVE  editor'[b].pc = "delete" /\ j \in editor'[b].todo
    BY <2>1, <2>2, <2>3, Zenon
  <2>4. \A j \in Ids : store'[j] # None => store'[j] = store[j]
    BY <2>1, Zenon
  <2> QED
    BY <2>1, <2>3, <2>4 DEF Fresh, Reading
<1>8. ASSUME NEW d \in Deleters, NEW p \in Proxies, CloseProxy(d, p) PROVE Fresh'
  <2>1. /\ UNCHANGED <<nodes, store, getter, raced>>
        /\ proxy'[p].version = proxy[p].version
        /\ \A q \in Proxies \ {p} : proxy'[q] = proxy[q]
        /\ Ed(d, editor[d].pc, editor[d].id, editor[d].todo, editor[d].closing \ {p},
              editor[d].after)
    BY <1>8, CloseProxyDoes, Zenon
  <2>2. \A b \in Deleters : editor'[b].pc = editor[b].pc /\ editor'[b].todo = editor[b].todo
    BY <2>1, Zenon DEF Ed
  <2>3. \A j \in Ids : store[j] # None => proxy'[store[j]].version = proxy[store[j]].version
    BY <2>1, Zenon DEF Types
  <2> QED
    BY <2>1, <2>2, <2>3 DEF Fresh, Reading
<1>9. ASSUME NEW d \in Deleters, Deleted(d) PROVE Fresh'
  <2>1. /\ editor[d].todo = {} /\ UNCHANGED <<nodes, store, proxy, getter, raced>>
        /\ \A b \in Deleters \ {d} : editor'[b] = editor[b]
    BY <1>9, DeletedDoes, Zenon DEF Ed
  <2> QED
    BY <2>1, FreshKept, Zenon
<1>10. CASE Closing
  BY <1>10, ClosingDoes, ZenonT(40) DEF Fresh, Reading
<1>11. CASE CloseAll
  <2>1. /\ editor["Close"].pc # "delete" /\ UNCHANGED <<nodes, store, proxy, getter, raced>>
        /\ \A b \in Deleters \ {"Close"} : editor'[b] = editor[b]
    BY <1>11, CloseAllDoes, Zenon DEF rest, Ed
  <2> QED
    BY <2>1, FreshKept, Constants, Zenon
<1>12. CASE UNCHANGED vars
  <2>1. UNCHANGED <<nodes, store, proxy, getter, editor, raced>>
    BY <1>12, Zenon DEF vars, rows
  <2> QED
    BY <2>1, ZenonT(40) DEF Fresh, Reading
<1> QED
  BY <1>1, <1>3, <1>4, <1>5, <1>6, <1>7, <1>8, <1>9, <1>10, <1>11, <1>12, Steps, Zenon

-----------------------------------------------------------------------------
(* The theorems. *)

LEMMA FirstNone == Init => Lost /\ Fresh
<1> SUFFICES ASSUME Init PROVE Lost /\ Fresh
  BY Zenon
<1>1. /\ \A i \in Ids : store[i] = None
      /\ \A p \in Proxies : proxy[p] = None
      /\ \A g \in Getters : getter[g].id = None
      /\ \A d \in Deleters : editor[d].closing = {}
  BY Zenon DEF Init, NoGet, NoEdit
<1>2. Lost
  BY <1>1, Zenon DEF Init, Lost, NoOpenProxyLost, IsOpen, Holds, Emptied
<1>3. Fresh
  BY <1>1, NodeRuntimeConstants, Zenon DEF Fresh, Reading
<1> QED
  BY <1>2, <1>3, Zenon

LEMMA Invariant == Spec => [](Types /\ Courses /\ Calls /\ Apart /\ Lost /\ Fresh)
<1>1. Init => Types /\ Courses /\ Calls /\ Apart /\ Lost /\ Fresh
  BY TypesInit, FirstNone, Zenon
<1>2. Lost => Holds
  BY Zenon DEF Lost
<1>3. Types /\ Courses /\ Calls /\ Apart /\ Lost /\ Fresh /\ [Next]_vars =>
        (Types /\ Courses /\ Calls /\ Apart /\ Lost /\ Fresh)'
  BY <1>2, TypesNext, CoursesNext, CallsNext, ApartNext, LostNext, FreshNext, Zenon
<1> QED
  BY <1>1, <1>3, PTL DEF Spec

LEMMA QuietHolds ==
    Quiet => /\ \A d \in Deleters : editor[d].pc = "idle" /\ editor[d].closing = {}
             /\ \A g \in Getters : getter[g].made = None
  BY DEF Quiet, NoEdit, NoGet

\* Whatever deletions, edits and getters overlap with each other and with Close,
\* an open dialer is in the map, or in the hands of the getter that has made it
\* or of the call that closes it, and none is open once Close has ended
\* (node/store.go, node/runtime.go).  A dialer is lost only when another took its
\* place in LoadOrStore (syncmap.go:46), and only of a node whose entry was
\* deleted, or could not be made, before.
THEOREM DialersKept == Spec => []NoDialerLost
<1>1. ASSUME Types, Lost, closed = "closed", Quiet, NEW p \in Proxies \ lost, IsOpen(p)
      PROVE  FALSE
  <2>1. proxy[p] \in Dialer
    BY <1>1, Zenon DEF Types, IsOpen
  <2>2. PICK i \in Ids : i = proxy[p].id
    BY <2>1, Zenon DEF Dialer
  <2>3. store[i] # p
    BY <1>1, Constants, Zenon DEF Lost, Emptied
  <2> QED
    BY <1>1, <2>2, <2>3, QuietHolds, Constants, Zenon DEF Lost, NoOpenProxyLost
<1>2. Types /\ Lost => NoDialerLost
  BY <1>1, Zenon DEF Lost, NoDialerLost, ClosedMeansClosed
<1> QED
  BY <1>2, Invariant, PTL

\* When no call is under way, every dialer in the map was made from the row in
\* the database, except for the nodes whose row changed behind a deletion or
\* behind a getter's read (GetDialerByID and Save of node/runtime.go).
THEOREM DialersFresh == Spec => []CacheFresh
<1>1. Fresh => CacheFresh
  BY QuietHolds, Zenon DEF Fresh, CacheFresh
<1> QED
  BY <1>1, Invariant, PTL
=============================================================================
