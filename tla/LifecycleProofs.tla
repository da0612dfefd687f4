--------------------------- MODULE LifecycleProofs --------------------------
(***************************************************************************)
(* Proofs about the table of UDP sources, the map that makes its values    *)
(* once, the pipe and the queue of packets, for any number of goroutines,  *)
(* calls, bytes and elements.  Each has an inductive invariant of its own; *)
(* a behaviour of MCSpec drives one of them.                               *)
(***************************************************************************)
EXTENDS MCLifecycle, TLAPS

USE SMTT(30)

-----------------------------------------------------------------------------
\* A behaviour drives one component: its steps are steps of that component.
LEMMA PartsApart ==
    ASSUME [MCNext]_everything
    PROVE  /\ part' = part
           /\ part = "table" => [Table!Next]_table
           /\ part = "map" => [Map!Next]_map
           /\ part = "pipe" => [Pip!Next]_pipe
           /\ part = "ring" => [Next]_vars
  BY Zenon DEF MCNext, everything

-----------------------------------------------------------------------------
(* The table of UDP sources.  A control enters the table when it is made and *)
(* leaves it only to the reaper, which closes it; so whatever order the      *)
(* handlers, the ticker and Close come in, an open control is in the table   *)
(* or in the reaper's hands.                                                 *)

Loops == {"none", "new", "running", "stopped", "idle"}
ControlType == [loop : Loops, done : BOOLEAN, late : BOOLEAN]
TableTypes ==
    /\ entry \in 0..MaxControls /\ closed \in BOOLEAN
    /\ control \in [Table!Controls -> ControlType]
    /\ reaper \in [pc : {"wait", "range", "delete", "close"}, c : 0..MaxControls]

\* What the table and the reaper name was made, and Close sets closed first.
TableNames ==
    /\ entry # 0 => Table!Used(entry)
    /\ reaper.pc \in {"delete", "close"} => reaper.c \in Table!Controls /\ Table!Used(reaper.c)
    /\ owner # "open" => closed

TableInv ==
    TableTypes /\ TableNames /\ Table!OpenControlsAreKnown /\ Table!CloseClosesAll

LEMMA TableInitially == Table!Init => TableInv
<1> SUFFICES ASSUME Table!Init PROVE TableInv
  OBVIOUS
<1>1. /\ entry = 0 /\ closed = FALSE /\ owner = "open" /\ reaper = [pc |-> "wait", c |-> 0]
      /\ control = [c \in Table!Controls |-> [loop |-> "none", done |-> FALSE, late |-> FALSE]]
  BY Zenon DEF Table!Init
<1>2. reaper.pc = "wait" /\ reaper \in [pc : {"wait", "range", "delete", "close"}, c : 0..MaxControls]
  BY <1>1, LifecycleConstants
<1>3. \A c \in Table!Controls : ~Table!Used(c)
  BY <1>1, Zenon DEF Table!Used
<1>4. [loop |-> "none", done |-> FALSE, late |-> FALSE] \in ControlType
  BY Zenon DEF ControlType, Loops
<1>5. 0 \in 0..MaxControls
  BY LifecycleConstants
<1> QED
  BY <1>1, <1>2, <1>3, <1>4, <1>5, Zenon
  DEF TableInv, TableTypes, TableNames, Table!OpenControlsAreKnown, Table!CloseClosesAll

LEMMA EntryIsControl == TableTypes /\ entry # 0 => entry \in Table!Controls
  BY LifecycleConstants DEF TableTypes, Table!Controls

\* What becomes of one control.
Becomes(c, x) ==
    /\ control' \in [Table!Controls -> ControlType] /\ control'[c] = x
    /\ \A d \in Table!Controls \ {c} : control'[d] = control[d]

LEMMA ControlPut ==
    ASSUME TableTypes, NEW c \in Table!Controls, NEW x \in ControlType,
           control' = [control EXCEPT ![c] = x]
    PROVE  Becomes(c, x)
  BY Zenon DEF TableTypes, Becomes

\* A control by itself: its loop starts, stops and ages, and it may be blocked.
LEMMA ControlStep ==
    ASSUME TableInv, NEW c \in Table!Controls, NEW x \in ControlType,
           Table!Used(c), x.loop # "none", control[c].done => x.done, x.late = control[c].late,
           control' = [control EXCEPT ![c] = x], UNCHANGED <<entry, closed, reaper, owner>>
    PROVE  TableInv'
<1>1. Becomes(c, x)
  BY ControlPut, Zenon DEF TableInv
<1>2. \A d \in Table!Controls : /\ Table!Used(d)' = Table!Used(d)
                                /\ control'[d].late = control[d].late
                                /\ control[d].done => control'[d].done
  BY <1>1, Zenon DEF Becomes, Table!Used
<1>3. TableTypes' /\ TableNames'
  <2>1. entry # 0 => entry \in Table!Controls
    BY EntryIsControl, Zenon DEF TableInv
  <2> QED
    BY <1>1, <1>2, <2>1, Zenon DEF TableInv, TableTypes, TableNames, Becomes, Table!Used
<1>4. Table!OpenControlsAreKnown' /\ Table!CloseClosesAll'
  BY <1>2, Zenon DEF TableInv, Table!OpenControlsAreKnown, Table!CloseClosesAll
<1> QED
  BY <1>3, <1>4, Zenon DEF TableInv

LEMMA TableInductive == TableInv /\ [Table!Next]_table => TableInv'
<1> SUFFICES ASSUME TableInv, [Table!Next]_table PROVE TableInv'
  OBVIOUS
<1> USE DEF TableInv
<1>1. ASSUME NEW w \in Handlers, Table!Check(w) \/ Table!WritePacket(w) PROVE TableInv'
  BY <1>1, Zenon DEF Table!Check, Table!WritePacket, TableTypes, TableNames, Table!Used,
     Table!OpenControlsAreKnown, Table!CloseClosesAll
<1>2. ASSUME NEW w \in Handlers, Table!Lookup(w) PROVE TableInv'
  <2>1. CASE entry # 0
    BY <1>2, <2>1, Zenon DEF Table!Lookup, TableTypes, TableNames, Table!Used,
       Table!OpenControlsAreKnown, Table!CloseClosesAll
  <2>2. CASE entry = 0
    <3>1. PICK c \in Table!Controls :
             /\ ~Table!Used(c) /\ entry' = c
             /\ control' = [control EXCEPT ![c].loop = "new", ![c].late = closed]
      BY <1>2, <2>2, Zenon DEF Table!Lookup
    <3>2. UNCHANGED <<closed, reaper, owner>>
      BY <1>2, Zenon DEF Table!Lookup
    <3> DEFINE x == [control[c] EXCEPT !.loop = "new", !.late = closed]
    <3>3. control' = [control EXCEPT ![c] = x]
      BY <3>1, Zenon DEF TableTypes
    <3>4. x \in ControlType /\ x.loop = "new" /\ x.late = closed
      BY Zenon DEF TableTypes, ControlType, Loops
    <3> HIDE DEF x
    <3>5. Becomes(c, x)
      BY <3>3, <3>4, ControlPut, Zenon
    <3>6. c \in 0..MaxControls /\ c # 0
      BY LifecycleConstants DEF Table!Controls
    <3>7. TableTypes' /\ TableNames'
      BY <3>1, <3>2, <3>4, <3>5, <3>6, Zenon DEF TableTypes, TableNames, Becomes, Table!Used
    <3>8. Table!OpenControlsAreKnown' /\ Table!CloseClosesAll'
      <4> SUFFICES ASSUME NEW d \in Table!Controls, Table!Used(d)'
                   PROVE  /\ ~control'[d].done => d = entry' \/ (reaper'.pc = "close" /\ d = reaper'.c)
                          /\ owner' = "end" /\ ~control'[d].late =>
                                control'[d].done \/ (reaper'.pc = "close" /\ d = reaper'.c)
        BY Zenon DEF Table!OpenControlsAreKnown, Table!CloseClosesAll
      <4>1. CASE d = c
        BY <3>1, <3>2, <3>4, <3>5, <4>1, Zenon DEF TableNames, Becomes
      <4>2. CASE d # c
        <5>1. control'[d] = control[d] /\ Table!Used(d) /\ d # entry
          BY <2>2, <3>5, <4>2, LifecycleConstants DEF Becomes, Table!Used, Table!Controls
        <5> QED
          BY <3>2, <5>1, Zenon DEF Table!OpenControlsAreKnown, Table!CloseClosesAll
      <4> QED
        BY <4>1, <4>2, Zenon
    <3> QED
      BY <3>7, <3>8, Zenon
  <2> QED
    BY <2>1, <2>2, Zenon
<1>3. ASSUME NEW c \in Table!Controls, Table!Dials(c) \/ Table!Stops(c) \/ Table!Ages(c)
      PROVE  TableInv'
  <2>1. PICK loop \in {"running", "stopped", "idle"} : control' = [control EXCEPT ![c].loop = loop]
    BY <1>3, Zenon DEF Table!Dials, Table!Stops, Table!Ages
  <2>2. Table!Used(c) /\ UNCHANGED <<entry, closed, reaper, owner>>
    BY <1>3, Zenon DEF Table!Dials, Table!Stops, Table!Ages, Table!Used
  <2> DEFINE x == [control[c] EXCEPT !.loop = loop]
  <2>3. x \in ControlType /\ x.loop = loop /\ x.done = control[c].done /\ x.late = control[c].late
    BY Zenon DEF TableTypes, ControlType, Loops
  <2>4. control' = [control EXCEPT ![c] = x] /\ loop # "none"
    BY <2>1, Zenon
  <2> HIDE DEF x
  <2> QED
    BY <2>2, <2>3, <2>4, ControlStep, Zenon
<1>4. ASSUME NEW c \in Table!Controls, Table!Blocked(c) PROVE TableInv'
  <2>1. /\ Table!Used(c) /\ UNCHANGED <<entry, closed, reaper, owner>>
        /\ control' = [control EXCEPT ![c].done = TRUE]
    BY <1>4, Zenon DEF Table!Blocked
  <2> DEFINE x == [control[c] EXCEPT !.done = TRUE]
  <2>2. x \in ControlType /\ x.loop = control[c].loop /\ x.done = TRUE /\ x.late = control[c].late
    BY Zenon DEF TableTypes, ControlType
  <2>3. control' = [control EXCEPT ![c] = x]
    BY <2>1, Zenon
  <2> HIDE DEF x
  <2> QED
    BY <2>1, <2>2, <2>3, ControlStep, Zenon DEF Table!Used
<1>5. CASE Table!Tick
  <2>1. /\ reaper.pc = "wait" /\ reaper' = [reaper EXCEPT !.pc = "range"]
        /\ UNCHANGED <<entry, closed, control, owner>>
    BY <1>5, Zenon DEF Table!Tick
  <2>2. /\ reaper' \in [pc : {"wait", "range", "delete", "close"}, c : 0..MaxControls]
        /\ reaper'.pc = "range"
    BY <2>1, Zenon DEF TableTypes
  <2> QED
    BY <2>1, <2>2, Zenon DEF TableTypes, TableNames, Table!Used,
       Table!OpenControlsAreKnown, Table!CloseClosesAll
<1>6. CASE Table!Observe
  <2>1. /\ reaper.pc = "range" /\ UNCHANGED <<entry, closed, control, owner>>
        /\ \/ /\ entry \in Table!Controls /\ Table!Used(entry)
              /\ reaper' = [pc |-> "delete", c |-> entry]
           \/ reaper' = [pc |-> "wait", c |-> 0]
    BY <1>6, Zenon DEF Table!Observe, Table!Observing, Table!Idle, Table!Used
  <2>2. 0 \in 0..MaxControls /\ entry \in 0..MaxControls
    BY LifecycleConstants DEF TableTypes
  <2>3. /\ reaper' \in [pc : {"wait", "range", "delete", "close"}, c : 0..MaxControls]
        /\ reaper'.pc \in {"wait", "delete"}
        /\ reaper'.pc = "delete" => reaper'.c \in Table!Controls /\ Table!Used(reaper'.c)
    <3>1. CASE /\ entry \in Table!Controls /\ Table!Used(entry)
               /\ reaper' = [pc |-> "delete", c |-> entry]
      BY <2>2, <3>1, Zenon
    <3>2. CASE reaper' = [pc |-> "wait", c |-> 0]
      BY <2>2, <3>2, Zenon
    <3> QED
      BY <2>1, <3>1, <3>2, Zenon
  <2>4. TableTypes' /\ TableNames'
    BY <2>1, <2>3, Zenon DEF TableTypes, TableNames, Table!Used
  <2>5. reaper.pc # "close" /\ reaper'.pc # "close"
    BY <2>1, <2>3, Zenon
  <2> QED
    BY <2>1, <2>4, <2>5, Zenon DEF Table!Used, Table!OpenControlsAreKnown, Table!CloseClosesAll
<1>7. CASE Table!CompareAndDelete
  <2>1. reaper.pc = "delete" /\ UNCHANGED <<closed, control, owner>>
    BY <1>7, Zenon DEF Table!CompareAndDelete
  <2>2. 0 \in 0..MaxControls
    BY LifecycleConstants
  <2>3. CASE entry = reaper.c
    <3>1. entry' = 0 /\ reaper' = [reaper EXCEPT !.pc = "close"]
      BY <1>7, <2>3, Zenon DEF Table!CompareAndDelete
    <3>2. /\ reaper' \in [pc : {"wait", "range", "delete", "close"}, c : 0..MaxControls]
          /\ reaper'.pc = "close" /\ reaper'.c = reaper.c
      BY <3>1, Zenon DEF TableTypes
    <3> QED
      BY <2>1, <2>2, <2>3, <3>1, <3>2, Zenon DEF TableTypes, TableNames, Table!Used,
         Table!OpenControlsAreKnown, Table!CloseClosesAll
  <2>4. CASE entry # reaper.c
    <3>1. entry' = entry /\ reaper' = [pc |-> "wait", c |-> 0]
      BY <1>7, <2>4, Zenon DEF Table!CompareAndDelete
    <3>2. /\ reaper' \in [pc : {"wait", "range", "delete", "close"}, c : 0..MaxControls]
          /\ reaper'.pc = "wait"
      BY <2>2, <3>1, Zenon
    <3> QED
      BY <2>1, <3>1, <3>2, Zenon DEF TableTypes, TableNames, Table!Used,
         Table!OpenControlsAreKnown, Table!CloseClosesAll
  <2> QED
    BY <2>3, <2>4, Zenon
<1>8. CASE Table!CloseIdle
  <2>1. /\ reaper.pc = "close" /\ UNCHANGED <<entry, closed, owner>>
        /\ control' = [control EXCEPT ![reaper.c].done = TRUE]
        /\ reaper' = [pc |-> "wait", c |-> 0]
    BY <1>8, Zenon DEF Table!CloseIdle, Table!Discard
  <2>2. PICK c \in Table!Controls : c = reaper.c /\ Table!Used(c)
    BY <2>1, Zenon DEF TableNames
  <2> DEFINE x == [control[c] EXCEPT !.done = TRUE]
  <2>3. x \in ControlType /\ x.loop = control[c].loop /\ x.done = TRUE /\ x.late = control[c].late
    BY Zenon DEF TableTypes, ControlType
  <2>4. control' = [control EXCEPT ![c] = x]
    BY <2>1, <2>2, Zenon
  <2> HIDE DEF x
  <2>5. Becomes(c, x)
    BY <2>3, <2>4, ControlPut, Zenon
  <2>6. /\ reaper' \in [pc : {"wait", "range", "delete", "close"}, c : 0..MaxControls]
        /\ reaper'.pc = "wait"
    BY <2>1, LifecycleConstants
  <2>7. \A d \in Table!Controls : /\ Table!Used(d)' = Table!Used(d)
                                  /\ control'[d].late = control[d].late
                                  /\ control'[d].done <=> control[d].done \/ d = c
    BY <2>3, <2>5, Zenon DEF Becomes, Table!Used
  <2>8. entry # 0 => entry \in Table!Controls
    BY EntryIsControl, Zenon
  <2>9. TableTypes' /\ TableNames'
    BY <2>1, <2>5, <2>6, <2>7, <2>8, Zenon DEF TableTypes, TableNames, Becomes, Table!Used
  <2>10. Table!OpenControlsAreKnown' /\ Table!CloseClosesAll'
    BY <2>1, <2>2, <2>7, Zenon DEF Table!OpenControlsAreKnown, Table!CloseClosesAll
  <2> QED
    BY <2>9, <2>10, Zenon
<1>9. CASE Table!CloseTable
  <2>1. owner' = "range" /\ closed' = TRUE /\ UNCHANGED <<entry, control, reaper>>
    BY <1>9, Zenon DEF Table!CloseTable
  <2> QED
    BY <2>1, Zenon DEF TableTypes, TableNames, Table!Used,
       Table!OpenControlsAreKnown, Table!CloseClosesAll
<1>10. CASE Table!CloseAll
  <2>1. /\ owner = "range" /\ owner' = "end" /\ UNCHANGED <<entry, closed, reaper>>
        /\ control' = [c \in Table!Controls |->
              IF c \in {entry} \cap Table!Controls THEN [control[c] EXCEPT !.done = TRUE] ELSE control[c]]
    BY <1>10, Zenon DEF Table!CloseAll, Table!Closing
  <2>2. ASSUME NEW d \in Table!Controls
        PROVE  /\ control'[d] \in ControlType /\ control'[d].loop = control[d].loop
               /\ control'[d].late = control[d].late /\ (control'[d].done <=> control[d].done \/ d = entry)
    <3>1. CASE d = entry
      <4>1. control'[d] = [control[d] EXCEPT !.done = TRUE] /\ control[d] \in ControlType
        BY <2>1, <3>1, Zenon DEF TableTypes
      <4> QED
        BY <3>1, <4>1, Zenon DEF ControlType
    <3>2. CASE d # entry
      BY <2>1, <3>2, Zenon DEF TableTypes
    <3> QED
      BY <3>1, <3>2, Zenon
  <2>3. control' \in [Table!Controls -> ControlType]
    BY <2>1, <2>2, Zenon
  <2>4. entry # 0 => entry \in Table!Controls
    BY EntryIsControl, Zenon
  <2>5. TableTypes'
    BY <2>1, <2>2, <2>3, Zenon DEF TableTypes
  <2>6. TableNames'
    <3>1. \A d \in Table!Controls : Table!Used(d) => control'[d].loop # "none"
      BY <2>2, Zenon DEF Table!Used
    <3>2. (entry # 0 => Table!Used(entry))'
      BY <2>1, <2>4, <3>1, Zenon DEF TableNames, Table!Used
    <3>3. (reaper.pc \in {"delete", "close"} => reaper.c \in Table!Controls /\ Table!Used(reaper.c))'
      BY <2>1, <3>1, Zenon DEF TableNames, Table!Used
    <3> QED
      BY <2>1, <3>2, <3>3, Zenon DEF TableNames
  <2>7. Table!OpenControlsAreKnown' /\ Table!CloseClosesAll'
    BY <2>1, <2>2, Zenon DEF Table!OpenControlsAreKnown, Table!CloseClosesAll, Table!Used
  <2> QED
    BY <2>5, <2>6, <2>7, Zenon
<1>11. CASE UNCHANGED table
  BY <1>11, Zenon DEF table, TableTypes, TableNames, Table!Used,
     Table!OpenControlsAreKnown, Table!CloseClosesAll
<1> QED
  BY <1>1, <1>2, <1>3, <1>4, <1>5, <1>6, <1>7, <1>8, <1>9, <1>10, <1>11, Zenon
  DEF Table!Next, Table!WriterStep, Table!ReaperStep

\* Whatever handlers, the ticker and Close do at the same time, an open control
\* is in the table or about to be closed by the ticker, and when Close has
\* returned every control that was made before it began is closed, or about to
\* be by the ticker (Table.Write, NewTable and Table.Close, net/nat/table.go).
THEOREM ControlsAreKnown == MCSpec => []ControlsKnown
<1> DEFINE Inv == part = "table" => TableInv
<1>1. MCInit => Inv
  BY TableInitially, Zenon DEF MCInit
<1>2. Inv /\ [MCNext]_everything => Inv'
  BY PartsApart, TableInductive, Zenon
<1>3. Inv => ControlsKnown
  BY Zenon DEF ControlsKnown, TableInv
<1> QED
  BY <1>1, <1>2, <1>3, PTL DEF MCSpec

-----------------------------------------------------------------------------
\* The nil mutex and the nil value belong to nobody.
NoneIsNoCaller == None \notin Callers

MapInside == {"inner", "create", "store", "unlock"}  \* holding the mutex
MapBound == MapInside \cup {"lock", "done"}             \* using the mutex
MapPlaces == MapBound \cup {"load", "read", "make", "end"}
MapValue == Callers \cup {None}
CallType == [pc : MapPlaces, mu : MapValue, v : MapValue]

MapTypes ==
    /\ data \in MapValue /\ store \in MapValue /\ holder \in [Callers -> MapValue]
    /\ call \in [Callers -> CallType]

\* Who is inside holds its mutex.
MapLocked ==
    \A c \in Callers : /\ call[c].pc \in MapBound => call[c].mu \in Callers
                       /\ call[c].pc \in MapInside => holder[call[c].mu] = c

\* The mutex in the map is that of a maker that still uses it, and every maker
\* that still uses its own finds it in the map.
MapMade ==
    /\ store # None => call[store].mu = store /\ call[store].pc \in MapBound
    /\ \A c \in Callers : call[c].mu = c /\ call[c].pc \in MapBound => store = c

\* Before there is an entry, everybody on the way to f has the mutex in the
\* map and nobody has come back; afterwards nobody is on the way to f.
MapSingle ==
    ~upset =>
        /\ data = None =>
             /\ \A c \in Callers : call[c].pc \in {"lock", "inner", "create", "store"} =>
                    store # None /\ call[c].mu = store
             /\ \A c \in Callers : call[c].pc \notin {"unlock", "done", "end"}
             /\ created = {c \in Callers : call[c].pc = "store"}
        /\ data # None =>
             /\ created = {data}
             /\ \A c \in Callers : call[c].pc \notin {"create", "store"}

MapStored ==
    /\ data # None => data \in stored
    /\ Map!ReturnsStored

MapInv == MapTypes /\ MapLocked /\ MapMade /\ MapSingle /\ MapStored

LEMMA MapInitially == NoneIsNoCaller /\ Map!Init => MapInv
  BY DEF NoneIsNoCaller, Map!Init, MapInv, MapTypes, MapLocked, MapMade, MapSingle, MapStored,
     Map!ReturnsStored, MapValue, CallType, MapPlaces, MapBound, MapInside

\* Two callers inside with the same mutex are one.
LEMMA Exclusion ==
    ASSUME MapLocked, NEW c \in Callers, NEW d \in Callers,
           call[c].pc \in MapInside, call[d].pc \in MapInside, call[c].mu = call[d].mu
    PROVE  c = d
  BY Zenon DEF MapLocked

\* What a step of c does to the calls.
Moves(c, to, mu, v) ==
    /\ call'[c].pc = to /\ call'[c].mu = mu /\ call'[c].v = v
    /\ \A d \in Callers \ {c} : call'[d] = call[d]

LEMMA Moved ==
    ASSUME MapTypes, NEW c \in Callers, NEW to \in MapPlaces,
           call' = [call EXCEPT ![c].pc = to]
    PROVE  Moves(c, to, call[c].mu, call[c].v) /\ call' \in [Callers -> CallType]
  BY Zenon DEF MapTypes, CallType, Moves

LEMMA MovedFinding ==
    ASSUME MapTypes, NEW c \in Callers, NEW to \in MapPlaces, NEW v \in MapValue,
           call' = [call EXCEPT ![c].pc = to, ![c].v = v]
    PROVE  Moves(c, to, call[c].mu, v) /\ call' \in [Callers -> CallType]
<1>1. call' = [call EXCEPT ![c] = [call[c] EXCEPT !.pc = to, !.v = v]]
  BY Zenon DEF MapTypes
<1>2. call[c] \in CallType /\ [call[c] EXCEPT !.pc = to, !.v = v] \in CallType
  BY Zenon DEF MapTypes, CallType
<1>3. call' \in [Callers -> CallType] /\ call'[c] = [call[c] EXCEPT !.pc = to, !.v = v]
  BY <1>1, <1>2, Zenon DEF MapTypes
<1> QED
  BY <1>1, <1>2, <1>3, Zenon DEF MapTypes, CallType, Moves

LEMMA MovedMeeting ==
    ASSUME MapTypes, NEW c \in Callers, NEW to \in MapPlaces, NEW mu \in MapValue,
           call' = [call EXCEPT ![c].pc = to, ![c].mu = mu]
    PROVE  Moves(c, to, mu, call[c].v) /\ call' \in [Callers -> CallType]
<1>1. call' = [call EXCEPT ![c] = [call[c] EXCEPT !.pc = to, !.mu = mu]]
  BY Zenon DEF MapTypes
<1>2. call[c] \in CallType /\ [call[c] EXCEPT !.pc = to, !.mu = mu] \in CallType
  BY Zenon DEF MapTypes, CallType
<1>3. call' \in [Callers -> CallType] /\ call'[c] = [call[c] EXCEPT !.pc = to, !.mu = mu]
  BY <1>1, <1>2, Zenon DEF MapTypes
<1> QED
  BY <1>1, <1>2, <1>3, Zenon DEF MapTypes, CallType, Moves

LEMMA MapInductive == NoneIsNoCaller /\ MapInv /\ [Map!Next]_map => MapInv'
<1> SUFFICES ASSUME NoneIsNoCaller, MapInv, [Map!Next]_map PROVE MapInv'
  BY Zenon
<1> USE DEF MapInv, NoneIsNoCaller
<1>1. ASSUME NEW c \in Callers, Map!Load(c) PROVE MapInv'
  <2>1. /\ call[c].pc = "load"
        /\ Moves(c, IF data # None THEN "end" ELSE "read", call[c].mu, data)
        /\ call' \in [Callers -> CallType]
    <3>1. /\ call[c].pc = "load"
          /\ call' = [call EXCEPT ![c].pc = IF data # None THEN "end" ELSE "read",
                                  ![c].v = data]
      BY <1>1, Zenon DEF Map!Load, Map!Lookup
    <3>2. (IF data # None THEN "end" ELSE "read") \in MapPlaces /\ data \in MapValue
      BY Zenon DEF MapPlaces, MapTypes
    <3> QED
      BY <3>1, <3>2, MovedFinding, Zenon
  <2>2. UNCHANGED <<data, store, holder, created, stored, upset>>
    BY <1>1, Zenon DEF Map!Load, Map!Lookup, Map!history
  <2>3. MapTypes' /\ MapLocked' /\ MapStored'
    BY <2>1, <2>2, Zenon DEF MapTypes, MapLocked, MapStored, Map!ReturnsStored, Moves, MapBound, MapInside
  <2>4. MapMade'
    BY <2>1, <2>2, Zenon DEF MapTypes, MapMade, Moves, MapBound, MapInside, MapValue
  <2>5. MapSingle'
    BY <2>1, <2>2 DEF MapTypes, MapSingle, Moves
  <2> QED
    BY <2>3, <2>4, <2>5, Zenon
<1>2. ASSUME NEW c \in Callers, Map!ReadMu(c) PROVE MapInv'
  <2>1. /\ call[c].pc = "read"
        /\ Moves(c, IF store # None THEN "lock" ELSE "make", store, call[c].v)
        /\ call' \in [Callers -> CallType]
    <3>1. /\ call[c].pc = "read"
          /\ call' = [call EXCEPT ![c].pc = IF store # None THEN "lock" ELSE "make",
                                  ![c].mu = store]
      BY <1>2, Zenon DEF Map!ReadMu
    <3>2. (IF store # None THEN "lock" ELSE "make") \in MapPlaces /\ store \in MapValue
      BY Zenon DEF MapPlaces, MapBound, MapTypes
    <3> QED
      BY <3>1, <3>2, MovedMeeting, Zenon
  <2>2. UNCHANGED <<data, store, holder, created, stored, upset>>
    BY <1>2, Zenon DEF Map!ReadMu, Map!history
  <2>3. store # c
    BY <2>1, Zenon DEF MapMade, MapBound, MapInside
  <2>4. MapTypes' /\ MapLocked' /\ MapStored'
    BY <2>1, <2>2, Zenon
    DEF MapTypes, MapLocked, MapStored, Map!ReturnsStored, Moves, MapBound, MapInside, MapValue
  <2>5. MapMade'
    BY <2>1, <2>2, <2>3, Zenon DEF MapTypes, MapMade, Moves, MapBound, MapInside, MapValue
  <2>6. MapSingle'
    BY <2>1, <2>2 DEF MapTypes, MapSingle, Moves
  <2> QED
    BY <2>4, <2>5, <2>6
<1>3. ASSUME NEW c \in Callers, Map!MakeMu(c) PROVE MapInv'
  <2>1. /\ call[c].pc = "make" /\ store' = IF store = None THEN c ELSE store
        /\ Moves(c, "lock", store', call[c].v)
        /\ call' \in [Callers -> CallType]
    <3>1. /\ call[c].pc = "make" /\ store' = IF store = None THEN c ELSE store
          /\ call' = [call EXCEPT ![c].pc = "lock", ![c].mu = store']
      BY <1>3, Zenon DEF Map!MakeMu
    <3>2. "lock" \in MapPlaces /\ store' \in MapValue
      BY <3>1, Zenon DEF MapPlaces, MapBound, MapTypes, MapValue
    <3> QED
      BY <3>1, <3>2, MovedMeeting, Zenon
  <2>2. UNCHANGED <<data, holder, created, stored, upset>>
    BY <1>3, Zenon DEF Map!MakeMu, Map!history
  <2>3. store # c
    BY <2>1, Zenon DEF MapMade, MapBound, MapInside
  <2>4. MapTypes' /\ MapLocked' /\ MapStored'
    BY <2>1, <2>2 DEF MapTypes, MapLocked, MapStored, Map!ReturnsStored, Moves, MapBound, MapInside, MapValue
  <2>5. MapMade'
    BY <2>1, <2>2, <2>3 DEF MapTypes, MapMade, Moves, MapBound, MapInside, MapValue
  <2>6. MapSingle'
    BY <2>1, <2>2 DEF MapTypes, MapSingle, Moves, MapValue
  <2> QED
    BY <2>4, <2>5, <2>6
<1>4. ASSUME NEW c \in Callers, Map!Lock(c) PROVE MapInv'
  <2>1. /\ call[c].pc = "lock" /\ Moves(c, "inner", call[c].mu, call[c].v)
        /\ call' \in [Callers -> CallType]
    BY <1>4 DEF Map!Lock, Map!Move, MapTypes, CallType, Moves, MapPlaces, MapBound, MapInside
  <2>2. UNCHANGED <<data, store, created, stored, upset>>
    BY <1>4, Zenon DEF Map!Lock, Map!history
  <2>3. /\ call[c].mu \in Callers /\ holder[call[c].mu] = None
        /\ holder' = [holder EXCEPT ![call[c].mu] = c]
    BY <1>4, <2>1, Zenon DEF Map!Lock, MapLocked, MapBound
  <2>4. MapTypes' /\ MapStored'
    BY <2>1, <2>2, <2>3, Zenon DEF MapTypes, MapStored, Map!ReturnsStored, Moves, MapValue
  <2>5. MapLocked'
    BY <2>1, <2>2, <2>3 DEF MapTypes, MapLocked, Moves, MapBound, MapInside
  <2>6. MapMade'
    BY <2>1, <2>2 DEF MapTypes, MapMade, Moves, MapBound, MapInside, MapValue
  <2>7. MapSingle'
    BY <2>1, <2>2 DEF MapTypes, MapSingle, Moves
  <2> QED
    BY <2>4, <2>5, <2>6, <2>7, Zenon
<1>5. ASSUME NEW c \in Callers, Map!Inner(c) PROVE MapInv'
  <2>1. /\ call[c].pc = "inner"
        /\ Moves(c, IF data # None THEN "unlock" ELSE "create", call[c].mu, data)
        /\ call' \in [Callers -> CallType]
    <3>1. /\ call[c].pc = "inner"
          /\ call' = [call EXCEPT ![c].pc = IF data # None THEN "unlock" ELSE "create",
                                  ![c].v = data]
      BY <1>5, Zenon DEF Map!Inner, Map!Lookup
    <3>2. (IF data # None THEN "unlock" ELSE "create") \in MapPlaces /\ data \in MapValue
      BY Zenon DEF MapPlaces, MapBound, MapInside, MapTypes
    <3> QED
      BY <3>1, <3>2, MovedFinding, Zenon
  <2>2. UNCHANGED <<data, store, holder, created, stored, upset>>
    BY <1>5, Zenon DEF Map!Inner, Map!Lookup, Map!history
  <2>3. MapTypes' /\ MapLocked' /\ MapStored'
    BY <2>1, <2>2 DEF MapTypes, MapLocked, MapStored, Map!ReturnsStored, Moves, MapBound, MapInside
  <2>4. MapMade'
    BY <2>1, <2>2 DEF MapTypes, MapMade, Moves, MapBound, MapInside, MapValue
  <2>5. MapSingle'
    BY <2>1, <2>2 DEF MapTypes, MapSingle, Moves
  <2> QED
    BY <2>3, <2>4, <2>5
<1>6. ASSUME NEW c \in Callers, Map!Create(c) PROVE MapInv'
  <2>1. /\ call[c].pc = "create"
        /\ call' \in [Callers -> CallType]
        /\ \/ /\ Moves(c, "store", call[c].mu, call[c].v)
              /\ created' = created \cup {c} /\ upset' = upset
           \/ /\ Moves(c, "unlock", call[c].mu, call[c].v)
              /\ upset'
    BY <1>6 DEF Map!Create, Map!Creating, Map!Move, MapTypes, CallType, Moves, MapPlaces, MapBound, MapInside
  <2>2. UNCHANGED <<data, store, holder, stored>>
    BY <1>6, Zenon DEF Map!Create, Map!Creating
  <2>3. MapTypes' /\ MapLocked' /\ MapStored'
    BY <2>1, <2>2 DEF MapTypes, MapLocked, MapStored, Map!ReturnsStored, Moves, MapBound, MapInside
  <2>4. MapMade'
    BY <2>1, <2>2 DEF MapTypes, MapMade, Moves, MapBound, MapInside, MapValue
  <2>5. MapSingle'
    BY <2>1, <2>2 DEF MapTypes, MapSingle, Moves
  <2> QED
    BY <2>3, <2>4, <2>5
<1>7. ASSUME NEW c \in Callers, Map!Store(c) PROVE MapInv'
  <2>1. /\ call[c].pc = "store"
        /\ data' = IF data = None THEN c ELSE data
        /\ stored' = stored \cup {data'}
        /\ Moves(c, "unlock", call[c].mu, data')
        /\ call' \in [Callers -> CallType]
    <3>1. /\ call[c].pc = "store"
          /\ data' = IF data = None THEN c ELSE data
          /\ stored' = stored \cup {data'}
          /\ call' = [call EXCEPT ![c].pc = "unlock", ![c].v = data']
      BY <1>7, Zenon DEF Map!Store, Map!Storing
    <3>2. "unlock" \in MapPlaces /\ data' \in MapValue
      BY <3>1, Zenon DEF MapPlaces, MapBound, MapInside, MapTypes, MapValue
    <3> QED
      BY <3>1, <3>2, MovedFinding, Zenon
  <2>2. UNCHANGED <<store, holder, created, upset>>
    BY <1>7, Zenon DEF Map!Store, Map!Storing
  <2>3. MapTypes' /\ MapLocked' /\ MapStored'
    BY <2>1, <2>2 DEF MapTypes, MapLocked, MapStored, Map!ReturnsStored, Moves, MapBound, MapInside, MapValue
  <2>4. MapMade'
    BY <2>1, <2>2 DEF MapTypes, MapMade, Moves, MapBound, MapInside, MapValue
  <2>5. ASSUME ~upset, NEW d \in Callers, call[d].pc \in {"create", "store"}
        PROVE  d = c /\ data = None
    BY <2>1, <2>5, Exclusion DEF MapSingle, MapInside
  <2>6. ASSUME ~upset PROVE created = {c}
    BY <2>1, <2>5, <2>6, Zenon DEF MapSingle
  <2>7. MapSingle'
    BY <2>1, <2>2, <2>5, <2>6, Zenon DEF MapTypes, MapSingle, Moves
  <2> QED
    BY <2>3, <2>4, <2>7
<1>8. ASSUME NEW c \in Callers, Map!Unlock(c) PROVE MapInv'
  <2>1. /\ call[c].pc = "unlock" /\ Moves(c, "done", call[c].mu, call[c].v)
        /\ call' \in [Callers -> CallType]
    BY <1>8 DEF Map!Unlock, Map!Move, MapTypes, CallType, Moves, MapPlaces, MapBound, MapInside
  <2>2. UNCHANGED <<data, store, created, stored, upset>>
    BY <1>8, Zenon DEF Map!Unlock, Map!history
  <2>3. /\ call[c].mu \in Callers /\ holder[call[c].mu] = c
        /\ holder' = [holder EXCEPT ![call[c].mu] = None]
    BY <1>8, <2>1, Zenon DEF Map!Unlock, MapLocked, MapBound, MapInside
  <2>4. MapTypes' /\ MapStored'
    BY <2>1, <2>2, <2>3, Zenon DEF MapTypes, MapStored, Map!ReturnsStored, Moves, MapValue
  <2>5. MapLocked'
    BY <2>1, <2>2, <2>3 DEF MapTypes, MapLocked, Moves, MapBound, MapInside
  <2>6. MapMade'
    BY <2>1, <2>2 DEF MapTypes, MapMade, Moves, MapBound, MapInside, MapValue
  <2>7. MapSingle'
    BY <2>1, <2>2, Zenon DEF MapTypes, MapSingle, Moves
  <2> QED
    BY <2>4, <2>5, <2>6, <2>7
<1>9. ASSUME NEW c \in Callers, Map!Done(c) PROVE MapInv'
  <2>1. /\ call[c].pc = "done" /\ Moves(c, "end", call[c].mu, call[c].v)
        /\ store' = IF call[c].mu = c THEN None ELSE store
        /\ call' \in [Callers -> CallType]
    BY <1>9, Zenon DEF Map!Done, Map!Move, MapTypes, CallType, Moves, MapPlaces
  <2>2. UNCHANGED <<data, holder, created, stored, upset>>
    BY <1>9, Zenon DEF Map!Done, Map!history
  <2>3. MapTypes' /\ MapLocked' /\ MapStored'
    BY <2>1, <2>2, Zenon
    DEF MapTypes, MapLocked, MapStored, Map!ReturnsStored, Moves, MapBound, MapInside, MapValue
  <2>4. MapMade'
    BY <2>1, <2>2, Zenon DEF MapTypes, MapMade, Moves, MapBound, MapInside, MapValue
  <2>5. MapSingle'
    BY <2>1, <2>2, Zenon DEF MapTypes, MapSingle, Moves
  <2> QED
    BY <2>3, <2>4, <2>5
<1>10. CASE Map!Delete
  BY <1>10, Zenon
  DEF Map!Delete, MapTypes, MapLocked, MapMade, MapSingle, MapStored, Map!ReturnsStored,
      MapValue
<1>11. CASE UNCHANGED map
  BY <1>11, Zenon DEF map, MapTypes, MapLocked, MapMade, MapSingle, MapStored, Map!ReturnsStored
<1> QED
  BY <1>1, <1>2, <1>3, <1>4, <1>5, <1>6, <1>7, <1>8, <1>9, <1>10, <1>11, Zenon DEF Map!Next, Map!Step

LEMMA MapImplied == MapInv => Map!MadeOnce
<1> SUFFICES ASSUME MapInv PROVE Map!MadeOnce
  BY Zenon
<1> USE DEF MapInv
<1>1. Map!OneCreation
  <2> SUFFICES ASSUME ~upset, NEW c \in created, NEW d \in created PROVE c = d
    BY Zenon DEF Map!OneCreation
  <2>1. CASE data # None
    BY <2>1 DEF MapSingle
  <2>2. CASE data = None
    <3>1. /\ c \in Callers /\ call[c].pc = "store" /\ call[c].mu = store
          /\ d \in Callers /\ call[d].pc = "store" /\ call[d].mu = store
      BY <2>2, Zenon DEF MapSingle
    <3> QED
      BY <3>1, Exclusion, Zenon DEF MapInside
  <2> QED
    BY <2>1, <2>2, Zenon
<1>2. Map!MutexesFreed
  BY Zenon DEF Map!MutexesFreed, MapMade, MapTypes, MapValue, MapBound, MapInside
<1> QED
  BY <1>1, <1>2, Zenon DEF Map!MadeOnce, MapStored

\* However many goroutines miss an entry together, f makes its value once, all
\* of them get a value that was in the map, and the mutex they met on is gone
\* when they are (LoadOrCreate and single).
THEOREM LoadOrCreateOnce == MCSpec => []MadeOnce
<1> DEFINE Inv == part = "map" => MapInv
<1>1. MCInit => Inv
  BY MapInitially, LifecycleConstants, Zenon DEF MCInit, NoneIsNoCaller
<1>2. Inv /\ [MCNext]_everything => Inv'
  BY PartsApart, MapInductive, LifecycleConstants, Zenon DEF NoneIsNoCaller
<1>3. Inv => MadeOnce
  BY MapImplied, Zenon DEF MadeOnce
<1> QED
  BY <1>1, <1>2, <1>3, PTL DEF MCSpec

-----------------------------------------------------------------------------
(* The pipe.  The mutex keeps the writers apart until the one that holds it  *)
(* is through or has failed, so the bytes of a Write follow each other; and  *)
(* a deadline's channel is only replaced when it is closed.                  *)

Channels == {"current", "closed", "open"}
WriteCall == [pc : {"idle", "lock", "select", "ack", "end"}, chan : Channels, n : Nat]
ReadCall == [pc : {"idle", "select", "ack", "end"}, chan : Channels, n : Nat, room : Nat]
PipeTypes ==
    /\ writer \in [Writers -> WriteCall] /\ reader \in [Readers -> ReadCall]
    /\ got \in Seq(Writers \X (Nat \ {0})) /\ wrMu \in Writers \cup {None}

\* Nobody waits on an open channel that the deadline no longer has.
NoneOpen ==
    /\ \A r \in Readers : reader[r].chan # "open"
    /\ \A w \in Writers : writer[w].chan # "open"

\* Who is past the mutex holds it, and who is before it has written nothing.
Holding ==
    \A w \in Writers : /\ writer[w].pc \in {"select", "ack"} => wrMu = w
                       /\ writer[w].pc \in {"idle", "lock"} => writer[w].n = 0
                       /\ writer[w].n <= WriteLength

\* A writer waits for the answer of one reader.
Meeting ==
    /\ \A r \in Readers : reader[r].pc = "ack" => \E w \in Writers : writer[w].pc = "ack"
    /\ \A r, s \in Readers : reader[r].pc = "ack" /\ reader[s].pc = "ack" => r = s
    /\ \A w \in Writers : writer[w].pc = "ack" => \E r \in Readers : reader[r].pc = "ack"

\* The bytes of a Write that were read, none of them twice.
Taken(w) == Pip!Taken(w)
Once == \A i, j \in DOMAIN got : got[i] = got[j] => i = j
Counted ==
    \A w \in Writers :
        IF writer[w].pc = "ack"
        THEN \A r \in Readers : reader[r].pc = "ack" =>
                /\ Taken(w) = 1..(writer[w].n + reader[r].n)
                /\ writer[w].n + reader[r].n <= WriteLength
        ELSE Taken(w) = 1..writer[w].n

\* The last byte is the last one of its Write so far, and belongs to the Write
\* that is under way as soon as that has written anything.
Last == got[Len(got)]
InTurn ==
    /\ got # <<>> => Taken(Last[1]) = 1..Last[2]
    /\ \A w \in Writers : writer[w].pc # "end" /\ Taken(w) # {} =>
          got # <<>> /\ Last[1] = w
InOrder ==
    \A i \in 2..Len(got) :
        \/ got[i] = <<got[i - 1][1], got[i - 1][2] + 1>>
        \/ got[i][2] = 1 /\ writer[got[i - 1][1]].pc = "end"

PipeInv == PipeTypes /\ NoneOpen /\ Holding /\ Meeting /\ Counted /\ Once /\ InTurn /\ InOrder

LEMMA PipeInitially == Pip!Init => PipeInv
<1> SUFFICES ASSUME Pip!Init PROVE PipeInv
  OBVIOUS
<1>1. /\ reader = [r \in Readers |-> [Pip!Ended EXCEPT !.pc = "idle"]] /\ wrMu = None /\ got = <<>>
      /\ writer = [w \in Writers |-> [pc |-> "idle", chan |-> "current", n |-> 0]]
  BY Zenon DEF Pip!Init
<1>2. [Pip!Ended EXCEPT !.pc = "idle"] = [pc |-> "idle", chan |-> "current", n |-> 0, room |-> 0]
  BY DEF Pip!Ended
<1>3. \A r \in Readers : reader[r] \in ReadCall /\ reader[r].pc = "idle" /\ reader[r].chan = "current"
  BY <1>1, <1>2 DEF ReadCall, Channels
<1>4. \A w \in Writers : /\ writer[w] \in WriteCall /\ writer[w].pc = "idle"
                         /\ writer[w].chan = "current" /\ writer[w].n = 0
  BY <1>1 DEF WriteCall, Channels
<1>5. PipeTypes /\ NoneOpen
  <2>1. <<>> \in Seq(Writers \X (Nat \ {0}))
    OBVIOUS
  <2> QED
    BY <1>1, <1>3, <1>4, <2>1, Zenon DEF PipeTypes, NoneOpen
<1>6. Holding /\ Meeting
  BY <1>3, <1>4, LifecycleConstants DEF Holding, Meeting
<1>7. DOMAIN got = {} /\ \A w : Taken(w) = {}
  <2>1. DOMAIN got = {}
    BY <1>1
  <2> QED
    BY <2>1, Zenon DEF Taken, Pip!Taken
<1>8. Counted /\ Once /\ InTurn
  <2>1. 1..0 = {}
    OBVIOUS
  <2> QED
    BY <1>1, <1>4, <1>7, <2>1, Zenon DEF Counted, Once, InTurn
<1>9. InOrder
  BY <1>1 DEF InOrder
<1> QED
  BY <1>5, <1>6, <1>8, <1>9, Zenon DEF PipeInv

\* A call that moves on.
LEMMA WriterPut ==
    ASSUME PipeTypes, NEW w \in Writers, NEW x \in WriteCall,
           writer' = [writer EXCEPT ![w] = x]
    PROVE  /\ writer' \in [Writers -> WriteCall] /\ writer'[w] = x
           /\ \A v \in Writers \ {w} : writer'[v] = writer[v]
  BY Zenon DEF PipeTypes

LEMMA ReaderPut ==
    ASSUME PipeTypes, NEW r \in Readers, NEW x \in ReadCall,
           reader' = [reader EXCEPT ![r] = x]
    PROVE  /\ reader' \in [Readers -> ReadCall] /\ reader'[r] = x
           /\ \A s \in Readers \ {r} : reader'[s] = reader[s]
  BY Zenon DEF PipeTypes

\* A step that hands no byte over: calls begin, wait and end.
LEMMA PipeQuiet ==
    ASSUME PipeInv, PipeTypes', NoneOpen', Holding', got' = got,
           \A w \in Writers : /\ writer'[w].n = writer[w].n
                              /\ writer'[w].pc = "ack" <=> writer[w].pc = "ack"
                              /\ writer[w].pc = "end" => writer'[w].pc = "end",
           \A r \in Readers : /\ reader'[r].pc = "ack" <=> reader[r].pc = "ack"
                              /\ reader[r].pc = "ack" => reader'[r].n = reader[r].n
    PROVE  PipeInv'
<1>1. Meeting'
  BY Zenon DEF PipeInv, Meeting
<1>2. \A w : Taken(w)' = Taken(w)
  BY Zenon DEF Taken, Pip!Taken
<1>3. Counted' /\ Once'
  BY <1>2, Zenon DEF PipeInv, Counted, Once
<1>4. InTurn'
  <2>1. Last' = Last
    BY Zenon DEF Last
  <2> QED
    BY <1>2, <2>1, Zenon DEF PipeInv, InTurn
<1>5. InOrder'
  <2> SUFFICES ASSUME NEW i \in 2..Len(got)
               PROVE  \/ got[i] = <<got[i - 1][1], got[i - 1][2] + 1>>
                      \/ got[i][2] = 1 /\ writer'[got[i - 1][1]].pc = "end"
    BY Zenon DEF InOrder
  <2>1. got[i - 1][1] \in Writers
    <3>1. i - 1 \in 1..Len(got)
      OBVIOUS
    <3>2. got[i - 1] \in Writers \X (Nat \ {0})
      BY <3>1 DEF PipeInv, PipeTypes
    <3> QED
      BY <3>2, Zenon
  <2> QED
    BY <2>1, Zenon DEF PipeInv, InOrder
<1> QED
  BY <1>1, <1>3, <1>4, <1>5, Zenon DEF PipeInv

\* Calls that begin, wait for the mutex, or end.
LEMMA ReaderMoves ==
    ASSUME PipeInv, NEW r \in Readers, NEW x \in ReadCall,
           x.chan # "open", x.pc # "ack", reader[r].pc # "ack",
           reader' = [reader EXCEPT ![r] = x], UNCHANGED <<writer, wrMu, got>>
    PROVE  PipeInv'
<1>1. /\ reader' \in [Readers -> ReadCall] /\ reader'[r] = x
      /\ \A s \in Readers \ {r} : reader'[s] = reader[s]
  BY ReaderPut, Zenon DEF PipeInv
<1>2. PipeTypes' /\ NoneOpen' /\ Holding'
  BY <1>1, Zenon DEF PipeInv, PipeTypes, NoneOpen, Holding
<1> QED
  BY <1>1, <1>2, PipeQuiet, Zenon

LEMMA WriterMoves ==
    ASSUME PipeInv, NEW w \in Writers, NEW x \in WriteCall, NEW mu \in Writers \cup {None},
           x.chan # "open", x.n = writer[w].n, x.pc \in {"lock", "select", "end"},
           writer[w].pc \in {"idle", "lock", "select"}, x.pc = "lock" => writer[w].pc = "idle",
           x.pc = "select" => mu = w, wrMu \in {None, w} \/ mu = wrMu,
           writer' = [writer EXCEPT ![w] = x], wrMu' = mu, UNCHANGED <<reader, got>>
    PROVE  PipeInv'
<1>1. /\ writer' \in [Writers -> WriteCall] /\ writer'[w] = x
      /\ \A v \in Writers \ {w} : writer'[v] = writer[v]
  BY WriterPut, Zenon DEF PipeInv
<1>2. PipeTypes' /\ NoneOpen'
  BY <1>1, Zenon DEF PipeInv, PipeTypes, NoneOpen
<1>3. \A v \in Writers \ {w} : writer[v].pc \in {"select", "ack"} => wrMu' = v
  BY LifecycleConstants, Zenon DEF PipeInv, Holding
<1>4. Holding'
  <2> SUFFICES ASSUME NEW v \in Writers
               PROVE  /\ writer'[v].pc \in {"select", "ack"} => wrMu' = v
                      /\ writer'[v].pc \in {"idle", "lock"} => writer'[v].n = 0
                      /\ writer'[v].n <= WriteLength
    BY Zenon DEF Holding
  <2>1. CASE v = w
    <3>1. writer[w].n <= WriteLength /\ (writer[w].pc = "idle" => writer[w].n = 0)
      BY Zenon DEF PipeInv, Holding
    <3>2. x.pc # "ack" /\ x.pc # "idle"
      BY Zenon
    <3> QED
      BY <1>1, <2>1, <3>1, <3>2, Zenon
  <2>2. CASE v # w
    BY <1>1, <1>3, <2>2, Zenon DEF PipeInv, Holding
  <2> QED
    BY <2>1, <2>2, Zenon
<1> QED
  BY <1>1, <1>2, <1>4, PipeQuiet, Zenon

\* A step of Set: a closed channel is replaced, and those who wait on it know
\* that it is closed.
LEMMA PipeSets ==
    ASSUME PipeInv, Pip!SetEnds
    PROVE  PipeInv'
<1> DEFINE d == setter.d
           Waits(x) == IF deadline[d].closed /\ setter.to # "past" /\ x.chan = "current"
                      THEN [x EXCEPT !.chan = IF deadline[d].closed THEN "closed" ELSE "open"] ELSE x
<1>1. /\ reader' = IF d = "read" THEN [r \in Readers |-> Waits(reader[r])] ELSE reader
      /\ writer' = IF d = "write" THEN [w \in Writers |-> Waits(writer[w])] ELSE writer
      /\ UNCHANGED <<wrMu, got>>
  BY Zenon DEF Pip!SetEnds, Pip!Set, Pip!SetReplacing
<1>2. ASSUME NEW x \in ReadCall, x.chan # "open"
      PROVE  /\ Waits(x) \in ReadCall /\ Waits(x).chan # "open" /\ Waits(x).pc = x.pc /\ Waits(x).n = x.n
  <2>1. CASE deadline[d].closed /\ setter.to # "past" /\ x.chan = "current"
    <3>1. Waits(x) = [x EXCEPT !.chan = "closed"]
      BY <2>1, Zenon
    <3> QED
      BY <3>1, <1>2, Zenon DEF ReadCall, Channels
  <2>2. CASE ~(deadline[d].closed /\ setter.to # "past" /\ x.chan = "current")
    BY <1>2, <2>2, Zenon
  <2> QED
    BY <2>1, <2>2, Zenon
<1>3. ASSUME NEW x \in WriteCall, x.chan # "open"
      PROVE  /\ Waits(x) \in WriteCall /\ Waits(x).chan # "open" /\ Waits(x).pc = x.pc /\ Waits(x).n = x.n
  <2>1. CASE deadline[d].closed /\ setter.to # "past" /\ x.chan = "current"
    <3>1. Waits(x) = [x EXCEPT !.chan = "closed"]
      BY <2>1, Zenon
    <3> QED
      BY <3>1, <1>3, Zenon DEF WriteCall, Channels
  <2>2. CASE ~(deadline[d].closed /\ setter.to # "past" /\ x.chan = "current")
    BY <1>3, <2>2, Zenon
  <2> QED
    BY <2>1, <2>2, Zenon
<1> HIDE DEF Waits, d
<1>4. /\ reader' \in [Readers -> ReadCall]
      /\ \A r \in Readers : /\ reader'[r].chan # "open" /\ reader'[r].pc = reader[r].pc
                            /\ reader'[r].n = reader[r].n
  <2>1. \A r \in Readers : reader[r] \in ReadCall /\ reader[r].chan # "open"
    BY Zenon DEF PipeInv, PipeTypes, NoneOpen
  <2>2. CASE d = "read"
    BY <1>1, <1>2, <2>1, <2>2, Zenon
  <2>3. CASE d # "read"
    BY <1>1, <2>1, <2>3, Zenon DEF PipeInv, PipeTypes
  <2> QED
    BY <2>2, <2>3, Zenon
<1>5. /\ writer' \in [Writers -> WriteCall]
      /\ \A w \in Writers : /\ writer'[w].chan # "open" /\ writer'[w].pc = writer[w].pc
                            /\ writer'[w].n = writer[w].n
  <2>1. \A w \in Writers : writer[w] \in WriteCall /\ writer[w].chan # "open"
    BY Zenon DEF PipeInv, PipeTypes, NoneOpen
  <2>2. CASE d = "write"
    BY <1>1, <1>3, <2>1, <2>2, Zenon
  <2>3. CASE d # "write"
    BY <1>1, <2>1, <2>3, Zenon DEF PipeInv, PipeTypes
  <2> QED
    BY <2>2, <2>3, Zenon
<1>6. PipeTypes' /\ NoneOpen' /\ Holding'
  BY <1>1, <1>4, <1>5, Zenon DEF PipeInv, PipeTypes, NoneOpen, Holding
<1> QED
  BY <1>1, <1>4, <1>5, <1>6, PipeQuiet, Zenon

LEMMA IntervalEnd == ASSUME NEW a \in Nat, NEW b \in Nat, 1..a = 1..b PROVE a = b
<1>1. CASE a = 0
  <2>1. 1 \notin 1..a
    BY <1>1
  <2> QED
    BY <1>1, <2>1
<1>2. CASE a # 0
  <2>1. a \in 1..b
    BY <1>2
  <2>2. b \in 1..b
    BY <2>1
  <2>3. b \in 1..a
    BY <2>2, Zenon
  <2> QED
    BY <2>1, <2>3
<1> QED
  BY <1>1, <1>2, Zenon

LEMMA PairParts == ASSUME NEW x, NEW a, NEW b, x = <<a, b>> PROVE x[1] = a /\ x[2] = b
  OBVIOUS

LEMMA PairFollows ==
    ASSUME NEW x, NEW a, NEW b, NEW c, x = <<a, b>>, b + 1 = c PROVE <<x[1], x[2] + 1>> = <<a, c>>
  OBVIOUS

LEMMA SecondsSame ==
    ASSUME NEW S, NEW f, NEW g, \A j \in S : f[j] = g[j]
    PROVE  {f[j][2] : j \in S} = {g[j][2] : j \in S}
  OBVIOUS

LEMMA SecondsJoin ==
    ASSUME NEW S, NEW T, NEW f
    PROVE  {f[j][2] : j \in S \cup T} = {f[j][2] : j \in S} \cup {f[j][2] : j \in T}
  OBVIOUS

\* What the readers have got of each Write when w hands the bytes after m over.
LEMMA TakenMore ==
    ASSUME PipeTypes, Once, NEW w \in Writers, NEW m \in Nat, NEW n \in Nat, Taken(w) = 1..m,
           got' = got \o [i \in 1..n |-> <<w, m + i>>]
    PROVE  /\ got' \in Seq(Writers \X (Nat \ {0})) /\ Len(got') = Len(got) + n
           /\ \A i \in 1..Len(got) : got'[i] = got[i]
           /\ \A i \in 1..n : got'[Len(got) + i] = <<w, m + i>>
           /\ \A v \in Writers \ {w} : Taken(v)' = Taken(v)
           /\ Taken(w)' = 1..(m + n) /\ Once'
<1> DEFINE new == [i \in 1..n |-> <<w, m + i>>]
           l == Len(got)
<1>1. got \in Seq(Writers \X (Nat \ {0})) /\ l \in Nat /\ DOMAIN got = 1..l
  BY DEF PipeTypes
<1>2. new \in Seq(Writers \X (Nat \ {0})) /\ Len(new) = n
  <2>1. \A i \in 1..n : <<w, m + i>> \in Writers \X (Nat \ {0})
    OBVIOUS
  <2> QED
    BY <2>1
<1>3. got' \in Seq(Writers \X (Nat \ {0})) /\ Len(got') = l + n /\ DOMAIN got' = 1..(l + n)
  BY <1>1, <1>2
<1>4. \A i \in 1..l : got'[i] = got[i]
  BY <1>1, <1>2
<1>5. \A i \in 1..n : got'[l + i] = <<w, m + i>>
  BY <1>1, <1>2
<1> HIDE DEF new, l
<1>6. \A i \in (l + 1)..(l + n) : i - l \in 1..n /\ got'[i] = <<w, m + (i - l)>>
  <2> SUFFICES ASSUME NEW i \in (l + 1)..(l + n) PROVE i - l \in 1..n /\ got'[i] = <<w, m + (i - l)>>
    BY Zenon
  <2>1. i - l \in 1..n /\ l + (i - l) = i
    BY <1>1
  <2>2. got'[l + (i - l)] = <<w, m + (i - l)>>
    BY <1>5, <2>1, Zenon
  <2> QED
    BY <2>1, <2>2, Zenon
<1>7. 1..(l + n) = 1..l \cup (l + 1)..(l + n)
  BY <1>1
<1>8. ASSUME NEW i \in (l + 1)..(l + n)
      PROVE  got'[i] = <<w, m + (i - l)>> /\ got'[i][1] = w /\ got'[i][2] = m + (i - l)
  <2>1. PICK k : k = m + (i - l)
    BY Zenon
  <2>2. got'[i] = <<w, k>>
    BY <1>6, <2>1, Zenon
  <2>3. got'[i][1] = w /\ got'[i][2] = k
    BY <2>2, PairParts, Zenon
  <2> QED
    BY <2>1, <2>2, <2>3, Zenon
<1>9. ASSUME NEW v \in Writers \ {w} PROVE Taken(v)' = Taken(v)
  <2>1. {j \in DOMAIN got' : got'[j][1] = v} = {j \in DOMAIN got : got[j][1] = v}
    <3>1. \A j \in 1..(l + n) : j \in 1..l \/ j \in (l + 1)..(l + n)
      BY <1>7, Zenon
    <3>2. \A j \in 1..l : j \in 1..(l + n)
      BY <1>7, Zenon
    <3> QED
      BY <1>1, <1>3, <1>4, <1>8, <3>1, <3>2, Zenon
  <2>2. \A j \in {i \in DOMAIN got : got[i][1] = v} : got'[j] = got[j]
    BY <1>1, <1>4, Zenon
  <2> DEFINE before == {got[i][2] : i \in {j \in DOMAIN got : got[j][1] = v}}
             after == {got'[i][2] : i \in {j \in DOMAIN got : got[j][1] = v}}
  <2>3. Taken(v)' = after
    BY <2>1, Zenon DEF Taken, Pip!Taken
  <2>4. after = before
    <3>1. ASSUME NEW e \in after PROVE e \in before
      BY <2>2, Zenon
    <3>2. ASSUME NEW e \in before PROVE e \in after
      BY <2>2, Zenon
    <3> HIDE DEF before, after
    <3> QED
      BY <3>1, <3>2, Zenon
  <2>5. Taken(v) = before
    BY Zenon DEF Taken, Pip!Taken
  <2> HIDE DEF before, after
  <2> QED
    BY <2>3, <2>4, <2>5, Zenon
<1>10. Taken(w)' = 1..(m + n)
  <2>1. Taken(w)' = Taken(w) \cup {got'[i][2] : i \in (l + 1)..(l + n)}
    <3>1. \A j \in 1..(l + n) : j \in 1..l \/ j \in (l + 1)..(l + n)
      BY <1>7, Zenon
    <3>2. (\A j \in 1..l : j \in 1..(l + n)) /\ \A j \in (l + 1)..(l + n) : j \in 1..(l + n)
      BY <1>7, Zenon
    <3>3. {j \in DOMAIN got' : got'[j][1] = w} = {j \in DOMAIN got : got[j][1] = w} \cup (l + 1)..(l + n)
      BY <1>1, <1>3, <1>4, <1>8, <3>1, <3>2, Zenon
    <3>4. \A j \in {i \in DOMAIN got : got[i][1] = w} : got'[j] = got[j]
      BY <1>1, <1>4, Zenon
    <3>5. Taken(w)' = {got'[i][2] : i \in {j \in DOMAIN got : got[j][1] = w} \cup (l + 1)..(l + n)}
      BY <3>3, Zenon DEF Taken, Pip!Taken
    <3>6. Taken(w) = {got'[i][2] : i \in {j \in DOMAIN got : got[j][1] = w}}
      BY <3>4, SecondsSame, Zenon DEF Taken, Pip!Taken
    <3> QED
      BY <3>5, <3>6, SecondsJoin, Zenon
  <2>2. {got'[i][2] : i \in (l + 1)..(l + n)} = {m + (i - l) : i \in (l + 1)..(l + n)}
    BY <1>8, Zenon
  <2>3. {m + (i - l) : i \in (l + 1)..(l + n)} = (m + 1)..(m + n)
    <3>1. ASSUME NEW k \in (m + 1)..(m + n) PROVE \E i \in (l + 1)..(l + n) : k = m + (i - l)
      <4>1. l + (k - m) \in (l + 1)..(l + n) /\ k = m + ((l + (k - m)) - l)
        BY <1>1
      <4> QED
        BY <4>1, Zenon
    <3>2. ASSUME NEW i \in (l + 1)..(l + n) PROVE m + (i - l) \in (m + 1)..(m + n)
      BY <1>1
    <3> QED
      BY <3>1, <3>2, Zenon
  <2>4. 1..m \cup (m + 1)..(m + n) = 1..(m + n)
    OBVIOUS
  <2> QED
    BY <2>1, <2>2, <2>3, <2>4, Zenon
<1>11. Once'
  <2>1. ASSUME NEW i \in 1..l, NEW j \in (l + 1)..(l + n) PROVE got'[i] # got'[j]
    <3>1. got[i][1] = w => got[i][2] \in 1..m
      BY <1>1, Zenon DEF Taken, Pip!Taken
    <3>2. m + (j - l) \notin 1..m
      BY <1>1
    <3>3. got'[i] = got[i]
      BY <1>4, Zenon
    <3>4. got'[j][1] = w /\ got'[j][2] = m + (j - l)
      BY <1>8, Zenon
    <3> QED
      BY <3>1, <3>2, <3>3, <3>4, Zenon
  <2>2. ASSUME NEW i \in (l + 1)..(l + n), NEW j \in (l + 1)..(l + n), got'[i] = got'[j] PROVE i = j
    <3>1. m + (i - l) = m + (j - l)
      BY <1>8, <2>2, Zenon
    <3> QED
      BY <1>1, <3>1
  <2>3. ASSUME NEW i \in 1..l, NEW j \in 1..l, got'[i] = got'[j] PROVE i = j
    BY <1>1, <1>4, <2>3, Zenon DEF Once
  <2> SUFFICES ASSUME NEW i \in 1..(l + n), NEW j \in 1..(l + n), got'[i] = got'[j] PROVE i = j
    BY <1>3, Zenon DEF Once
  <2>4. (i \in 1..l \/ i \in (l + 1)..(l + n)) /\ (j \in 1..l \/ j \in (l + 1)..(l + n))
    BY <1>7, Zenon
  <2> QED
    BY <2>1, <2>2, <2>3, <2>4, Zenon
<1> QED
  BY <1>3, <1>4, <1>5, <1>9, <1>10, <1>11, Zenon DEF l

\* What is read is read of the Write that holds the mutex, where it stopped.
LEMMA HandoverKeeps ==
    ASSUME PipeInv, NEW r \in Readers, NEW w \in Writers, Pip!Handover(r, w)
    PROVE  PipeInv'
<1> USE DEF PipeInv
<1>1. PICK m \in Nat : m = writer[w].n /\ m <= WriteLength
  BY Zenon DEF PipeTypes, WriteCall, Holding
<1>2. reader[r].room \in Nat /\ WriteLength - m \in Nat
  <2>1. reader[r] \in ReadCall
    BY Zenon DEF PipeTypes
  <2> QED
    BY <1>1, <2>1, LifecycleConstants DEF ReadCall
<1>3. PICK n \in Nat : /\ n = IF reader[r].room < WriteLength - m THEN reader[r].room ELSE WriteLength - m
                       /\ m + n <= WriteLength
  BY <1>1, <1>2, LifecycleConstants
<1>4. /\ reader[r].pc = "select" /\ writer[w].pc = "select" /\ wrMu = w
      /\ got' = got \o [i \in 1..n |-> <<w, m + i>>]
      /\ reader' = [reader EXCEPT ![r].pc = "ack", ![r].n = n]
      /\ writer' = [writer EXCEPT ![w].pc = "ack"] /\ wrMu' = wrMu
  BY <1>1, <1>3, Zenon DEF Pip!Handover, Holding
<1>5. /\ writer' \in [Writers -> WriteCall]
      /\ writer'[w].pc = "ack" /\ writer'[w].n = m /\ writer'[w].chan = writer[w].chan
      /\ \A v \in Writers \ {w} : writer'[v] = writer[v]
  <2> DEFINE x == [writer[w] EXCEPT !.pc = "ack"]
  <2>1. x \in WriteCall /\ x.pc = "ack" /\ x.n = m /\ x.chan = writer[w].chan
    BY <1>1, Zenon DEF PipeTypes, WriteCall
  <2>2. writer' = [writer EXCEPT ![w] = x]
    BY <1>4, Zenon
  <2> HIDE DEF x
  <2> QED
    BY <2>1, <2>2, WriterPut, Zenon
<1>6. /\ reader' \in [Readers -> ReadCall]
      /\ reader'[r].pc = "ack" /\ reader'[r].n = n /\ reader'[r].chan = reader[r].chan
      /\ \A s \in Readers \ {r} : reader'[s] = reader[s]
  <2> DEFINE x == [reader[r] EXCEPT !.pc = "ack", !.n = n]
  <2>1. x \in ReadCall /\ x.pc = "ack" /\ x.n = n /\ x.chan = reader[r].chan
    BY Zenon DEF PipeTypes, ReadCall
  <2>2. reader' = [reader EXCEPT ![r] = x]
    BY <1>4, Zenon DEF PipeTypes
  <2> HIDE DEF x
  <2> QED
    BY <2>1, <2>2, ReaderPut, Zenon
<1>7. /\ \A v \in Writers : writer[v].pc # "ack"
      /\ \A s \in Readers : reader[s].pc # "ack"
  BY <1>4, Zenon DEF Holding, Meeting
<1>9. Taken(w) = 1..m
  BY <1>1, <1>4, Zenon DEF Counted
<1>8. /\ got' \in Seq(Writers \X (Nat \ {0})) /\ Len(got') = Len(got) + n
      /\ \A i \in 1..Len(got) : got'[i] = got[i]
      /\ \A i \in 1..n : got'[Len(got) + i] = <<w, m + i>>
      /\ \A v \in Writers \ {w} : Taken(v)' = Taken(v)
      /\ Taken(w)' = 1..(m + n) /\ Once'
  BY <1>4, <1>9, TakenMore, Zenon
<1>10. PipeTypes' /\ NoneOpen'
  <2>1. PipeTypes'
    BY <1>4, <1>5, <1>6, <1>8, Zenon DEF PipeTypes
  <2>2. NoneOpen'
    BY <1>5, <1>6, Zenon DEF NoneOpen
  <2> QED
    BY <2>1, <2>2, Zenon
<1>11. Holding'
  BY <1>1, <1>4, <1>5, Zenon DEF Holding
<1>12. Meeting'
  BY <1>5, <1>6, <1>7, Zenon DEF Meeting
<1>13. Counted'
  <2> SUFFICES ASSUME NEW v \in Writers
               PROVE  IF writer'[v].pc = "ack"
                      THEN \A s \in Readers : reader'[s].pc = "ack" =>
                              /\ Taken(v)' = 1..(writer'[v].n + reader'[s].n)
                              /\ writer'[v].n + reader'[s].n <= WriteLength
                      ELSE Taken(v)' = 1..writer'[v].n
    BY Zenon DEF Counted
  <2>1. CASE v = w
    BY <1>3, <1>5, <1>6, <1>7, <1>8, <1>9, <2>1, Zenon
  <2>2. CASE v # w
    BY <1>5, <1>7, <1>8, <2>2, Zenon DEF Counted
  <2> QED
    BY <2>1, <2>2, Zenon
<1>14. PICK l \in Nat : l = Len(got) /\ Len(got') = l + n
  BY <1>8 DEF PipeTypes
<1>15. ASSUME l # 0
       PROVE  /\ Last = got[l] /\ Last \in Writers \X (Nat \ {0}) /\ l \in 1..l /\ got # <<>>
              /\ Last[1] \in Writers /\ Last[2] \in Nat \ {0} /\ Last = <<Last[1], Last[2]>>
              /\ Taken(Last[1]) = 1..Last[2]
  <2>1. l \in 1..l /\ got # <<>> /\ got[l] \in Writers \X (Nat \ {0})
    BY <1>14, <1>15 DEF PipeTypes
  <2>2. Last = got[l] /\ Last \in Writers \X (Nat \ {0})
    BY <1>14, <2>1, Zenon DEF Last
  <2>3. Last[1] \in Writers /\ Last[2] \in Nat \ {0} /\ Last = <<Last[1], Last[2]>>
    BY <2>2
  <2>4. Taken(Last[1]) = 1..Last[2]
    BY <2>1, Zenon DEF InTurn
  <2> QED
    BY <2>1, <2>2, <2>3, <2>4, Zenon
<1>16. \A v \in Writers \ {w} : writer[v].pc # "end" => Taken(v) = {}
  <2> SUFFICES ASSUME NEW v \in Writers \ {w}, writer[v].pc # "end" PROVE Taken(v) = {}
    BY Zenon
  <2>1. writer[v].pc \notin {"select", "ack"}
    BY <1>4, Zenon DEF Holding
  <2>2. writer[v].pc \in {"idle", "lock"}
    BY <2>1, Zenon DEF PipeTypes, WriteCall
  <2>3. Taken(v) = 1..0
    BY <2>1, <2>2, Zenon DEF Holding, Counted
  <2> QED
    BY <2>3
<1>17. Last' = IF n = 0 THEN got'[l] ELSE <<w, m + n>>
  <2>1. CASE n = 0
    BY <1>14, <2>1 DEF Last
  <2>2. CASE n # 0
    <3>1. n \in 1..n
      BY <2>2
    <3> QED
      BY <1>8, <1>14, <2>2, <3>1, Zenon DEF Last
  <2> QED
    BY <2>1, <2>2, Zenon
<1>18. InTurn'
  <2>1. CASE n # 0
    <3>1. Last'[1] = w /\ Last'[2] = m + n /\ Taken(w)' = 1..(m + n)
      BY <1>8, <1>17, <2>1, Zenon
    <3>2. got' # <<>>
      BY <1>8, <1>14, <2>1
    <3>3. \A v \in Writers \ {w} : writer'[v].pc # "end" => Taken(v)' = {}
      BY <1>5, <1>8, <1>16, Zenon
    <3>4. Taken(Last[1])' = 1..(m + n)
      BY <3>1, Zenon DEF Taken, Pip!Taken
    <3> QED
      BY <3>1, <3>2, <3>3, <3>4, Zenon DEF InTurn
  <2>2. CASE n = 0
    <3>1. m + n = m
      BY <2>2
    <3>2. \A v \in Writers : Taken(v)' = Taken(v)
      BY <1>8, <1>9, <3>1, Zenon
    <3>3. l # 0 => Last' = Last
      BY <1>8, <1>14, <1>15, <1>17, <2>2, Zenon
    <3>4. got' # <<>> <=> l # 0
      BY <1>8, <1>14, <2>2
    <3>5. got # <<>> <=> l # 0
      BY <1>14 DEF PipeTypes
    <3>6. (got # <<>> => Taken(Last[1]) = 1..Last[2])'
      <4> SUFFICES ASSUME l # 0 PROVE (Taken(Last[1]) = 1..Last[2])'
        BY <3>4, Zenon
      <4>1. PICK v \in Writers : v = Last[1] /\ Taken(v) = 1..Last[2]
        BY <1>15, Zenon
      <4>2. v = Last'[1] /\ Taken(v)' = 1..Last'[2]
        BY <3>2, <3>3, <4>1, Zenon
      <4> QED
        BY <4>2, Zenon DEF Taken, Pip!Taken
    <3>7. ASSUME NEW v \in Writers, writer'[v].pc # "end", Taken(v)' # {}
          PROVE  got' # <<>> /\ Last'[1] = v
      <4>1. v = w
        BY <1>5, <1>16, <3>2, <3>7, Zenon
      <4>2. got # <<>> /\ Last[1] = w
        BY <1>4, <3>2, <3>7, <4>1, Zenon DEF InTurn
      <4> QED
        BY <3>3, <3>4, <3>5, <4>1, <4>2, Zenon
    <3> QED
      BY <3>6, <3>7, Zenon DEF InTurn
  <2> QED
    BY <2>1, <2>2, Zenon
<1>19. InOrder'
  <2> SUFFICES ASSUME NEW i \in 2..(l + n)
               PROVE  \/ got'[i] = <<got'[i - 1][1], got'[i - 1][2] + 1>>
                      \/ got'[i][2] = 1 /\ writer'[got'[i - 1][1]].pc = "end"
    BY <1>14, Zenon DEF InOrder
  <2>1. CASE i <= l
    <3>1. i \in 2..Len(got) /\ i \in 1..Len(got) /\ i - 1 \in 1..Len(got)
      BY <1>14, <2>1
    <3>2. got[i - 1] \in Writers \X (Nat \ {0})
      BY <3>1 DEF PipeTypes
    <3>3. got[i - 1][1] \in Writers
      BY <3>2, Zenon
    <3>4. got'[i] = got[i] /\ got'[i - 1] = got[i - 1]
      BY <1>8, <3>1, Zenon
    <3>5. \/ got[i] = <<got[i - 1][1], got[i - 1][2] + 1>>
          \/ got[i][2] = 1 /\ writer[got[i - 1][1]].pc = "end"
      BY <3>1, Zenon DEF InOrder
    <3>6. writer[got[i - 1][1]].pc = "end" => writer'[got[i - 1][1]].pc = "end"
      BY <1>4, <1>5, <3>3, Zenon
    <3> QED
      BY <3>4, <3>5, <3>6, Zenon
  <2>2. CASE i = l + 1
    <3>1. l # 0 /\ 1 \in 1..n
      BY <2>2
    <3>2. got'[i] = <<w, m + 1>> /\ i - 1 = l /\ got'[l] = Last
      <4>1. i - 1 = l /\ l \in 1..Len(got)
        BY <1>14, <2>2, <3>1
      <4> QED
        BY <1>8, <1>14, <1>15, <2>2, <3>1, <4>1, Zenon
    <3>3. CASE Last[1] = w
      <4>1. Last[2] = m
        BY <1>9, <1>15, <3>1, <3>3, IntervalEnd, Zenon
      <4> QED
        BY <3>2, <3>3, <4>1, Zenon
    <3>4. CASE Last[1] # w
      <4>1. m = 0
        <5>1. 1..m = {}
          BY <1>4, <1>9, <3>4, Zenon DEF InTurn
        <5> QED
          BY <5>1
      <4>2. writer[Last[1]].pc = "end"
        <5>1. 1..Last[2] # {}
          BY <1>15, <3>1
        <5> QED
          BY <1>15, <1>16, <3>1, <3>4, <5>1, Zenon
      <4>3. writer'[Last[1]].pc = "end"
        BY <1>5, <1>15, <3>1, <3>4, <4>2, Zenon
      <4>4. got'[i][2] = m + 1 /\ m + 1 = 1
        <5>1. m + 1 = 1
          BY <4>1
        <5> QED
          BY <3>2, <5>1, PairParts, Zenon
      <4> QED
        BY <3>2, <4>3, <4>4, Zenon
    <3> QED
      BY <3>3, <3>4, Zenon
  <2>3. CASE i > l + 1
    <3>1. PICK k \in Nat : k = i - l
      BY <2>3
    <3>2. k \in 1..n /\ k - 1 \in 1..n /\ i = l + k /\ i - 1 = l + (k - 1)
      BY <2>3, <3>1
    <3>3. got'[i] = <<w, m + k>> /\ got'[i - 1] = <<w, m + (k - 1)>>
      BY <1>8, <1>14, <3>2, Zenon
    <3>4. m + (k - 1) + 1 = m + k
      OBVIOUS
    <3>5. PICK p : p = got'[i - 1]
      BY Zenon
    <3>6. <<p[1], p[2] + 1>> = <<w, m + k>>
      BY <3>3, <3>4, <3>5, PairFollows
    <3> QED
      BY <3>3, <3>5, <3>6, Zenon
  <2>4. i <= l \/ i = l + 1 \/ i > l + 1
    OBVIOUS
  <2> QED
    BY <2>1, <2>2, <2>3, <2>4, Zenon
<1> QED
  BY <1>8, <1>10, <1>11, <1>12, <1>13, <1>18, <1>19, Zenon

\* The writer goes on with the rest, or returns.
LEMMA AcknowledgedKeeps ==
    ASSUME PipeInv, NEW r \in Readers, NEW w \in Writers, Pip!Acknowledged(r, w)
    PROVE  PipeInv'
<1> USE DEF PipeInv
<1>1. PICK n \in Nat : n = writer[w].n + reader[r].n
  <2>1. writer[w] \in WriteCall /\ reader[r] \in ReadCall
    BY Zenon DEF PipeTypes
  <2> QED
    BY <2>1 DEF WriteCall, ReadCall
<1>2. /\ reader[r].pc = "ack" /\ writer[w].pc = "ack" /\ got' = got
      /\ writer' = [writer EXCEPT ![w] = [pc |-> IF n < WriteLength THEN "select" ELSE "end",
                                          chan |-> "current", n |-> n]]
      /\ wrMu' = IF n < WriteLength THEN wrMu ELSE None
      /\ reader' = [reader EXCEPT ![r] = Pip!Ended]
  BY <1>1, Zenon DEF Pip!Acknowledged
<1>3. /\ wrMu = w /\ Taken(w) = 1..n /\ n <= WriteLength
      /\ \A v \in Writers \ {w} : writer[v].pc \notin {"select", "ack"}
      /\ \A s \in Readers \ {r} : reader[s].pc # "ack"
  BY <1>1, <1>2, Zenon DEF Holding, Meeting, Counted
<1>4. /\ writer' \in [Writers -> WriteCall]
      /\ writer'[w].pc \in {"select", "end"} /\ (writer'[w].pc = "select" => n < WriteLength)
      /\ writer'[w].n = n /\ writer'[w].chan = "current"
      /\ \A v \in Writers \ {w} : writer'[v] = writer[v]
  <2> DEFINE x == [pc |-> IF n < WriteLength THEN "select" ELSE "end", chan |-> "current", n |-> n]
  <2>1. /\ x \in WriteCall /\ x.pc \in {"select", "end"} /\ (x.pc = "select" => n < WriteLength)
        /\ x.n = n /\ x.chan = "current"
    BY DEF WriteCall, Channels
  <2>2. writer' = [writer EXCEPT ![w] = x]
    BY <1>2, Zenon
  <2> HIDE DEF x
  <2> QED
    BY <2>1, <2>2, WriterPut, Zenon
<1>5. /\ reader' \in [Readers -> ReadCall]
      /\ reader'[r].pc = "end" /\ reader'[r].chan = "current"
      /\ \A s \in Readers \ {r} : reader'[s] = reader[s]
  <2>1. Pip!Ended \in ReadCall /\ Pip!Ended.pc = "end" /\ Pip!Ended.chan = "current"
    BY DEF Pip!Ended, ReadCall, Channels
  <2> QED
    BY <1>2, <2>1, ReaderPut, Zenon
<1>6. PipeTypes' /\ NoneOpen'
  BY <1>2, <1>4, <1>5, Zenon DEF PipeTypes, NoneOpen
<1>7. Holding'
  <2>1. \A v \in Writers \ {w} : /\ writer'[v].pc # "select" /\ writer'[v].pc # "ack"
                                 /\ writer'[v].pc \in {"idle", "lock"} => writer'[v].n = 0
                                 /\ writer'[v].n <= WriteLength
    BY <1>3, <1>4, Zenon DEF Holding
  <2>2. writer'[w].pc = "select" => wrMu' = w
    BY <1>2, <1>3, <1>4, Zenon
  <2>3. writer'[w].pc # "ack" /\ writer'[w].pc # "idle" /\ writer'[w].pc # "lock"
    BY <1>4, Zenon
  <2>4. writer'[w].n <= WriteLength
    BY <1>3, <1>4, Zenon
  <2> SUFFICES ASSUME NEW v \in Writers
               PROVE  /\ writer'[v].pc \in {"select", "ack"} => wrMu' = v
                      /\ writer'[v].pc \in {"idle", "lock"} => writer'[v].n = 0
                      /\ writer'[v].n <= WriteLength
    BY Zenon DEF Holding
  <2>5. CASE v = w
    BY <2>2, <2>3, <2>4, <2>5, Zenon
  <2>6. CASE v # w
    BY <2>1, <2>6, Zenon
  <2> QED
    BY <2>5, <2>6, Zenon
<1>12. Meeting'
  <2>1. \A s \in Readers : reader'[s].pc # "ack"
    BY <1>3, <1>5, Zenon
  <2>2. \A v \in Writers : writer'[v].pc # "ack"
    BY <1>3, <1>4, Zenon
  <2> QED
    BY <2>1, <2>2, Zenon DEF Meeting
<1>8. \A v : Taken(v)' = Taken(v)
  BY <1>2, Zenon DEF Taken, Pip!Taken
<1>9. Counted' /\ Once'
  <2>1. Once'
    BY <1>2, Zenon DEF Once
  <2>2. \A v \in Writers \ {w} : writer'[v].pc # "ack" /\ writer'[v] = writer[v] /\ writer[v].pc # "ack"
    BY <1>3, <1>4, Zenon
  <2>3. writer'[w].pc # "ack" /\ writer'[w].n = n
    BY <1>4, Zenon
  <2>4. \A v \in Writers : writer'[v].pc # "ack" /\ Taken(v)' = 1..writer'[v].n
    BY <1>3, <1>8, <2>2, <2>3, Zenon DEF Counted
  <2> QED
    BY <2>1, <2>4, Zenon DEF Counted
<1>10. InTurn'
  <2>1. Last' = Last
    BY <1>2, Zenon DEF Last
  <2> QED
    BY <1>2, <1>4, <1>8, <2>1, Zenon DEF InTurn
<1>11. InOrder'
  <2> SUFFICES ASSUME NEW i \in 2..Len(got)
               PROVE  \/ got[i] = <<got[i - 1][1], got[i - 1][2] + 1>>
                      \/ got[i][2] = 1 /\ writer'[got[i - 1][1]].pc = "end"
    BY <1>2, Zenon DEF InOrder
  <2>1. got[i - 1][1] \in Writers
    <3>1. i - 1 \in 1..Len(got)
      OBVIOUS
    <3>2. got[i - 1] \in Writers \X (Nat \ {0})
      BY <3>1 DEF PipeTypes
    <3> QED
      BY <3>2, Zenon
  <2> QED
    BY <1>2, <1>4, <2>1, Zenon DEF InOrder
<1> QED
  BY <1>6, <1>7, <1>9, <1>10, <1>11, <1>12, Zenon

LEMMA PipeInductive == PipeInv /\ [Pip!Next]_pipe => PipeInv'
<1> SUFFICES ASSUME PipeInv, [Pip!Next]_pipe PROVE PipeInv'
  OBVIOUS
<1>1. ASSUME NEW r \in Readers, Pip!ReadEnds(r) \/ \E room \in Sizes : Pip!Read(r, room) PROVE PipeInv'
  <2>1. PICK room \in Nat : /\ reader[r].pc \in {"idle", "select"} /\ UNCHANGED <<writer, wrMu, got>>
                            /\ \/ reader' = [reader EXCEPT ![r] = Pip!Ended]
                               \/ reader' = [reader EXCEPT ![r] =
                                    [pc |-> "select", chan |-> "current", n |-> 0, room |-> room]]
    <3>1. CASE Pip!ReadEnds(r)
      <4>1. /\ reader[r].pc \in {"idle", "select"} /\ UNCHANGED <<writer, wrMu, got>>
            /\ reader' = [reader EXCEPT ![r] = Pip!Ended]
        BY <3>1, Zenon DEF Pip!ReadEnds
      <4>2. 0 \in Nat
        OBVIOUS
      <4> QED
        BY <4>1, <4>2, Zenon
    <3>2. CASE \E room \in Sizes : Pip!Read(r, room)
      BY <3>2, LifecycleConstants, Zenon DEF Pip!Read
    <3> QED
      BY <1>1, <3>1, <3>2, Zenon
  <2> DEFINE x == [pc |-> "select", chan |-> "current", n |-> 0, room |-> room]
  <2>2. x \in ReadCall /\ x.chan # "open" /\ x.pc # "ack"
    BY DEF ReadCall, Channels
  <2>3. Pip!Ended \in ReadCall /\ Pip!Ended.chan # "open" /\ Pip!Ended.pc # "ack"
    BY DEF Pip!Ended, ReadCall, Channels
  <2>4. reader[r].pc # "ack"
    BY <2>1, Zenon
  <2>5. CASE reader' = [reader EXCEPT ![r] = Pip!Ended]
    BY <2>1, <2>3, <2>4, <2>5, ReaderMoves, Zenon
  <2> HIDE DEF x
  <2>6. CASE reader' = [reader EXCEPT ![r] = x]
    BY <2>1, <2>2, <2>4, <2>6, ReaderMoves, Zenon
  <2> QED
    BY <2>1, <2>5, <2>6, Zenon DEF x
<1>2. ASSUME NEW w \in Writers, Pip!Write(w) PROVE PipeInv'
  <2>1. PICK pc \in {"lock", "end"} : writer' = [writer EXCEPT ![w].pc = pc]
    BY <1>2, Zenon DEF Pip!Write
  <2>2. writer[w].pc = "idle" /\ UNCHANGED <<reader, wrMu, got>>
    BY <1>2, Zenon DEF Pip!Write
  <2> DEFINE x == [writer[w] EXCEPT !.pc = pc]
  <2>3. x \in WriteCall /\ x.pc = pc /\ x.n = writer[w].n /\ x.chan = writer[w].chan
    BY Zenon DEF PipeInv, PipeTypes, WriteCall
  <2>4. writer' = [writer EXCEPT ![w] = x]
    BY <2>1, Zenon
  <2> HIDE DEF x
  <2>5. x.chan # "open" /\ wrMu \in Writers \cup {None}
    BY <2>3, Zenon DEF PipeInv, PipeTypes, NoneOpen
  <2> QED
    BY <2>2, <2>3, <2>4, <2>5, WriterMoves, Zenon
<1>3. ASSUME NEW w \in Writers, Pip!Lock(w) PROVE PipeInv'
  <2>1. /\ writer[w].pc = "lock" /\ wrMu = None /\ wrMu' = w /\ UNCHANGED <<reader, got>>
        /\ writer' = [writer EXCEPT ![w].pc = "select", ![w].chan = "current"]
    BY <1>3, Zenon DEF Pip!Lock, Pip!LockWhen
  <2> DEFINE x == [writer[w] EXCEPT !.pc = "select", !.chan = "current"]
  <2>2. x \in WriteCall /\ x.pc = "select" /\ x.n = writer[w].n /\ x.chan = "current"
    BY Zenon DEF PipeInv, PipeTypes, WriteCall, Channels
  <2>3. writer' = [writer EXCEPT ![w] = x]
    BY <2>1, Zenon DEF PipeInv, PipeTypes
  <2> HIDE DEF x
  <2> QED
    BY <2>1, <2>2, <2>3, WriterMoves, Zenon
<1>4. ASSUME NEW w \in Writers, Pip!WriteEnds(w) PROVE PipeInv'
  <2>1. /\ writer[w].pc = "select" /\ wrMu' = None /\ UNCHANGED <<reader, got>>
        /\ writer' = [writer EXCEPT ![w].pc = "end", ![w].chan = "current"]
    BY <1>4, Zenon DEF Pip!WriteEnds, Pip!WriteEndsOn
  <2> DEFINE x == [writer[w] EXCEPT !.pc = "end", !.chan = "current"]
  <2>2. x \in WriteCall /\ x.pc = "end" /\ x.n = writer[w].n /\ x.chan = "current"
    BY Zenon DEF PipeInv, PipeTypes, WriteCall, Channels
  <2>3. writer' = [writer EXCEPT ![w] = x]
    BY <2>1, Zenon DEF PipeInv, PipeTypes
  <2>4. wrMu = w
    BY <2>1, Zenon DEF PipeInv, Holding
  <2> HIDE DEF x
  <2> QED
    BY <2>1, <2>2, <2>3, <2>4, WriterMoves, Zenon
<1>5. ASSUME UNCHANGED <<reader, writer, wrMu, got>> PROVE PipeInv'
  <2>1. PipeTypes' /\ NoneOpen' /\ Holding'
    BY <1>5, Zenon DEF PipeInv, PipeTypes, NoneOpen, Holding
  <2> QED
    BY <1>5, <2>1, PipeQuiet, Zenon
<1>6. CASE \/ \E d \in Pip!Deadlines, to \in {"zero", "future", "past"}, both \in BOOLEAN :
                 Pip!SetDeadline(d, to, both)
           \/ Pip!SetWaits
           \/ \E d \in Pip!Deadlines : Pip!Fire(d) \/ Pip!Expire(d)
           \/ \E e \in {"r", "w"} : Pip!Close(e)
           \/ Pip!CloseWrite
           \/ UNCHANGED pipe
  <2>1. UNCHANGED <<reader, writer, wrMu, got>>
    BY <1>6, Zenon DEF Pip!SetDeadline, Pip!SetWaits, Pip!Fire, Pip!Expire, Pip!Close, Pip!CloseWrite, pipe
  <2> QED
    BY <1>5, <2>1, Zenon
<1> QED
  BY <1>1, <1>2, <1>3, <1>4, <1>6, PipeSets, HandoverKeeps, AcknowledgedKeeps, Zenon
  DEF Pip!Next, Pip!ReaderStep, Pip!WriterStep

LEMMA PipeImplied == PipeInv => Pip!WrittenTogether /\ Pip!DeadlineReaches
<1> SUFFICES ASSUME PipeInv PROVE Pip!WrittenTogether /\ Pip!DeadlineReaches
  OBVIOUS
<1> USE DEF PipeInv
<1>1. Pip!DeadlineReaches
  BY Zenon DEF Pip!DeadlineReaches, NoneOpen
<1>2. ASSUME NEW w \in Writers
      PROVE  Taken(w) = 1..(writer[w].n +
                (IF writer[w].pc = "ack"
                 THEN reader[CHOOSE r \in Readers : reader[r].pc = "ack"].n ELSE 0))
  <2>1. CASE writer[w].pc = "ack"
    <3>1. PICK r \in Readers : r = (CHOOSE s \in Readers : reader[s].pc = "ack") /\ reader[r].pc = "ack"
      BY <2>1, Zenon DEF Meeting
    <3> QED
      BY <2>1, <3>1, Zenon DEF Counted
  <2>2. CASE writer[w].pc # "ack"
    <3>1. writer[w].n \in Nat /\ Taken(w) = 1..writer[w].n
      BY <2>2, Zenon DEF PipeTypes, WriteCall, Counted
    <3> QED
      BY <2>2, <3>1
  <2> QED
    BY <2>1, <2>2, Zenon
<1>3. Pip!WrittenTogether
  BY <1>2, Zenon DEF Pip!WrittenTogether, InOrder, Once, Taken
<1> QED
  BY <1>1, <1>3, Zenon

\* Of all the steps of the pipe, those of any number of readers, writers, timers
\* and closings, none lets the bytes of two Writes mix, lose or repeat one, or
\* report another number than was read (pipe.go:223).
THEOREM WritesStayTogether == MCSpec => []WrittenTogether
<1> DEFINE Inv == part = "pipe" => PipeInv
<1>1. MCInit => Inv
  BY PipeInitially, Zenon DEF MCInit
<1>2. Inv /\ [MCNext]_everything => Inv'
  BY PartsApart, PipeInductive, Zenon
<1>3. Inv => WrittenTogether
  BY PipeImplied, Zenon DEF WrittenTogether
<1> QED
  BY <1>1, <1>2, <1>3, PTL DEF MCSpec

\* Whoever waits on a deadline's channel waits on the one that the deadline has
\* now or on one that is closed, however often it is set (pipe.go:32).
THEOREM DeadlinesReach == MCSpec => []DeadlineReaches
<1> DEFINE Inv == part = "pipe" => PipeInv
<1>1. MCInit => Inv
  BY PipeInitially, Zenon DEF MCInit
<1>2. Inv /\ [MCNext]_everything => Inv'
  BY PartsApart, PipeInductive, Zenon
<1>3. Inv => DeadlineReaches
  BY PipeImplied, Zenon DEF DeadlineReaches
<1> QED
  BY <1>1, <1>2, <1>3, PTL DEF MCSpec

-----------------------------------------------------------------------------
(* The queue.  Each step of the ring is, for the elements read from the head *)
(* onwards, a step of the bounded queue or none.                             *)

\* Sequences, element by element.
LEMMA Tailed ==
    ASSUME NEW S, NEW s \in Seq(S), s # <<>>
    PROVE  /\ Head(s) \in S /\ Tail(s) \in Seq(S) /\ Len(Tail(s)) = Len(s) - 1
           /\ \A i \in 1..Len(Tail(s)) : Tail(s)[i] = s[i + 1]
  OBVIOUS

LEMMA SameSequence ==
    ASSUME NEW S, NEW s \in Seq(S), NEW t \in Seq(S), Len(s) = Len(t),
           \A i \in 1..Len(s) : s[i] = t[i]
    PROVE  s = t
  OBVIOUS

Elements == Values \cup {Nil}

Types ==
    /\ size \in Nat \ {0}
    /\ ring \in [0..(size - 1) -> Elements]
    /\ headPos \in 0..(size - 1) /\ tailPos \in 0..(size - 1)
    /\ full \in BOOLEAN /\ full => headPos = tailPos
    /\ maxCap \in Nat

\* What the positions mean: the slots from the head on are all the slots, and
\* the tail is the first one after the elements.
Turned ==
    /\ Length \in 0..size /\ (Length = 0 <=> empty) /\ (Length = size <=> full)
    /\ Slot(0) = headPos
    /\ \A i \in 0..(size - 1) : Slot(i) \in 0..(size - 1)
    /\ \A i, j \in 0..(size - 1) : Slot(i) = Slot(j) => i = j
    /\ ~full => Slot(Length) = tailPos

LEMMA TurnedAlways == Types => Turned
  BY DEF Types, Turned, Length, Slot, empty

\* The elements as a sequence.
Listed ==
    /\ contents \in Seq(Elements) /\ Len(contents) = Length
    /\ \A i \in 1..Length : contents[i] = ring[Slot(i - 1)]

LEMMA ListedAlways == Types => Listed
<1> SUFFICES ASSUME Types PROVE Listed
  BY Zenon
<1>1. Turned
  BY TurnedAlways, Zenon
<1>2. Length \in Nat /\ \A i \in 1..Length : ring[Slot(i - 1)] \in Elements
  BY <1>1 DEF Types, Turned
<1> QED
  BY <1>2 DEF Listed, contents

LEMMA TurnedNext == Types' => Turned'
  BY TurnedAlways, PTL
LEMMA ListedNext == Types' => Listed'
  BY ListedAlways, PTL

LEMMA TypesInit == Init => Types /\ NothingKept
  BY RingBufferConstants DEF Init, Types, NothingKept, Elements, Slot

\* An element is put behind the others.
PutStep(v) == contents' = Append(contents, v)

LEMMA PushPut ==
    ASSUME Types, NothingKept, NEW v \in Values, Push(v), ~full
    PROVE  Types' /\ NothingKept' /\ PutStep(v) /\ result' = Answer(v)
<1>1. /\ ring' = [ring EXCEPT ![tailPos] = v] /\ tailPos' = Wrap(tailPos + 1)
      /\ (full' <=> tailPos' = headPos) /\ full' \in BOOLEAN /\ result' = Answer(v)
      /\ size' = size /\ headPos' = headPos /\ maxCap' = maxCap
  BY Zenon DEF Push
<1>2. tailPos' \in 0..(size - 1)
  BY <1>1 DEF Wrap, Types
<1>3. Types'
  BY <1>1, <1>2, Zenon DEF Types, Elements
<1>4. Turned /\ Turned' /\ Listed /\ Listed'
  BY <1>3, TurnedAlways, TurnedNext, ListedAlways, ListedNext, Zenon
<1>5. Length' = Length + 1
  <2>1. CASE tailPos + 1 = size
    BY <1>1, <2>1 DEF Types, Length, Wrap
  <2>2. CASE tailPos + 1 # size
    BY <1>1, <2>2 DEF Types, Length, Wrap
  <2> QED
    BY <2>1, <2>2, Zenon
<1>6. \A i \in 0..(size - 1) : Slot(i)' = Slot(i)
  BY <1>1, Zenon DEF Slot
<1>7. \A i \in 0..(size - 1) : ring'[Slot(i)] = IF i = Length THEN v ELSE ring[Slot(i)]
  <2> SUFFICES ASSUME NEW i \in 0..(size - 1)
               PROVE  ring'[Slot(i)] = IF i = Length THEN v ELSE ring[Slot(i)]
    BY Zenon
  <2>1. Slot(i) \in 0..(size - 1) /\ (Slot(i) = tailPos <=> i = Length)
    <3>1. Length \in 0..(size - 1) /\ Slot(Length) = tailPos
      BY <1>4 DEF Types, Turned
    <3> QED
      BY <1>4, <3>1, Zenon DEF Turned
  <2> QED
    BY <1>1, <2>1, Zenon DEF Types
<1>8. NothingKept'
  <2> SUFFICES ASSUME NEW i \in 0..(size - 1), i >= Length' PROVE ring'[Slot(i)'] = Nil
    BY <1>1, Zenon DEF NothingKept
  <2>1. i >= Length /\ i # Length
    BY <1>4, <1>5 DEF Turned, Types
  <2> QED
    BY <1>6, <1>7, <2>1, Zenon DEF NothingKept
<1>9. PutStep(v)
  <2>1. /\ Append(contents, v) \in Seq(Elements) /\ Len(Append(contents, v)) = Length + 1
        /\ \A i \in 1..Length : Append(contents, v)[i] = contents[i]
        /\ Append(contents, v)[Length + 1] = v
    <3>1. contents \in Seq(Elements) /\ Length = Len(contents) /\ v \in Elements
      BY <1>4, Zenon DEF Listed, Elements
    <3> QED
      BY <3>1
  <2>2. ASSUME NEW i \in 1..(Length + 1) PROVE contents'[i] = Append(contents, v)[i]
    <3>1. i - 1 \in 0..(size - 1) /\ i \in 1..Length'
      BY <1>4, <1>5 DEF Turned, Types
    <3>2. contents'[i] = ring'[Slot(i - 1)]
      BY <1>4, <1>6, <3>1, Zenon DEF Listed
    <3>3. CASE i = Length + 1
      <4>1. i - 1 = Length
        BY <1>4, <3>3 DEF Turned
      <4> QED
        BY <1>7, <2>1, <3>1, <3>2, <3>3, <4>1, Zenon
    <3>4. CASE i # Length + 1
      <4>1. i \in 1..Length /\ i - 1 # Length
        BY <1>4, <3>4 DEF Turned, Types
      <4> QED
        BY <1>4, <1>7, <2>1, <3>1, <3>2, <4>1, Zenon DEF Listed
    <3> QED
      BY <3>3, <3>4, Zenon
  <2> QED
    BY <1>4, <1>5, <2>1, <2>2, SameSequence, Zenon DEF Listed, PutStep
<1> QED
  BY <1>1, <1>3, <1>8, <1>9, Zenon

\* The same when the ring is full and grows.
LEMMA PushGrow ==
    ASSUME Types, NothingKept, NEW v \in Values, Push(v), full, CanGrow
    PROVE  Types' /\ NothingKept' /\ PutStep(v) /\ result' = Answer(v)
<1>1. /\ size' = 2 * size /\ headPos' = 0 /\ maxCap' = maxCap
      /\ ring' = [i \in 0..(2 * size - 1) |-> IF i = size THEN v ELSE Grown(i)]
      /\ tailPos' = IF size + 1 = 2 * size THEN 0 ELSE size + 1
      /\ (full' <=> tailPos' = 0) /\ full' \in BOOLEAN /\ result' = Answer(v)
  BY Zenon DEF Push
<1>2. Turned /\ Listed /\ Length = size
  BY TurnedAlways, ListedAlways, Zenon DEF Length
<1>3. \A i \in 0..(2 * size - 1) : Grown(i) \in Elements
  BY <1>2 DEF Grown, Types, Turned, Elements
<1>4. ring' \in [0..(size' - 1) -> Elements]
  BY <1>1, <1>3, Zenon DEF Elements
<1>5. Types'
  <2>1. size' \in Nat \ {0} /\ headPos' \in 0..(size' - 1) /\ tailPos' \in 0..(size' - 1)
    BY <1>1 DEF Types
  <2> QED
    BY <1>1, <1>4, <2>1, Zenon DEF Types
<1>6. Turned' /\ Listed'
  BY <1>5, TurnedNext, ListedNext, Zenon
<1>7. Length' = size + 1
  <2>1. CASE size = 1
    BY <1>1, <2>1 DEF Length, Types
  <2>2. CASE size # 1
    BY <1>1, <2>2 DEF Length, Types
  <2> QED
    BY <2>1, <2>2, Zenon
<1>8. \A i \in 0..(2 * size - 1) : Slot(i)' = i
  BY <1>1 DEF Slot, Types
<1>9. NothingKept'
  <2> SUFFICES ASSUME NEW i \in 0..(size' - 1), i >= Length' PROVE ring'[Slot(i)'] = Nil
    BY Zenon DEF NothingKept
  <2> QED
    BY <1>1, <1>7, <1>8 DEF Grown, Types
<1>10. PutStep(v)
  <2>1. /\ Append(contents, v) \in Seq(Elements) /\ Len(Append(contents, v)) = size + 1
        /\ \A i \in 1..size : Append(contents, v)[i] = contents[i]
        /\ Append(contents, v)[size + 1] = v
    <3>1. contents \in Seq(Elements) /\ size = Len(contents) /\ v \in Elements
      BY <1>2, Zenon DEF Listed, Elements
    <3> QED
      BY <3>1
  <2>2. ASSUME NEW i \in 1..(size + 1) PROVE contents'[i] = Append(contents, v)[i]
    <3>1. i - 1 \in 0..(2 * size - 1) /\ i \in 1..Length'
      BY <1>7 DEF Types
    <3>2. contents'[i] = ring'[i - 1]
      BY <1>6, <1>8, <3>1, Zenon DEF Listed
    <3>3. CASE i = size + 1
      BY <1>1, <2>1, <3>1, <3>2, <3>3 DEF Types
    <3>4. CASE i # size + 1
      <4>1. i \in 1..size /\ i - 1 < size /\ i - 1 # size
        BY <3>4 DEF Types
      <4> QED
        BY <1>1, <1>2, <2>1, <3>1, <3>2, <4>1, Zenon DEF Listed, Grown
    <3> QED
      BY <3>3, <3>4, Zenon
  <2> QED
    BY <1>6, <1>7, <2>1, <2>2, SameSequence, Zenon DEF Listed, PutStep
<1> QED
  BY <1>1, <1>5, <1>9, <1>10, Zenon

\* The first element is taken away.
LEMMA PopGet ==
    ASSUME Types, NothingKept, Pop, ~empty
    PROVE  /\ Types' /\ NothingKept' /\ contents # <<>>
           /\ contents' = Tail(contents) /\ result' = Answer(Head(contents))
           /\ maxCap' = maxCap
<1>1. /\ ring' = [ring EXCEPT ![headPos] = Nil] /\ headPos' = Wrap(headPos + 1)
      /\ ~full' /\ full' \in BOOLEAN /\ result' = Answer(ring[headPos])
      /\ size' = size /\ tailPos' = tailPos /\ maxCap' = maxCap
  BY Zenon DEF Pop, Popping
<1>2. headPos' \in 0..(size - 1)
  BY <1>1 DEF Wrap, Types
<1>3. Types'
  BY <1>1, <1>2, Zenon DEF Types, Elements
<1>4. Turned /\ Turned' /\ Listed /\ Listed'
  BY <1>3, TurnedAlways, TurnedNext, ListedAlways, ListedNext, Zenon
<1>5. Length' = Length - 1 /\ Length \in Nat \ {0}
  <2>1. Length \in Nat \ {0}
    BY <1>4 DEF Turned
  <2>2. Length' = IF tailPos >= headPos' THEN tailPos - headPos' ELSE tailPos + size - headPos'
    BY <1>1, Zenon DEF Length
  <2>3. CASE full
    BY <1>1, <2>2, <2>3 DEF Types, Length, Wrap
  <2>4. CASE ~full
    <3>1. tailPos # headPos
      BY <2>4, Zenon DEF empty
    <3> QED
      BY <1>1, <2>2, <2>4, <3>1 DEF Types, Length, Wrap
  <2> QED
    BY <2>1, <2>3, <2>4, Zenon
<1>6. \A i \in 0..(size - 2) : Slot(i)' = Slot(i + 1)
  BY <1>1 DEF Slot, Wrap, Types
<1>7. Slot(size - 1)' = headPos
  BY <1>1 DEF Slot, Wrap, Types
<1>8. \A i \in 1..(size - 1) : ring'[Slot(i)] = ring[Slot(i)]
  BY <1>1, <1>4 DEF Types, Turned
<1>9. NothingKept'
  <2> SUFFICES ASSUME NEW i \in 0..(size - 1), i >= Length' PROVE ring'[Slot(i)'] = Nil
    BY <1>1, Zenon DEF NothingKept
  <2>1. CASE i = size - 1
    BY <1>1, <1>7, <2>1, Zenon DEF Types
  <2>2. CASE i # size - 1
    <3>1. i \in 0..(size - 2) /\ i + 1 \in 1..(size - 1) /\ i + 1 >= Length
      BY <1>5, <2>2 DEF Types
    <3> QED
      BY <1>6, <1>8, <3>1 DEF NothingKept
  <2> QED
    BY <2>1, <2>2, Zenon
<1>10. contents # <<>> /\ Head(contents) = ring[headPos]
  BY <1>4, <1>5 DEF Listed, Turned
<1>11. contents' = Tail(contents)
  <2>1. /\ Tail(contents) \in Seq(Elements) /\ Len(Tail(contents)) = Length - 1
        /\ \A i \in 1..(Length - 1) : Tail(contents)[i] = contents[i + 1]
    BY <1>4, <1>10, Tailed DEF Listed
  <2>2. ASSUME NEW i \in 1..(Length - 1) PROVE contents'[i] = Tail(contents)[i]
    <3>1. i - 1 \in 0..(size - 2) /\ i \in 1..(size - 1) /\ i \in 1..Length' /\ i + 1 \in 1..Length
      BY <1>4, <1>5 DEF Turned, Types
    <3>2. contents'[i] = ring'[Slot(i)]
      BY <1>4, <1>6, <3>1 DEF Listed
    <3>3. contents[i + 1] = ring[Slot((i + 1) - 1)] /\ (i + 1) - 1 = i
      BY <1>4, <3>1 DEF Listed
    <3> QED
      BY <1>8, <2>1, <3>1, <3>2, <3>3, Zenon
  <2> QED
    BY <1>4, <1>5, <2>1, <2>2, SameSequence, Zenon DEF Listed
<1> QED
  BY <1>1, <1>3, <1>9, <1>10, <1>11, Zenon

LEMMA Step ==
    ASSUME Types, NothingKept, [Next]_vars
    PROVE  Types' /\ NothingKept' /\ [Fifo!Next]_(Fifo!vars)
<1> USE RingBufferConstants
<1>1. ASSUME UNCHANGED <<ring, size, headPos, tailPos, full>>, maxCap' \in Nat
      PROVE  Types' /\ NothingKept' /\ contents' = contents
  BY <1>1, Zenon DEF Types, NothingKept, contents, Slot, Length
<1>2. Listed /\ Turned
  BY ListedAlways, TurnedAlways, Zenon
<1>3. contents = <<>> <=> empty
  BY <1>2 DEF Listed, Turned
<1>4. ~empty => Head(contents) = ring[headPos]
  BY <1>2, <1>3 DEF Listed, Turned
<1>5. ASSUME NEW v \in Values, Push(v) PROVE Types' /\ NothingKept' /\ Fifo!Next
  <2>0. maxCap' = maxCap
    BY <1>5, Zenon DEF Push
  <2>1. CASE ~full \/ CanGrow
    <3>1. Types' /\ NothingKept' /\ PutStep(v) /\ result' = Answer(v)
      BY <1>5, <2>1, PushPut, PushGrow, Zenon
    <3>2. Fifo!Put(v)
      BY <2>0, <3>1, Zenon DEF Fifo!Put, PutStep, Answer, Fifo!Answer
    <3> QED
      BY <3>1, <3>2, Zenon DEF Fifo!Next
  <2>2. CASE full /\ ~CanGrow
    <3>1. UNCHANGED <<ring, size, headPos, tailPos, full>> /\ result' = Refusal
      BY <1>5, <2>2, Zenon DEF Push
    <3>2. Types' /\ NothingKept' /\ contents' = contents
      BY <1>1, <2>0, <3>1, Zenon DEF Types
    <3>3. Len(contents) >= maxCap
      BY <1>2, <2>2 DEF Listed, Turned, CanGrow, Types
    <3>4. Fifo!Refuse
      BY <2>0, <3>1, <3>2, <3>3, Zenon DEF Fifo!Refuse, Refusal, Fifo!Refusal
    <3> QED
      BY <3>2, <3>4, Zenon DEF Fifo!Next
  <2> QED
    BY <2>1, <2>2, Zenon
<1>6. CASE Pop
  <2>1. CASE empty
    <3>1. UNCHANGED <<ring, size, headPos, tailPos, full, maxCap>> /\ result' = Refusal
      BY <1>6, <2>1, Zenon DEF Pop, Popping
    <3>2. Types' /\ NothingKept' /\ contents' = contents
      BY <1>1, <3>1, Zenon DEF Types
    <3>3. Fifo!GetNothing
      BY <1>3, <2>1, <3>1, <3>2, Zenon DEF Fifo!GetNothing, Refusal, Fifo!Refusal
    <3> QED
      BY <3>2, <3>3, Zenon DEF Fifo!Next
  <2>2. CASE ~empty
    <3>1. Fifo!Get
      BY <1>6, <2>2, PopGet, Zenon DEF Fifo!Get, Answer, Fifo!Answer
    <3> QED
      BY <1>6, <2>2, <3>1, PopGet, Zenon DEF Fifo!Next
  <2> QED
    BY <2>1, <2>2, Zenon
<1>7. CASE Peek
  <2>1. /\ UNCHANGED <<ring, size, headPos, tailPos, full, maxCap>>
        /\ result' = IF empty THEN Refusal ELSE Answer(ring[headPos])
    BY <1>7, Zenon DEF Peek
  <2>2. Types' /\ NothingKept' /\ contents' = contents
    BY <1>1, <2>1, Zenon DEF Types
  <2>3. Fifo!Look \/ Fifo!GetNothing
    BY <1>3, <1>4, <2>1, <2>2, Zenon DEF Fifo!Look, Fifo!GetNothing, Refusal, Fifo!Refusal, Answer,
       Fifo!Answer
  <2> QED
    BY <2>2, <2>3, Zenon DEF Fifo!Next
<1>8. CASE Clear
  <2>1. Types' /\ NothingKept'
    BY <1>8 DEF Clear, Types, NothingKept, Elements, Slot
  <2>2. contents' = <<>>
    <3>1. Listed' /\ Length' = 0
      BY <1>8, <2>1, ListedNext DEF Clear, Length
    <3> QED
      BY <3>1 DEF Listed
  <2>3. Fifo!Drop
    BY <1>8, <2>2, Zenon DEF Clear, Fifo!Drop
  <2> QED
    BY <2>1, <2>3, Zenon DEF Fifo!Next
<1>9. CASE Configure
  <2>1. UNCHANGED <<ring, size, headPos, tailPos, full>> /\ maxCap' \in Nat /\ result' = result
    BY <1>9, Zenon DEF Configure
  <2>2. Types' /\ NothingKept' /\ contents' = contents
    BY <1>1, <2>1, Zenon
  <2>3. Fifo!Configure
    BY <2>1, <2>2, Zenon DEF Fifo!Configure
  <2> QED
    BY <2>2, <2>3, Zenon DEF Fifo!Next
<1>10. CASE UNCHANGED vars
  <2>1. Types' /\ NothingKept' /\ contents' = contents
    BY <1>1, <1>10, Zenon DEF vars, Types
  <2> QED
    BY <1>10, <2>1, Zenon DEF vars, Fifo!vars
<1> QED
  BY <1>5, <1>6, <1>7, <1>8, <1>9, <1>10, Zenon DEF Next

\* The ring buffer is a bounded first-in first-out queue that keeps nothing it
\* has given out, also when it grows after it has wrapped around and when the
\* limit is lowered below what it holds (ringbuffer.go).
THEOREM RingIsFifo == Spec => IsFifo
<1>1. Init => Types /\ NothingKept
  BY TypesInit, Zenon
<1>2. Init => Fifo!Init
  <2> SUFFICES ASSUME Init PROVE Fifo!Init
    OBVIOUS
  <2>1. Listed /\ Length = 0
    BY TypesInit, ListedAlways DEF Init, Length
  <2> QED
    BY <2>1, RingBufferConstants DEF Init, Fifo!Init, Listed, Refusal, Fifo!Refusal
<1>3. Types /\ NothingKept /\ [Next]_vars => (Types /\ NothingKept)' /\ [Fifo!Next]_(Fifo!vars)
  BY Step, Zenon
<1> QED
  BY <1>1, <1>2, <1>3, PTL DEF Spec, Fifo!Spec, IsFifo
=============================================================================
