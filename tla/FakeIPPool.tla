----------------------------- MODULE FakeIPPool -----------------------------
(***************************************************************************)
(* The persistent pool of fake addresses: pkg/net/dns/fakeip/sqlite.go.    *)
(*                                                                         *)
(* A domain is answered with an address of a reserved range, and traffic   *)
(* to that address is taken back to the domain.  The table fakeip_entries  *)
(* and the cursor are durable; the cursor in memory, the mutex and the     *)
(* pending touches are not.  Calls may overlap, a transaction may fail,    *)
(* and the program may crash or be closed and started again.               *)
(***************************************************************************)
EXTENDS Naturals, FiniteSets

CONSTANTS
    Domains, Callers, None,
    PrefixSize,     \* addresses in the range, numbered from 0
    MaxNum,         \* maxNum, at most PrefixSize
    TouchInterval,  \* sqliteFakeIPTouchInterval
    MaxTime         \* bound: the clock

ASSUME FakeIPConstants ==
    /\ MaxNum \in Nat \ {0} /\ PrefixSize \in Nat /\ MaxNum <= PrefixSize
    /\ TouchInterval \in Nat /\ MaxTime \in Nat
    /\ None \notin Domains \cup Callers \cup Nat \cup [ip : Nat, used : Nat]

Ips == 0 .. PrefixSize - 1
Times == 0 .. MaxTime
NoDomains == [d \in Domains |-> None]
NoIps == [i \in Ips |-> None]

VARIABLES
    entries,  \* fakeip_entries: domain -> [ip, used] or None
    saved,    \* fakeip_cursors
    cursor,   \* current and index; next is the address after current
    mu,       \* p.mu: its holder or None
    caller,   \* caller -> [pc, domain] of GetFakeIPForDomain
    touched,  \* touchDomains and touchIPs
    worker,   \* the touch worker: control state and the maps it took
    clock,
    misread   \* history: a failed SELECT was taken for "no row"

vars == <<entries, saved, cursor, mu, caller, touched, worker, clock, misread>>
db == <<entries, saved>>

NoTouches == [domains |-> NoDomains, ips |-> NoIps]
Parked == [pc |-> "tick", took |-> NoTouches]
Resting == [pc |-> "idle", domain |-> None]
Start == [next |-> 0, index |-> 0]

Init ==
    /\ entries = NoDomains /\ saved = None
    /\ cursor = Start /\ mu = None
    /\ caller = [c \in Callers |-> Resting]
    /\ touched = NoTouches /\ worker = Parked /\ clock = 0
    /\ misread = FALSE

Known == {d \in Domains : entries[d] # None}
Owner(i) == {d \in Known : entries[d].ip = i}

-----------------------------------------------------------------------------
(* Lookups. *)

shouldTouch(d) == clock - entries[d].used >= TouchInterval

touchDomain(d) ==
    touched' = IF shouldTouch(d)
               THEN [touched EXCEPT !.domains[d] = clock] ELSE touched

Go(c, pc, d) == caller' = [caller EXCEPT ![c] = [pc |-> pc, domain |-> d]]

\* GetFakeIPForDomain: the lookup without the lock
Hit(c, d) ==
    /\ caller[c].pc = "idle" /\ worker.pc # "closed" /\ d \in Known
    /\ touchDomain(d)
    /\ UNCHANGED <<db, cursor, mu, caller, worker, clock, misread>>
\* no row, or the SELECT fails; both end in the second lookup
Miss(c, d) ==
    /\ caller[c].pc = "idle" /\ worker.pc # "closed"
    /\ Go(c, "lock", d)
    /\ UNCHANGED <<db, cursor, mu, touched, worker, clock, misread>>

Locking(c, found, failed) ==
    /\ caller[c].pc = "lock" /\ mu = None
    /\ LET d == caller[c].domain IN
         \/ /\ found /\ d \in Known
            /\ touchDomain(d) /\ Go(c, "idle", None) /\ UNCHANGED <<mu, misread>>
         \/ /\ ~ found /\ mu' = c /\ Go(c, "allocate", d) /\ UNCHANGED touched
            /\ misread' = (misread \/ failed)
    /\ UNCHANGED <<db, cursor, worker, clock>>

\* mutant: no second lookup under the lock
LockBlind(c) == Locking(c, FALSE, FALSE)

\* mu.Lock and the second lookup, which may fail as well
Lock(c) ==
    \E found \in BOOLEAN : Locking(c, found, caller[c].domain \in Known)

\* GetDomainFromIP: a row touches its address
GetDomainFromIP(i) ==
    /\ worker.pc # "closed"
    /\ \E d \in Owner(i) :
         /\ shouldTouch(d)
         /\ touched' = [touched EXCEPT !.ips[i] = clock]
    /\ UNCHANGED <<db, cursor, mu, caller, worker, clock, misread>>

-----------------------------------------------------------------------------
(* Allocation, one transaction under the lock. *)

\* mutant: the range is left one address too late
rotateNextLong(cur) ==
    IF cur.next \notin Ips \/ cur.index > MaxNum
    THEN [next |-> 1, index |-> 1]
    ELSE [next |-> cur.next + 1, index |-> cur.index + 1]

\* the address returned is next - 1 of the result
rotateNext(cur) ==
    IF cur.next \notin Ips \/ cur.index + 1 > MaxNum
    THEN [next |-> 1, index |-> 1]
    ELSE [next |-> cur.next + 1, index |-> cur.index + 1]

Rotated ==
    LET turn[k \in 0 .. MaxNum] ==
            IF k = 0 THEN cursor ELSE rotateNext(turn[k - 1])
    IN  turn
Address(cur) == cur.next - 1
Free(k) == Owner(Address(Rotated[k])) = {}

\* The turns after which nextAvailable may stop: the first free address, or
\* one before it whose SELECT fails.
Stops == {k \in 1 .. MaxNum : \A j \in 1 .. k - 1 : ~ Free(j)}
NoneFree == \A k \in 1 .. MaxNum : ~ Free(k)

LeastUsed == {d \in Known : \A e \in Known : entries[d].used <= entries[e].used}

Storing(d, i, gone) ==
    entries' = [e \in Domains |->
                  IF e = d THEN [ip |-> i, used |-> clock]
                  ELSE IF e \in gone THEN None ELSE entries[e]]

\* storeEntry: the rows of other domains with the address are deleted
storeEntry(d, i, gone) == Storing(d, i, gone \cup Owner(i))

\* What a transaction stores: the cursor, the address, the row evicted for it.
Evictions(moved) ==
    {[cursor |-> moved, ip |-> entries[v].ip, gone |-> {v}] : v \in LeastUsed}
Choices(full) ==
    IF full THEN Evictions(cursor)
    ELSE {[cursor |-> Rotated[k], ip |-> Address(Rotated[k]), gone |-> {}] :
            k \in Stops}
         \cup IF NoneFree THEN Evictions(Rotated[MaxNum]) ELSE {}

Allocating(c, full) ==
    /\ caller[c].pc = "allocate"
    /\ \/ \E choice \in Choices(full) :
            /\ cursor' = choice.cursor
            /\ misread' = (misread \/ Owner(choice.ip) # choice.gone)
            /\ \/ /\ storeEntry(caller[c].domain, choice.ip, choice.gone)
                  /\ saved' = choice.cursor
               \/ UNCHANGED db      \* a statement or the commit fails
       \/ UNCHANGED <<cursor, db, misread>>  \* BeginTx or entryCount fails
    /\ mu' = None /\ Go(c, "idle", None)
    /\ UNCHANGED <<touched, worker, clock>>

Allocate(c) == Allocating(c, Cardinality(Known) >= MaxNum)

-----------------------------------------------------------------------------
(* The touch worker, Close, crashes. *)

TakeTouches(next) ==
    /\ worker' = [pc |-> next, took |-> touched] /\ touched' = NoTouches
    /\ UNCHANGED <<db, cursor, mu, caller, clock, misread>>

\* flushTouches: the maps are swapped under touchMu
FlushBegin == worker.pc = "tick" /\ touched # NoTouches /\ TakeTouches("flush")
\* Close: the worker flushes a last time
CloseBegin == worker.pc = "tick" /\ TakeTouches("last")

Stamp(d) ==
    LET byIp == worker.took.ips[entries[d].ip]
        byDomain == worker.took.domains[d]
    IN  IF byIp # None THEN byIp
        ELSE IF byDomain # None THEN byDomain ELSE entries[d].used

\* the updates of the domains, then of the addresses, in one transaction
Updated == [d \in Domains |->
              IF d \in Known THEN [entries[d] EXCEPT !.used = Stamp(d)]
                             ELSE None]

FlushCommit ==
    /\ worker.pc \in {"flush", "last"}
    /\ entries' = Updated \/ UNCHANGED entries
    /\ worker' = [pc |-> IF worker.pc = "last" THEN "closed" ELSE "tick",
                  took |-> NoTouches]
    /\ UNCHANGED <<saved, cursor, mu, caller, touched, clock, misread>>

\* A crash, or a start after Close: loadCursor
Restart ==
    /\ cursor' = IF saved = None THEN Start ELSE saved
    /\ mu' = None /\ caller' = [c \in Callers |-> Resting]
    /\ touched' = NoTouches /\ worker' = Parked
    /\ UNCHANGED <<db, clock, misread>>

Tick ==
    /\ clock < MaxTime /\ clock' = clock + 1
    /\ UNCHANGED <<db, cursor, mu, caller, touched, worker, misread>>

Next ==
    \/ \E c \in Callers :
         (\E d \in Domains : Hit(c, d) \/ Miss(c, d)) \/ Lock(c) \/ Allocate(c)
    \/ \E i \in Ips : GetDomainFromIP(i)
    \/ FlushBegin \/ CloseBegin \/ FlushCommit \/ Restart \/ Tick

Spec == Init /\ [][Next]_vars

-----------------------------------------------------------------------------
(* Properties. *)

\* No two domains have one address, so that the traffic to it is taken back to
\* one domain, also when a failed SELECT makes a used address look free: the
\* table's UNIQUE constraint never has to refuse a row of storeEntry.  And
\* every address lies in the first MaxNum of the range, whatever the cursor
\* went through, which bounds the table.
OneDomainPerAddress ==
    \A i \in Ips : Cardinality(Owner(i)) <= (IF i < MaxNum THEN 1 ELSE 0)

\* While the pool has room, no domain loses its address or gets another one:
\* neither overlapping calls for the same domain, nor a cursor that moved with
\* a transaction that failed, nor one that a restart took back lead to a
\* domain being evicted.  (Until a failed SELECT is taken for a missing row.)
KeptWhileRoom ==
    [][Cardinality(Known) < MaxNum /\ ~ misread' =>
         \A d \in Known : entries'[d] # None /\ entries'[d].ip = entries[d].ip]_vars
=============================================================================
