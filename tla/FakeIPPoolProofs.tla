-------------------------- MODULE FakeIPPoolProofs --------------------------
(***************************************************************************)
(* Proofs about FakeIPPool, for any pool.  The cursor is a number up to    *)
(* MaxNum (next and index agree), MaxNum turns of it come to every address *)
(* of the pool, and no two rows have one address.                          *)
(***************************************************************************)
EXTENDS FakeIPPool, FiniteSetTheorems, FunctionTheorems, WellFoundedInduction, TLAPS

USE SMTT(30)

LEMMA NatMin ==
    ASSUME NEW T \in SUBSET Nat, T # {}
    PROVE  \E x \in T : \A y \in T : x <= y
<1>1. PICK x \in T : \A y \in T : ~(<<y, x>> \in OpToRel(<, Nat))
  BY NatLessThanWellFounded, WFMin, Zenon
<1>2. \A y \in T : <<y, x>> \in Nat \X Nat /\ <<y, x>>[1] = y /\ <<y, x>>[2] = x
  OBVIOUS
<1>3. ASSUME NEW y \in T, y < x
      PROVE  FALSE
  <2>1. <<y, x>> \in {ss \in Nat \X Nat : ss[1] < ss[2]}
    BY <1>2, <1>3
  <2> QED
    BY <1>1, <2>1, Zenon DEF OpToRel
<1> QED
  BY <1>3

LEMMA NatSetInduction ==
    ASSUME NEW T \in SUBSET Nat, 0 \in T, \A n \in T : n + 1 \in T
    PROVE  T = Nat
<1> DEFINE U == Nat \ T
<1> SUFFICES ASSUME U # {} PROVE FALSE
  BY Zenon
<1>0. U \in SUBSET Nat
  BY Zenon
<1>1. PICK x \in U : \A y \in U : x <= y
  BY <1>0, NatMin, Zenon
<1>2. x # 0 /\ x - 1 \in Nat /\ ~(x <= x - 1)
  BY <1>1
<1>3. x - 1 \in T
  BY <1>1, <1>2
<1>4. (x - 1) + 1 = x
  BY <1>1
<1> QED
  BY <1>1, <1>3, <1>4
-----------------------------------------------------------------------------
(* The cursor. *)

At(n) == [next |-> n, index |-> n]
Cursor == {At(n) : n \in 0 .. MaxNum}

\* n after k turns
Turn(n, k) == IF n + k <= MaxNum THEN n + k ELSE n + k - MaxNum

LEMMA RotateAt ==
    ASSUME NEW n \in 0 .. MaxNum
    PROVE  rotateNext(At(n)) = At(IF n + 1 > MaxNum THEN 1 ELSE n + 1)
  BY FakeIPConstants DEF rotateNext, At, Ips

LEMMA TurnStep ==
    ASSUME NEW n \in 0 .. MaxNum, NEW k \in 1 .. MaxNum
    PROVE  /\ Turn(n, k - 1) \in 0 .. MaxNum /\ Turn(n, 0) = n
           /\ rotateNext(At(Turn(n, k - 1))) = At(Turn(n, k))
<1>1. Turn(n, k - 1) \in 0 .. MaxNum /\ Turn(n, 0) = n
  BY FakeIPConstants DEF Turn
<1>2. Turn(n, k) = IF Turn(n, k - 1) + 1 > MaxNum THEN 1 ELSE Turn(n, k - 1) + 1
  BY FakeIPConstants DEF Turn
<1> QED
  BY <1>1, <1>2, RotateAt

\* What Rotated is the CHOOSE of, and what it is.
Turns(f) == f = [k \in 0 .. MaxNum |-> IF k = 0 THEN cursor ELSE rotateNext(f[k - 1])]

LEMMA RotatedIs ==
    ASSUME NEW n \in 0 .. MaxNum, cursor = At(n)
    PROVE  \A k \in 0 .. MaxNum : Rotated[k] = At(Turn(n, k))
<1> DEFINE g == [k \in 0 .. MaxNum |-> At(Turn(n, k))]
<1>1. Turns(g)
  <2>1. \A k \in 0 .. MaxNum : At(Turn(n, k)) = IF k = 0 THEN cursor ELSE rotateNext(g[k - 1])
    <3>1. CASE MaxNum = 0
      BY <3>1, FakeIPConstants
    <3>2. ASSUME NEW k \in 1 .. MaxNum
          PROVE  g[k - 1] = At(Turn(n, k - 1)) /\ k # 0
      BY FakeIPConstants
    <3>3. \A k \in 0 .. MaxNum : k = 0 \/ k \in 1 .. MaxNum
      BY FakeIPConstants
    <3>4. At(Turn(n, 0)) = cursor
      BY FakeIPConstants DEF Turn
    <3> HIDE DEF g
    <3> QED
      BY <3>2, <3>3, <3>4, TurnStep, Zenon
  <2> QED
    BY <2>1, Zenon DEF Turns
<1>2. Rotated = CHOOSE f : Turns(f)
  BY DEF Rotated, Turns
<1>3. Turns(Rotated)
  BY <1>1, <1>2, Zenon
<1>4. /\ Rotated[0] = cursor
      /\ \A k \in 1 .. MaxNum : Rotated[k] = rotateNext(Rotated[k - 1])
  <2>1. \A k \in 0 .. MaxNum : Rotated[k] = IF k = 0 THEN cursor ELSE rotateNext(Rotated[k - 1])
    BY <1>3, Zenon DEF Turns
  <2>2. 0 \in 0 .. MaxNum /\ \A k \in 1 .. MaxNum : k \in 0 .. MaxNum /\ k # 0
    BY FakeIPConstants
  <2> QED
    BY <2>1, <2>2, Zenon
<1> DEFINE T == {k \in Nat : k <= MaxNum => Rotated[k] = At(Turn(n, k))}
<1>5. 0 \in T
  BY <1>4, FakeIPConstants DEF Turn
<1>6. ASSUME NEW k \in T
      PROVE  k + 1 \in T
  <2>1. CASE k + 1 <= MaxNum
    <3>1. k + 1 \in 1 .. MaxNum /\ (k + 1) - 1 = k /\ k <= MaxNum
      BY <2>1, FakeIPConstants
    <3>2. Rotated[k + 1] = rotateNext(At(Turn(n, k)))
      BY <1>4, <3>1
    <3>3. rotateNext(At(Turn(n, (k + 1) - 1))) = At(Turn(n, k + 1))
      BY <3>1, TurnStep, Zenon
    <3> QED
      BY <3>1, <3>2, <3>3
  <2>2. CASE ~(k + 1 <= MaxNum)
    BY <2>2
  <2> QED
    BY <2>1, <2>2
<1>7. T \in SUBSET Nat
  BY Zenon
<1>8. T = Nat
  <2> HIDE DEF T
  <2> QED
    BY <1>5, <1>6, <1>7, NatSetInduction, Zenon
<1>9. \A k \in 0 .. MaxNum : k \in Nat /\ k <= MaxNum
  BY FakeIPConstants
<1> QED
  BY <1>8, <1>9, Zenon

LEMMA RotatedInPool ==
    ASSUME cursor \in Cursor, NEW k \in 1 .. MaxNum
    PROVE  Rotated[k] \in Cursor /\ Address(Rotated[k]) \in 0 .. MaxNum - 1
<1>1. PICK n \in 0 .. MaxNum : cursor = At(n)
  BY Zenon DEF Cursor
<1>2. k \in 0 .. MaxNum /\ Turn(n, k) \in 0 .. MaxNum /\ Turn(n, k) - 1 \in 0 .. MaxNum - 1
  BY FakeIPConstants DEF Turn
<1>3. Rotated[k] = At(Turn(n, k))
  BY <1>1, <1>2, RotatedIs, Zenon
<1>4. At(Turn(n, k)).next = Turn(n, k)
  BY Zenon DEF At
<1> QED
  BY <1>2, <1>3, <1>4, Zenon DEF Address, Cursor

LEMMA RotatedAll ==
    ASSUME cursor \in Cursor, NEW a \in 0 .. MaxNum - 1
    PROVE  \E k \in 1 .. MaxNum : Address(Rotated[k]) = a
<1>1. PICK n \in 0 .. MaxNum : cursor = At(n)
  BY Zenon DEF Cursor
<1>2. PICK k \in 1 .. MaxNum : Turn(n, k) = a + 1
  <2>1. CASE a + 1 > n
    <3>1. a + 1 - n \in 1 .. MaxNum /\ Turn(n, a + 1 - n) = a + 1
      BY <2>1, FakeIPConstants DEF Turn
    <3> QED
      BY <3>1
  <2>2. CASE ~(a + 1 > n)
    <3>1. a + 1 - n + MaxNum \in 1 .. MaxNum /\ Turn(n, a + 1 - n + MaxNum) = a + 1
      BY <2>2, FakeIPConstants DEF Turn
    <3> QED
      BY <3>1
  <2> QED
    BY <2>1, <2>2
<1>3. k \in 0 .. MaxNum
  BY FakeIPConstants
<1>4. Rotated[k] = At(a + 1)
  BY <1>1, <1>2, <1>3, RotatedIs, Zenon
<1>5. At(a + 1).next - 1 = a
  BY DEF At
<1> QED
  BY <1>4, <1>5, Zenon DEF Address
-----------------------------------------------------------------------------
(* The invariant. *)

Pool == 0 .. MaxNum - 1
Row == [ip : Pool, used : Nat]
Touches == [domains : [Domains -> Nat \cup {None}], ips : [Ips -> Nat \cup {None}]]

Types ==
    /\ entries \in [Domains -> Row \cup {None}]
    /\ cursor \in Cursor /\ saved \in Cursor \cup {None}
    /\ caller \in [Callers -> [pc : {"idle", "lock", "allocate"}, domain : Domains \cup {None}]]
    /\ touched \in Touches
    /\ worker \in [pc : {"tick", "flush", "last", "closed"}, took : Touches]
    /\ clock \in Nat /\ misread \in BOOLEAN

Unique ==
    \A d, e \in Domains :
        entries[d] # None /\ entries[e] # None /\ entries[d].ip = entries[e].ip => d = e

\* One call allocates at a time, for a domain that has no row.
Alone ==
    \A c \in Callers : /\ caller[c].pc = "allocate" => mu = c
                       /\ caller[c].pc # "idle" => caller[c].domain \in Domains
                       /\ caller[c].pc = "allocate" /\ ~misread =>
                            entries[caller[c].domain] = None

Inv == Types /\ Unique /\ Alone

LEMMA Rows ==
    /\ None \notin Row /\ None \notin Domains /\ None \notin Callers /\ None \notin Nat
    /\ Pool \subseteq Ips
<1>1. Row \subseteq [ip : Nat, used : Nat] /\ Pool \subseteq Ips
  BY FakeIPConstants DEF Row, Pool, Ips
<1> QED
  BY <1>1, FakeIPConstants, Zenon

LEMMA RowFields ==
    ASSUME Types, NEW d \in Domains, entries[d] # None
    PROVE  entries[d] \in Row /\ entries[d].ip \in Pool /\ entries[d].used \in Nat
<1>1. entries[d] \in Row
  BY Zenon DEF Types
<1> QED
  BY <1>1, Zenon DEF Row

LEMMA NoTouchesType == NoTouches \in Touches
<1>1. NoDomains \in [Domains -> Nat \cup {None}] /\ NoIps \in [Ips -> Nat \cup {None}]
  BY Zenon DEF NoDomains, NoIps
<1> QED
  BY <1>1, Zenon DEF NoTouches, Touches

LEMMA InitInv == Init => Inv
<1> SUFFICES ASSUME Init PROVE Inv
  OBVIOUS
<1>1. Start \in Cursor
  <2>1. 0 \in 0 .. MaxNum
    BY FakeIPConstants
  <2> QED
    BY <2>1, Zenon DEF Start, Cursor, At
<1>2. \A d \in Domains : entries[d] = None
  BY Zenon DEF Init, NoDomains
<1>3. Types
  <2>1. entries \in [Domains -> Row \cup {None}]
    BY Zenon DEF Init, NoDomains
  <2>2. caller \in [Callers -> [pc : {"idle", "lock", "allocate"}, domain : Domains \cup {None}]]
    BY Zenon DEF Init, Resting
  <2>3. worker \in [pc : {"tick", "flush", "last", "closed"}, took : Touches]
    BY NoTouchesType, Zenon DEF Init, Parked
  <2>4. clock \in Nat
    BY DEF Init
  <2> QED
    BY <1>1, <2>1, <2>2, <2>3, <2>4, NoTouchesType, Zenon DEF Init, Types
<1>4. \A c \in Callers : caller[c].pc = "idle"
  BY Zenon DEF Init, Resting
<1> QED
  BY <1>2, <1>3, <1>4, Zenon DEF Inv, Unique, Alone

\* The rows stay, and so do the calls.
LEMMA CallSame ==
    ASSUME Inv, UNCHANGED <<entries, saved, cursor, mu, caller, misread>>,
           touched' \in Touches, clock' \in Nat,
           worker' \in [pc : {"tick", "flush", "last", "closed"}, took : Touches]
    PROVE  Inv'
  BY Zenon DEF Inv, Types, Unique, Alone

LEMMA TouchType ==
    ASSUME Types, NEW d \in Domains, touchDomain(d)
    PROVE  touched' \in Touches
<1>1. /\ touched.domains \in [Domains -> Nat \cup {None}]
      /\ touched.ips \in [Ips -> Nat \cup {None}] /\ clock \in Nat /\ touched \in Touches
  BY Zenon DEF Types, Touches
<1>2. CASE touched' = [touched EXCEPT !.domains[d] = clock]
  BY <1>1, <1>2 DEF Touches
<1> QED
  BY <1>1, <1>2, Zenon DEF touchDomain

LEMMA GoDoes ==
    ASSUME Types, NEW c \in Callers, NEW pc \in {"idle", "lock", "allocate"},
           NEW d \in Domains \cup {None}, Go(c, pc, d)
    PROVE  /\ caller' \in [Callers -> [pc : {"idle", "lock", "allocate"},
                                       domain : Domains \cup {None}]]
           /\ caller'[c].pc = pc /\ caller'[c].domain = d
           /\ \A b \in Callers \ {c} : caller'[b] = caller[b]
<1> DEFINE x == [pc |-> pc, domain |-> d]
<1>1. /\ x \in [pc : {"idle", "lock", "allocate"}, domain : Domains \cup {None}]
      /\ x.pc = pc /\ x.domain = d
  BY Zenon
<1>2. caller' = [caller EXCEPT ![c] = x]
  BY Zenon DEF Go
<1> HIDE DEF x
<1> QED
  BY <1>1, <1>2, Zenon DEF Types

LEMMA HitKeeps ==
    ASSUME Inv, NEW c \in Callers, NEW d \in Domains, Hit(c, d)
    PROVE  Inv' /\ UNCHANGED entries
<1>1. /\ UNCHANGED <<entries, saved, cursor, mu, caller, worker, clock, misread>>
      /\ touchDomain(d)
  BY Zenon DEF Hit, db
<1>2. touched' \in Touches
  BY <1>1, TouchType, Zenon DEF Inv
<1> QED
  BY <1>1, <1>2, CallSame, Zenon DEF Inv, Types

LEMMA MissKeeps ==
    ASSUME Inv, NEW c \in Callers, NEW d \in Domains, Miss(c, d)
    PROVE  Inv' /\ UNCHANGED entries
<1>1. /\ UNCHANGED <<entries, saved, cursor, mu, touched, worker, clock, misread>>
      /\ Go(c, "lock", d)
  BY Zenon DEF Miss, db
<1>2. /\ caller' \in [Callers -> [pc : {"idle", "lock", "allocate"},
                                  domain : Domains \cup {None}]]
      /\ caller'[c].pc = "lock" /\ caller'[c].domain = d
      /\ \A b \in Callers \ {c} : caller'[b] = caller[b]
  BY <1>1, GoDoes, Zenon DEF Inv
<1>3. Types' /\ Unique'
  BY <1>1, <1>2, Zenon DEF Inv, Types, Unique
<1>4. Alone'
  BY <1>1, <1>2, Zenon DEF Inv, Alone
<1> QED
  BY <1>1, <1>3, <1>4, Zenon DEF Inv

LEMMA LockKeeps ==
    ASSUME Inv, NEW c \in Callers, Lock(c)
    PROVE  Inv' /\ UNCHANGED entries
<1> DEFINE d == caller[c].domain
<1>1. PICK found \in BOOLEAN : Locking(c, found, d \in Known)
  BY Zenon DEF Lock
<1>2. /\ caller[c].pc = "lock" /\ mu = None /\ d \in Domains
      /\ UNCHANGED <<entries, saved, cursor, worker, clock>>
  BY <1>1, Zenon DEF Locking, db, Inv, Alone
<1>3. CASE touchDomain(d) /\ Go(c, "idle", None) /\ UNCHANGED <<mu, misread>>
  <2>1. touched' \in Touches
    BY <1>2, <1>3, TouchType, Zenon DEF Inv
  <2>2. /\ caller' \in [Callers -> [pc : {"idle", "lock", "allocate"},
                                    domain : Domains \cup {None}]]
        /\ caller'[c].pc = "idle"
        /\ \A b \in Callers \ {c} : caller'[b] = caller[b]
    BY <1>3, GoDoes, Zenon DEF Inv
  <2>3. Types' /\ Unique'
    BY <1>2, <1>3, <2>1, <2>2, Zenon DEF Inv, Types, Unique
  <2>4. Alone'
    BY <1>2, <1>3, <2>2, Zenon DEF Inv, Alone
  <2> QED
    BY <1>2, <2>3, <2>4, Zenon DEF Inv
<1>4. CASE /\ mu' = c /\ Go(c, "allocate", d) /\ UNCHANGED touched
           /\ misread' = (misread \/ d \in Known)
  <2>1. PICK e \in Domains : e = d
    BY <1>2, Zenon
  <2>2. /\ caller' \in [Callers -> [pc : {"idle", "lock", "allocate"},
                                    domain : Domains \cup {None}]]
        /\ caller'[c].pc = "allocate" /\ caller'[c].domain = e
        /\ \A b \in Callers \ {c} : caller'[b] = caller[b]
    BY <1>4, <2>1, GoDoes, Zenon DEF Inv
  <2>3. Types' /\ Unique'
    BY <1>2, <1>4, <2>2, Zenon DEF Inv, Types, Unique
  <2>4. \A b \in Callers \ {c} : caller'[b].pc # "allocate"
    BY <1>2, <2>2, Rows, Zenon DEF Inv, Alone
  <2>5. misread' \/ entries'[e] = None
    BY <1>2, <1>4, <2>1, Zenon DEF Known
  <2>6. Alone'
    BY <1>4, <2>2, <2>4, <2>5, Zenon DEF Inv, Alone
  <2> QED
    BY <1>2, <2>3, <2>6, Zenon DEF Inv
<1> QED
  BY <1>1, <1>3, <1>4, Zenon DEF Locking

LEMMA GetDomainKeeps ==
    ASSUME Inv, NEW i \in Ips, GetDomainFromIP(i)
    PROVE  Inv' /\ UNCHANGED entries
<1>1. /\ UNCHANGED <<entries, saved, cursor, mu, caller, worker, clock, misread>>
      /\ touched' = [touched EXCEPT !.ips[i] = clock]
  BY Zenon DEF GetDomainFromIP, db
<1>2. touched' \in Touches
  <2>1. /\ touched.domains \in [Domains -> Nat \cup {None}]
        /\ touched.ips \in [Ips -> Nat \cup {None}] /\ clock \in Nat /\ touched \in Touches
    BY Zenon DEF Inv, Types, Touches
  <2> QED
    BY <1>1, <2>1 DEF Touches
<1> QED
  BY <1>1, <1>2, CallSame, Zenon DEF Inv, Types

LEMMA TakeKeeps ==
    ASSUME Inv, FlushBegin \/ CloseBegin
    PROVE  Inv' /\ UNCHANGED entries
<1>1. PICK pc \in {"flush", "last"} : TakeTouches(pc)
  BY Zenon DEF FlushBegin, CloseBegin
<1>2. /\ UNCHANGED <<entries, saved, cursor, mu, caller, clock, misread>>
      /\ touched' = NoTouches /\ worker' = [pc |-> pc, took |-> touched]
  BY <1>1, Zenon DEF TakeTouches, db
<1>3. worker' \in [pc : {"tick", "flush", "last", "closed"}, took : Touches]
  BY <1>2, Zenon DEF Inv, Types
<1> QED
  BY <1>2, <1>3, NoTouchesType, CallSame, Zenon DEF Inv, Types

\* A flush changes the times of the rows and nothing else of them.
LEMMA FlushKeeps ==
    ASSUME Inv, FlushCommit
    PROVE  /\ Inv'
           /\ \A d \in Domains : /\ entries'[d] = None <=> entries[d] = None
                                 /\ entries[d] # None => entries'[d].ip = entries[d].ip
<1>1. /\ UNCHANGED <<saved, cursor, mu, caller, touched, clock, misread>>
      /\ worker' = [pc |-> IF worker.pc = "last" THEN "closed" ELSE "tick", took |-> NoTouches]
      /\ entries' = Updated \/ UNCHANGED entries
  BY Zenon DEF FlushCommit
<1>2. worker' \in [pc : {"tick", "flush", "last", "closed"}, took : Touches]
  BY <1>1, NoTouchesType, Zenon
<1>3. ASSUME NEW d \in Domains, entries[d] # None
      PROVE  Stamp(d) \in Nat
  <2>1. /\ worker.took.domains \in [Domains -> Nat \cup {None}]
        /\ worker.took.ips \in [Ips -> Nat \cup {None}]
    BY Zenon DEF Inv, Types, Touches
  <2>2. entries[d].ip \in Ips /\ entries[d].used \in Nat
    BY <1>3, RowFields, Rows, Zenon DEF Inv
  <2> QED
    BY <2>1, <2>2, Zenon DEF Stamp
<1>4. ASSUME NEW d \in Domains, entries[d] # None, entries' = Updated
      PROVE  entries'[d] \in Row /\ entries'[d].ip = entries[d].ip
  <2>1. entries[d] \in Row /\ Stamp(d) \in Nat
    BY <1>3, <1>4, RowFields, Zenon DEF Inv
  <2>2. entries'[d] = [entries[d] EXCEPT !.used = Stamp(d)]
    BY <1>4, Zenon DEF Updated, Known
  <2> QED
    BY <2>1, <2>2, Zenon DEF Row
<1>5. ASSUME NEW d \in Domains, entries[d] = None, entries' = Updated
      PROVE  entries'[d] = None
  BY <1>5, Zenon DEF Updated, Known
<1>6. \A d \in Domains : /\ entries'[d] = None <=> entries[d] = None
                         /\ entries[d] # None => entries'[d].ip = entries[d].ip
  BY <1>1, <1>4, <1>5, Rows, Zenon
<1>7. entries' \in [Domains -> Row \cup {None}]
  <2>1. CASE UNCHANGED entries
    BY <2>1, Zenon DEF Inv, Types
  <2>2. CASE entries' = Updated
    <3>1. \A d \in Domains : entries'[d] \in Row \cup {None}
      BY <1>4, <1>5, <2>2, Zenon
    <3>2. entries' = [d \in Domains |-> entries'[d]]
      BY <2>2, Zenon DEF Updated
    <3> QED
      BY <3>1, <3>2, Zenon
  <2> QED
    BY <1>1, <2>1, <2>2, Zenon
<1>8. Types'
  BY <1>1, <1>2, <1>7, Zenon DEF Inv, Types
<1>9. Unique'
  BY <1>6, Zenon DEF Inv, Unique
<1>10. Alone'
  BY <1>1, <1>6, Zenon DEF Inv, Alone
<1> QED
  BY <1>6, <1>8, <1>9, <1>10, Zenon DEF Inv

LEMMA RestartKeeps ==
    ASSUME Inv, Restart
    PROVE  Inv' /\ UNCHANGED entries
<1>1. /\ UNCHANGED <<entries, saved, clock, misread>> /\ touched' = NoTouches
      /\ worker' = Parked /\ caller' = [c \in Callers |-> Resting]
      /\ cursor' = IF saved = None THEN Start ELSE saved
  BY Zenon DEF Restart, db
<1>2. cursor' \in Cursor
  <2>1. 0 \in 0 .. MaxNum
    BY FakeIPConstants
  <2>2. Start \in Cursor
    BY <2>1, Zenon DEF Start, Cursor, At
  <2> QED
    BY <1>1, <2>2, Zenon DEF Inv, Types
<1>3. worker' \in [pc : {"tick", "flush", "last", "closed"}, took : Touches]
  BY <1>1, NoTouchesType, Zenon DEF Parked
<1>4. /\ caller' \in [Callers -> [pc : {"idle", "lock", "allocate"},
                                  domain : Domains \cup {None}]]
      /\ \A c \in Callers : caller'[c].pc = "idle"
  BY <1>1, Zenon DEF Resting
<1>5. Types' /\ Unique'
  BY <1>1, <1>2, <1>3, <1>4, NoTouchesType, ZenonT(40) DEF Inv, Types, Unique
<1>6. Alone'
  BY <1>4, Zenon DEF Alone
<1> QED
  BY <1>1, <1>5, <1>6, Zenon DEF Inv

LEMMA TickKeeps ==
    ASSUME Inv, Tick
    PROVE  Inv' /\ UNCHANGED entries
<1>1. /\ UNCHANGED <<entries, saved, cursor, mu, caller, touched, worker, misread>>
      /\ clock' = clock + 1
  BY Zenon DEF Tick, db
<1>2. clock' \in Nat
  BY <1>1 DEF Inv, Types
<1> QED
  BY <1>1, <1>2, CallSame, Zenon DEF Inv, Types
-----------------------------------------------------------------------------
(* Allocation. *)

\* There are at most as many rows as addresses, and there are as many when no
\* address is free.
LEMMA RowsCounted ==
    ASSUME Types, Unique
    PROVE  /\ Cardinality(Known) \in Nat
           /\ NoneFree => Cardinality(Known) >= MaxNum
<1> DEFINE ip == [d \in Known |-> entries[d].ip]
<1>1. \A d \in Known : d \in Domains /\ entries[d] # None /\ entries[d].ip \in Pool
  BY RowFields, Zenon DEF Known
<1>2. ip \in [Known -> Pool]
  BY <1>1, Zenon
<1>3. ip \in Injection(Known, Pool)
  BY <1>1, <1>2, Zenon DEF Unique, Injection, IsInjective
<1>4. IsFiniteSet(Pool) /\ Cardinality(Pool) = MaxNum
  BY FS_Interval, FakeIPConstants DEF Pool
<1>5. IsFiniteSet(Known)
  BY <1>3, <1>4, FS_Injection, Zenon
<1>6. Cardinality(Known) \in Nat
  BY <1>5, FS_CardinalityType, Zenon
<1>7. ASSUME NoneFree
      PROVE  Cardinality(Known) >= MaxNum
  <2>1. ASSUME NEW a \in Pool
        PROVE  \E d \in Known : ip[d] = a
    <3>1. PICK k \in 1 .. MaxNum : Address(Rotated[k]) = a
      BY RotatedAll, Zenon DEF Pool, Types
    <3>2. Owner(a) # {}
      BY <1>7, <3>1, Zenon DEF NoneFree, Free
    <3> QED
      BY <3>2, Zenon DEF Owner
  <2>2. ip \in Surjection(Known, Pool)
    <3> HIDE DEF ip
    <3> QED
      BY <1>2, <2>1, Zenon DEF Surjection
  <2>3. Cardinality(Pool) <= Cardinality(Known)
    BY <1>5, <2>2, FS_Surjection, Zenon
  <2> QED
    BY <1>4, <1>6, <2>3, FakeIPConstants
<1> QED
  BY <1>6, <1>7, Zenon

LEMMA ChoiceFields ==
    ASSUME Types, NEW full \in BOOLEAN, NEW choice \in Choices(full)
    PROVE  /\ choice.cursor \in Cursor /\ choice.ip \in Pool
           /\ choice.gone = {} \/ full = TRUE \/ NoneFree
<1>1. ASSUME NEW moved \in Cursor, choice \in Evictions(moved)
      PROVE  choice.cursor \in Cursor /\ choice.ip \in Pool
  <2>1. PICK v \in LeastUsed : choice = [cursor |-> moved, ip |-> entries[v].ip, gone |-> {v}]
    BY <1>1, Zenon DEF Evictions
  <2>2. v \in Domains /\ entries[v] # None
    BY Zenon DEF LeastUsed, Known
  <2>3. choice.cursor = moved /\ choice.ip = entries[v].ip
    BY <2>1, Zenon
  <2> QED
    BY <2>2, <2>3, RowFields, Zenon
<1>2. ASSUME NEW k \in Stops,
             choice = [cursor |-> Rotated[k], ip |-> Address(Rotated[k]), gone |-> {}]
      PROVE  choice.cursor \in Cursor /\ choice.ip \in Pool /\ choice.gone = {}
  <2>1. k \in 1 .. MaxNum
    BY Zenon DEF Stops
  <2>2. Rotated[k] \in Cursor /\ Address(Rotated[k]) \in Pool
    BY <2>1, RotatedInPool, Zenon DEF Types, Pool
  <2> QED
    BY <1>2, <2>2, Zenon
<1>3. Rotated[MaxNum] \in Cursor
  <2>1. MaxNum \in 1 .. MaxNum
    BY FakeIPConstants
  <2> QED
    BY <2>1, RotatedInPool, Zenon DEF Types
<1>4. CASE full
  BY <1>1, <1>4, Zenon DEF Choices, Types
<1>5. CASE ~full
  BY <1>1, <1>2, <1>3, <1>5, Zenon DEF Choices
<1> QED
  BY <1>4, <1>5, Zenon

LEMMA StoreKeeps ==
    ASSUME Types, Unique, NEW d \in Domains, NEW i \in Pool, NEW gone, storeEntry(d, i, gone)
    PROVE  /\ entries' \in [Domains -> Row \cup {None}] /\ Unique'
           /\ \A e \in Domains \ {d} : e \notin gone \cup Owner(i) => entries'[e] = entries[e]
<1> DEFINE row == [ip |-> i, used |-> clock]
<1>1. row \in Row /\ row.ip = i
  BY Zenon DEF Row, Types
<1>2. /\ entries' = [e \in Domains |-> entries'[e]] /\ entries'[d] = row
      /\ \A e \in Domains \ {d} :
            entries'[e] = IF e \in gone \cup Owner(i) THEN None ELSE entries[e]
  BY Zenon DEF storeEntry, Storing
<1> HIDE DEF row
<1>3. \A e \in Domains : entries'[e] \in Row \cup {None}
  BY <1>1, <1>2, Zenon DEF Types
<1>4. entries' \in [Domains -> Row \cup {None}]
  BY <1>2, <1>3, Zenon
<1>5. \A e \in Domains \ {d} :
         entries'[e] # None => entries'[e] = entries[e] /\ entries[e].ip # i
  BY <1>2, Zenon DEF Owner, Known
<1>6. ASSUME NEW a \in Domains, NEW b \in Domains, entries'[a] # None, entries'[b] # None,
             entries'[a].ip = entries'[b].ip
      PROVE  a = b
  BY <1>1, <1>2, <1>5, <1>6, Zenon DEF Unique
<1> QED
  BY <1>2, <1>4, <1>6, Zenon DEF Unique

LEMMA AllocateKeeps ==
    ASSUME Inv, NEW c \in Callers, Allocate(c)
    PROVE  /\ Inv'
           /\ Cardinality(Known) < MaxNum /\ ~misread' =>
                \A d \in Known : entries'[d] # None /\ entries'[d].ip = entries[d].ip
<1> DEFINE full == Cardinality(Known) >= MaxNum
<1>1. PICK d \in Domains : d = caller[c].domain
  BY Zenon DEF Allocate, Allocating, Inv, Alone
<1>2. /\ caller[c].pc = "allocate" /\ mu = c /\ (misread \/ entries[d] = None)
      /\ Go(c, "idle", None) /\ UNCHANGED <<touched, worker, clock>>
  BY <1>1, Zenon DEF Allocate, Allocating, Inv, Alone
<1>3. /\ caller' \in [Callers -> [pc : {"idle", "lock", "allocate"},
                                  domain : Domains \cup {None}]]
      /\ caller'[c].pc = "idle"
      /\ \A b \in Callers \ {c} : caller'[b] = caller[b] /\ caller[b].pc # "allocate"
  BY <1>2, GoDoes, Zenon DEF Inv, Alone
<1>4. Alone'
  BY <1>3, Zenon DEF Inv, Alone
<1>5. CASE UNCHANGED <<cursor, entries, saved, misread>>
  BY <1>2, <1>3, <1>4, <1>5, Zenon DEF Inv, Types, Unique, Known
<1>6. ASSUME NEW choice \in Choices(full), cursor' = choice.cursor,
             misread' = (misread \/ Owner(choice.ip) # choice.gone),
             \/ storeEntry(d, choice.ip, choice.gone) /\ saved' = choice.cursor
             \/ UNCHANGED db
      PROVE  /\ Inv'
             /\ Cardinality(Known) < MaxNum /\ ~misread' =>
                  \A e \in Known : entries'[e] # None /\ entries'[e].ip = entries[e].ip
  <2>1. /\ choice.cursor \in Cursor /\ choice.ip \in Pool
        /\ choice.gone = {} \/ full \/ NoneFree
    <3>1. PICK b \in BOOLEAN : b <=> full
      BY Zenon
    <3>2. choice \in Choices(b)
      BY <1>6, <3>1, Zenon DEF Choices
    <3> QED
      BY <3>1, <3>2, ChoiceFields, Zenon DEF Inv
  <2>2. misread' \in BOOLEAN
    BY <1>6, Zenon
  <2>3. CASE UNCHANGED <<entries, saved>>
    BY <1>2, <1>3, <1>4, <1>6, <2>1, <2>2, <2>3, Zenon DEF Inv, Types, Unique, Known
  <2>4. CASE storeEntry(d, choice.ip, choice.gone) /\ saved' = choice.cursor
    <3>1. /\ entries' \in [Domains -> Row \cup {None}] /\ Unique'
          /\ \A e \in Domains \ {d} :
                e \notin choice.gone \cup Owner(choice.ip) => entries'[e] = entries[e]
      BY <2>1, <2>4, StoreKeeps, Zenon DEF Inv
    <3>2. Inv'
      BY <1>2, <1>3, <1>4, <1>6, <2>1, <2>2, <2>4, <3>1, Zenon DEF Inv, Types
    <3>3. ASSUME Cardinality(Known) < MaxNum, ~misread', NEW e \in Known
          PROVE  entries'[e] = entries[e] /\ entries[e] # None
      <4>1. ~full /\ ~NoneFree
        <5>1. /\ Cardinality(Known) \in Nat
              /\ NoneFree => Cardinality(Known) >= MaxNum
          BY RowsCounted, Zenon DEF Inv
        <5> QED
          BY <3>3, <5>1, FakeIPConstants
      <4>2. choice.gone = {} /\ Owner(choice.ip) = {} /\ ~misread
        BY <1>6, <2>1, <3>3, <4>1, Zenon
      <4>3. e \in Domains /\ entries[e] # None /\ e # d
        BY <1>2, <4>2, Zenon DEF Known
      <4> QED
        BY <3>1, <4>2, <4>3, Zenon
    <3> QED
      BY <3>2, <3>3, Zenon
  <2> QED
    BY <1>6, <2>3, <2>4, Zenon DEF db
<1> QED
  BY <1>1, <1>5, <1>6, Zenon DEF Allocate, Allocating, db
-----------------------------------------------------------------------------
LEMMA NextInv ==
    ASSUME Inv, [Next]_vars
    PROVE  /\ Inv'
           /\ Cardinality(Known) < MaxNum /\ ~misread' =>
                \A d \in Known : entries'[d] # None /\ entries'[d].ip = entries[d].ip
<1>1. ASSUME Inv' /\ UNCHANGED entries
      PROVE  \A d \in Known : entries'[d] # None /\ entries'[d].ip = entries[d].ip
  BY <1>1, Zenon DEF Known
<1>2. CASE UNCHANGED vars
  <2>1. UNCHANGED <<entries, saved, cursor, mu, caller, touched, worker, clock, misread>>
    BY <1>2, Zenon DEF vars
  <2>2. Inv'
    BY <2>1, CallSame, Zenon DEF Inv, Types
  <2> QED
    BY <1>1, <2>1, <2>2, Zenon
<1>3. CASE \E c \in Callers : (\E d \in Domains : Hit(c, d) \/ Miss(c, d)) \/ Lock(c)
  BY <1>1, <1>3, HitKeeps, MissKeeps, LockKeeps, Zenon
<1>4. CASE \E c \in Callers : Allocate(c)
  BY <1>4, AllocateKeeps, Zenon
<1>5. CASE \/ \E i \in Ips : GetDomainFromIP(i)
           \/ FlushBegin \/ CloseBegin \/ Restart \/ Tick
  BY <1>1, <1>5, GetDomainKeeps, TakeKeeps, RestartKeeps, TickKeeps, Zenon
<1>6. CASE FlushCommit
  BY <1>6, FlushKeeps, Zenon DEF Known
<1> QED
  BY <1>2, <1>3, <1>4, <1>5, <1>6, Zenon DEF Next

LEMMA Invariant == Spec => []Inv
<1>1. Inv /\ [Next]_vars => Inv'
  BY NextInv
<1> QED
  BY <1>1, InitInv, PTL DEF Spec

\* No two domains share an address, and no address outside the pool is given
\* away (nextAvailable, storeEntry).
THEOREM AddressesUnique == Spec => []OneDomainPerAddress
<1>1. ASSUME Inv
      PROVE  OneDomainPerAddress
  <2> SUFFICES ASSUME NEW i \in Ips
               PROVE  Cardinality(Owner(i)) <= (IF i < MaxNum THEN 1 ELSE 0)
    BY Zenon DEF OneDomainPerAddress
  <2>1. \A d \in Owner(i) : d \in Domains /\ entries[d] # None /\ i \in Pool /\ entries[d].ip = i
    BY <1>1, RowFields, Zenon DEF Inv, Owner, Known
  <2>2. CASE Owner(i) = {}
    BY <2>2, FS_EmptySet DEF Ips
  <2>3. CASE Owner(i) # {}
    <3>1. PICK d \in Owner(i) : TRUE
      BY <2>3, Zenon
    <3>2. Owner(i) = {d}
      BY <1>1, <2>1, <3>1, Zenon DEF Inv, Unique
    <3>3. Cardinality(Owner(i)) = 1
      BY <3>2, FS_Singleton, Zenon
    <3>4. i < MaxNum
      BY <2>1, <3>1, FakeIPConstants DEF Pool
    <3> QED
      BY <3>3, <3>4
  <2> QED
    BY <2>2, <2>3, Zenon
<1> QED
  BY <1>1, Invariant, PTL

\* While the pool has room no domain loses its address: MaxNum turns of the
\* cursor come to every address, so one that is free is found.
THEOREM DomainsKeepAddresses == Spec => KeptWhileRoom
<1>1. ASSUME Inv, [Next]_vars
      PROVE  Cardinality(Known) < MaxNum /\ ~misread' =>
                \A d \in Known : entries'[d] # None /\ entries'[d].ip = entries[d].ip
  BY <1>1, NextInv
<1> QED
  BY <1>1, Invariant, PTL DEF Spec, KeptWhileRoom
=============================================================================
