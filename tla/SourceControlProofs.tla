------------------------ MODULE SourceControlProofs -------------------------
(***************************************************************************)
(* Proofs about SourceControl, for any number of packets, sockets, queue   *)
(* lengths and calls of Close.  First what each step does to the records,  *)
(* then the invariant, which has four parts that do not need each other:   *)
(* the references of the packets, the sockets, the wake-ups and the        *)
(* write-back function.                                                    *)
(***************************************************************************)
EXTENDS SourceControl, FiniteSetTheorems, TLAPS

USE SMTT(30)

UType == [done : BOOLEAN, sent : Seq(Pkts), notifySent : BOOLEAN, conn : 0..MaxConns,
          received : Seq(Conns), notifyReceived : BOOLEAN, wirteBack : BOOLEAN,
          loopStopped : BOOLEAN, aged : BOOLEAN]
PktType == [pc : {"new", "push", "notify", "return", "end"}, ref : Int]
RunnerType == [pc : {"select", "pop", "one", "store", "write", "closing", "exit"},
               pkt : Pkts \cup {NoPkt}, c : 0..MaxConns]
LoopPC == {"none", "start", "read", "push", "signal", "stop", "stamp", "close", "end"}
WriterPC == {"none", "select", "pop", "write", "end"}
ConnType == [loop : LoopPC, writer : WriterPC, closed : BOOLEAN, cancelled : BOOLEAN,
             written : BOOLEAN, errs : Nat, replies : Nat]
CloserPC == {"idle", "cancel", "sent", "received", "end"}

Types ==
    /\ u \in UType
    /\ pkts \in [Pkts -> PktType]
    /\ runner \in RunnerType
    /\ conns \in [Conns -> ConnType]
    /\ closer \in [Closers -> CloserPC]

\* The runner has a packet, and when it needs one a socket that was dialed, as
\* the socket in use was.
Holding == {"one", "store", "write"}
RunnerHolds ==
    /\ runner.pkt # NoPkt <=> runner.pc \in Holding
    /\ runner.pc \in {"store", "write"} =>
           runner.c \in Conns /\ conns[runner.c].loop # "none"
    /\ u.conn # 0 => conns[u.conn].loop # "none"

LEMMA TypesInit == Init => Types /\ RunnerHolds
  BY SourceControlConstants DEF Init, Types, UType, PktType, RunnerType, ConnType, LoopPC,
     WriterPC, CloserPC, Conns, Waiting, Unused, NoPkt, Closers, RunnerHolds, Holding
-----------------------------------------------------------------------------
(* What the steps do. *)

\* The fields that the invariants are about.
U(sent, notify, done, conn, received, back) ==
    /\ u' \in UType /\ u'.sent = sent /\ u'.notifySent = notify /\ u'.done = done
    /\ u'.conn = conn /\ u'.received = received /\ u'.wirteBack = back
USent(sent) == U(sent, u.notifySent, u.done, u.conn, u.received, u.wirteBack)
UReceived(received) == U(u.sent, u.notifySent, u.done, u.conn, received, u.wirteBack)
UToken(notify) == U(u.sent, notify, u.done, u.conn, u.received, u.wirteBack)
UKept == USent(u.sent)

LEMMA UMinor ==
    ASSUME Types, NEW b \in BOOLEAN,
           \/ u' = u \/ u' = [u EXCEPT !.loopStopped = b]
           \/ u' = [u EXCEPT !.notifyReceived = b] \/ u' = [u EXCEPT !.aged = b]
    PROVE  UKept
<1>1. CASE u' = u
  BY <1>1, Zenon DEF Types, UType, U, UKept, USent
<1>2. CASE u' = [u EXCEPT !.loopStopped = b]
  BY <1>2, Zenon DEF Types, UType, U, UKept, USent
<1>3. CASE u' = [u EXCEPT !.notifyReceived = b]
  BY <1>3, Zenon DEF Types, UType, U, UKept, USent
<1>4. CASE u' = [u EXCEPT !.aged = b]
  BY <1>4, Zenon DEF Types, UType, U, UKept, USent
<1> QED
  BY <1>1, <1>2, <1>3, <1>4, Zenon

LEMMA UQueues ==
    ASSUME Types
    PROVE  /\ \A s \in Seq(Pkts) : u' = [u EXCEPT !.sent = s] => USent(s)
           /\ \A s \in Seq(Conns) : u' = [u EXCEPT !.received = s] => UReceived(s)
           /\ \A b \in BOOLEAN : u' = [u EXCEPT !.notifySent = b] => UToken(b)
<1>1. ASSUME NEW s \in Seq(Pkts), u' = [u EXCEPT !.sent = s] PROVE USent(s)
  BY <1>1, Zenon DEF Types, UType, U, USent
<1>2. ASSUME NEW s \in Seq(Conns), u' = [u EXCEPT !.received = s] PROVE UReceived(s)
  BY <1>2, Zenon DEF Types, UType, U, UReceived
<1>3. ASSUME NEW b \in BOOLEAN, u' = [u EXCEPT !.notifySent = b] PROVE UToken(b)
  BY <1>3, Zenon DEF Types, UType, U, UToken
<1> QED
  BY <1>1, <1>2, <1>3, Zenon

LEMMA QueuesTyped ==
    ASSUME Types
    PROVE  /\ u.sent \in Seq(Pkts) /\ u.received \in Seq(Conns)
           /\ u.sent # <<>> => Head(u.sent) \in Pkts /\ Tail(u.sent) \in Seq(Pkts)
           /\ u.received # <<>> => Tail(u.received) \in Seq(Conns)
           /\ \A p \in Pkts : Append(u.sent, p) \in Seq(Pkts)
           /\ \A c \in Conns : Append(u.received, c) \in Seq(Conns)
  BY DEF Types, UType

\* Socket c becomes r.
Socket(c, r) ==
    /\ conns' \in [Conns -> ConnType] /\ conns'[c] = r
    /\ \A b \in Conns \ {c} : conns'[b] = conns[b]

LEMMA SocketPut ==
    ASSUME Types, NEW c \in Conns, NEW r \in ConnType, conns' = [conns EXCEPT ![c] = r]
    PROVE  Socket(c, r)
  BY Zenon DEF Types, Socket

\* What the read loop of c may do to the record of its socket.
Looped(c) ==
    /\ conns[c].loop # "none"
    /\ \E r \in ConnType :
         /\ Socket(c, r) /\ r.loop # "none" /\ r.written = conns[c].written
         /\ conns[c].closed => r.closed
         /\ r.loop = "push" => conns[c].written

LEMMA LoopMoves ==
    ASSUME Types, NEW c \in Conns, NEW from \in LoopPC \ {"none"}, NEW to \in LoopPC \ {"none", "push"},
           conns[c].loop = from, conns' = [conns EXCEPT ![c].loop = to]
    PROVE  Looped(c)
<1> DEFINE r == [conns[c] EXCEPT !.loop = to]
<1>1. r \in ConnType /\ r.loop = to /\ r.written = conns[c].written /\ r.closed = conns[c].closed
  BY Zenon DEF Types, ConnType
<1>2. conns' = [conns EXCEPT ![c] = r]
  BY Zenon DEF Types
<1> QED
  BY <1>1, <1>2, SocketPut, Zenon DEF Looped

LEMMA LoopDoes ==
    ASSUME Types, NEW c \in Conns, LoopStep(c)
    PROVE  /\ UNCHANGED <<pkts, runner, closer>> /\ Looped(c)
           /\ UKept \/ (conns[c].loop = "push" /\ UReceived(Append(u.received, c)))
<1>1. CASE LStart(c)
  <2> DEFINE r == [conns[c] EXCEPT !.loop = "read", !.writer = "select"]
  <2>1. r \in ConnType /\ r.loop = "read" /\ r.written = conns[c].written /\ r.closed = conns[c].closed
    BY Zenon DEF Types, ConnType, LoopPC, WriterPC
  <2>2. /\ conns[c].loop = "start" /\ conns' = [conns EXCEPT ![c] = r]
        /\ u' = [u EXCEPT !.loopStopped = FALSE] /\ UNCHANGED <<pkts, runner, closer>>
    BY <1>1, Zenon DEF LStart, Types
  <2> QED
    BY <2>1, <2>2, SocketPut, UMinor, Zenon DEF Looped
<1>2. CASE LReply(c)
  <2> DEFINE r == [conns[c] EXCEPT !.loop = "push", !.replies = conns[c].replies + 1]
  <2>1. r \in ConnType /\ r.loop = "push" /\ r.written = conns[c].written /\ r.closed = conns[c].closed
    <3>1. conns[c] \in ConnType /\ "push" \in LoopPC
      BY Zenon DEF Types, LoopPC
    <3>2. conns[c].replies + 1 \in Nat
      BY <3>1 DEF ConnType
    <3> QED
      BY <3>1, <3>2, Zenon DEF ConnType
  <2>2. /\ conns[c].loop = "read" /\ conns[c].written /\ conns' = [conns EXCEPT ![c] = r]
        /\ u' = u /\ UNCHANGED <<pkts, runner, closer>>
    BY <1>2, Zenon DEF LReply, Types
  <2> QED
    BY <2>1, <2>2, SocketPut, UMinor, Zenon DEF Looped
<1>3. CASE LError(c) \/ LSignal(c) \/ LStamp(c)
  <2>1. PICK from \in {"read", "signal", "stamp"}, to \in {"stop", "read", "close"} : Loop(c, from, to)
    BY <1>3, Zenon DEF LError, LSignal, LStamp
  <2>2. Looped(c)
    BY <2>1, LoopMoves, Zenon DEF Loop, LoopPC
  <2>3. UKept
    BY <1>3, UMinor, Zenon DEF LError, LSignal, LStamp
  <2> QED
    BY <2>1, <2>2, <2>3, Zenon DEF Loop
<1>4. CASE LPush(c)
  <2>1. PICK to \in {"signal", "read"} : Loop(c, "push", to)
    BY <1>4, Zenon DEF LPush
  <2>2. Looped(c)
    BY <2>1, LoopMoves, Zenon DEF Loop, LoopPC
  <2>3. UKept \/ UReceived(Append(u.received, c))
    BY <1>4, UMinor, UQueues, QueuesTyped, Zenon DEF LPush
  <2> QED
    BY <2>1, <2>2, <2>3, Zenon DEF Loop
<1>5. CASE LStop(c)
  <2> DEFINE r == [conns[c] EXCEPT !.loop = "stamp", !.cancelled = TRUE]
  <2>1. r \in ConnType /\ r.loop = "stamp" /\ r.written = conns[c].written /\ r.closed = conns[c].closed
    BY Zenon DEF Types, ConnType, LoopPC
  <2>2. /\ conns[c].loop = "stop" /\ conns' = [conns EXCEPT ![c] = r]
        /\ u' = [u EXCEPT !.loopStopped = TRUE] /\ UNCHANGED <<pkts, runner, closer>>
    BY <1>5, Zenon DEF LStop, Types
  <2> QED
    BY <2>1, <2>2, SocketPut, UMinor, Zenon DEF Looped
<1>6. CASE LClose(c)
  <2> DEFINE r == [conns[c] EXCEPT !.loop = "end", !.closed = TRUE]
  <2>1. r \in ConnType /\ r.loop = "end" /\ r.written = conns[c].written /\ r.closed
    BY Zenon DEF Types, ConnType, LoopPC
  <2>2. /\ conns[c].loop = "close" /\ conns' = [conns EXCEPT ![c] = r]
        /\ u' = u /\ UNCHANGED <<pkts, runner, closer>>
    BY <1>6, Zenon DEF LClose, Types
  <2> QED
    BY <2>1, <2>2, SocketPut, UMinor, Zenon DEF Looped
<1> QED
  BY <1>1, <1>2, <1>3, <1>4, <1>5, <1>6, Zenon DEF LoopStep

\* What the writer of c may do to the record of its socket.
Wrote(c) ==
    /\ conns[c].writer # "none"
    /\ \E r \in ConnType : /\ Socket(c, r) /\ r.loop = conns[c].loop
                           /\ r.written = conns[c].written
                           /\ conns[c].closed => r.closed

LEMMA WriterMoves ==
    ASSUME Types, NEW c \in Conns, conns[c].writer # "none", NEW to \in WriterPC, NEW n \in Nat,
           \/ conns' = [conns EXCEPT ![c].writer = to]
           \/ conns' = [conns EXCEPT ![c].writer = to, ![c].errs = n]
           \/ conns' = [conns EXCEPT ![c].writer = to, ![c].closed = TRUE]
    PROVE  Wrote(c)
<1>1. CASE conns' = [conns EXCEPT ![c].writer = to]
  <2> DEFINE r == [conns[c] EXCEPT !.writer = to]
  <2>1. /\ r \in ConnType /\ r.loop = conns[c].loop /\ r.written = conns[c].written
        /\ r.closed = conns[c].closed
    BY DEF Types, ConnType
  <2>2. conns' = [conns EXCEPT ![c] = r]
    BY <1>1, Zenon DEF Types
  <2> QED
    BY <2>1, <2>2, SocketPut, Zenon DEF Wrote
<1>2. CASE conns' = [conns EXCEPT ![c].writer = to, ![c].errs = n]
  <2> DEFINE r == [conns[c] EXCEPT !.writer = to, !.errs = n]
  <2>1. /\ r \in ConnType /\ r.loop = conns[c].loop /\ r.written = conns[c].written
        /\ r.closed = conns[c].closed
    <3>1. conns[c] \in ConnType
      BY Zenon DEF Types
    <3> QED
      BY <3>1, Zenon DEF ConnType
  <2>2. conns' = [conns EXCEPT ![c] = r]
    BY <1>2, Zenon DEF Types
  <2> QED
    BY <2>1, <2>2, SocketPut, Zenon DEF Wrote
<1>3. CASE conns' = [conns EXCEPT ![c].writer = to, ![c].closed = TRUE]
  <2> DEFINE r == [conns[c] EXCEPT !.writer = to, !.closed = TRUE]
  <2>1. r \in ConnType /\ r.loop = conns[c].loop /\ r.written = conns[c].written /\ r.closed
    BY ZenonT(40) DEF Types, ConnType
  <2>2. conns' = [conns EXCEPT ![c] = r]
    BY <1>3, Zenon DEF Types
  <2> QED
    BY <2>1, <2>2, SocketPut, Zenon DEF Wrote
<1> QED
  BY <1>1, <1>2, <1>3, Zenon

LEMMA WriterDoes ==
    ASSUME Types, NEW c \in Conns, WriterStep(c)
    PROVE  /\ UNCHANGED <<pkts, runner, closer>> /\ Wrote(c)
           /\ UKept \/ (u.received # <<>> /\ UReceived(Tail(u.received)))
<1>1. CASE WSelect(c)
  <2>1. \E to \in WriterPC : conns' = [conns EXCEPT ![c].writer = to]
    BY <1>1, Zenon DEF WSelect, WriterPC
  <2>2. conns[c].writer = "select" /\ UNCHANGED <<pkts, runner, closer>>
    BY <1>1, Zenon DEF WSelect
  <2>3. UKept
    BY <1>1, UMinor, Zenon DEF WSelect
  <2> QED
    BY <2>1, <2>2, <2>3, WriterMoves, Zenon
<1>2. CASE WPop(c)
  <2>1. \E to \in WriterPC : conns' = [conns EXCEPT ![c].writer = to]
    BY <1>2, Zenon DEF WPop, WriterPC
  <2>2. conns[c].writer = "pop" /\ UNCHANGED <<pkts, runner, closer>>
    BY <1>2, Zenon DEF WPop
  <2>3. UKept \/ (u.received # <<>> /\ UReceived(Tail(u.received)))
    BY <1>2, UMinor, UQueues, QueuesTyped, Zenon DEF WPop
  <2> QED
    BY <2>1, <2>2, <2>3, WriterMoves, Zenon
<1>3. CASE WWrite(c)
  <2>1. conns[c].errs + 1 \in Nat /\ "pop" \in WriterPC /\ "end" \in WriterPC
    BY DEF Types, ConnType, WriterPC
  <2>2. \E to \in WriterPC, n \in Nat :
           \/ conns' = [conns EXCEPT ![c].writer = to, ![c].errs = n]
           \/ conns' = [conns EXCEPT ![c].writer = to, ![c].closed = TRUE]
    <3>1. ASSUME conns' = [conns EXCEPT ![c].writer = "pop", ![c].errs = @ + 1]
          PROVE  conns' = [conns EXCEPT ![c].writer = "pop", ![c].errs = conns[c].errs + 1]
      BY <3>1, Zenon DEF Types, ConnType
    <3> QED
      BY <1>3, <2>1, <3>1, Zenon DEF WWrite
  <2>3. conns[c].writer = "write" /\ u' = u /\ UNCHANGED <<pkts, runner, closer>>
    BY <1>3, Zenon DEF WWrite
  <2> QED
    BY <2>2, <2>3, WriterMoves, UMinor, Zenon
<1> QED
  BY <1>1, <1>2, <1>3, Zenon DEF WriterStep

\* Packet p becomes r.
Packet(p, r) ==
    /\ pkts' \in [Pkts -> PktType] /\ pkts'[p] = r
    /\ \A q \in Pkts \ {p} : pkts'[q] = pkts[q]
Handler(p, from, to) ==
    /\ pkts[p].pc = from
    /\ \E r \in PktType : Packet(p, r) /\ r.pc = to /\ r.ref = pkts[p].ref
Released(p) ==
    \E r \in PktType : Packet(p, r) /\ r.pc = pkts[p].pc /\ r.ref = DecRef(pkts[p].ref)

LEMMA PacketPut ==
    ASSUME Types, NEW p \in Pkts, NEW r \in PktType, pkts' = [pkts EXCEPT ![p] = r]
    PROVE  Packet(p, r)
  BY Zenon DEF Types, Packet

LEMMA PacketMoves ==
    ASSUME Types, NEW p \in Pkts, NEW to \in {"push", "return"}, pkts' = [pkts EXCEPT ![p].pc = to]
    PROVE  Handler(p, pkts[p].pc, to)
<1> DEFINE r == [pkts[p] EXCEPT !.pc = to]
<1>1. r \in PktType /\ r.pc = to /\ r.ref = pkts[p].ref
  BY Zenon DEF Types, PktType
<1>2. pkts' = [pkts EXCEPT ![p] = r]
  BY Zenon
<1> QED
  BY <1>1, <1>2, PacketPut, Zenon DEF Handler

LEMMA PacketReleased ==
    ASSUME Types, NEW p \in Pkts, pkts' = [pkts EXCEPT ![p].ref = DecRef(@)]
    PROVE  Released(p)
<1> DEFINE r == [pkts[p] EXCEPT !.ref = DecRef(pkts[p].ref)]
<1>1. pkts[p] \in PktType /\ DecRef(pkts[p].ref) \in Int
  BY DEF Types, PktType, DecRef
<1>2. r \in PktType /\ r.pc = pkts[p].pc /\ r.ref = DecRef(pkts[p].ref)
  BY <1>1, Zenon DEF PktType
<1>3. pkts' = [pkts EXCEPT ![p] = r]
  BY Zenon DEF Types
<1> QED
  BY <1>2, <1>3, PacketPut, Zenon DEF Released

LEMMA CallerDoes ==
    ASSUME Types, NEW p \in Pkts, CallerStep(p)
    PROVE  /\ UNCHANGED <<runner, conns, closer>>
           /\ \/ /\ UKept
                 /\ \/ Handler(p, "new", "push") \/ Handler(p, "new", "return")
                    \/ Handler(p, "push", "return")
              \/ /\ USent(Append(u.sent, p)) /\ pkts[p].pc = "push"
                 /\ Packet(p, [pc |-> "notify", ref |-> IncRef(pkts[p].ref)])
              \/ UToken(TRUE) /\ Handler(p, "notify", "return")
              \/ /\ UKept /\ pkts[p].pc = "return"
                 /\ Packet(p, [pc |-> "end", ref |-> DecRef(pkts[p].ref)])
<1>0. /\ [pc |-> "notify", ref |-> IncRef(pkts[p].ref)] \in PktType
      /\ [pc |-> "end", ref |-> DecRef(pkts[p].ref)] \in PktType
  BY DEF Types, PktType, IncRef, DecRef
<1>1. CASE Enter(p)
  <2>1. /\ pkts[p].pc = "new" /\ u' = u /\ UNCHANGED <<runner, conns, closer>>
        /\ \E to \in {"push", "return"} : pkts' = [pkts EXCEPT ![p].pc = to]
    BY <1>1, Zenon DEF Enter
  <2> QED
    BY <2>1, PacketMoves, UMinor, Zenon
<1>2. CASE Push(p)
  <2>1. CASE Len(u.sent) < Capacity
    <3>1. /\ pkts[p].pc = "push" /\ u' = [u EXCEPT !.sent = Append(u.sent, p)]
          /\ UNCHANGED <<runner, conns, closer>>
          /\ pkts' = [pkts EXCEPT ![p] = [pc |-> "notify", ref |-> IncRef(pkts[p].ref)]]
      BY <1>2, <2>1, Zenon DEF Push, Pushing
    <3> QED
      BY <1>0, <3>1, PacketPut, UQueues, QueuesTyped, Zenon
  <2>2. CASE ~(Len(u.sent) < Capacity)
    <3>1. /\ pkts[p].pc = "push" /\ u' = u /\ UNCHANGED <<runner, conns, closer>>
          /\ pkts' = [pkts EXCEPT ![p].pc = "return"]
      BY <1>2, <2>2, Zenon DEF Push, Pushing
    <3> QED
      BY <3>1, PacketMoves, UMinor, Zenon
  <2> QED
    BY <2>1, <2>2, Zenon
<1>3. CASE Notify(p)
  <2>1. /\ pkts[p].pc = "notify" /\ u' = [u EXCEPT !.notifySent = TRUE]
        /\ UNCHANGED <<runner, conns, closer>> /\ pkts' = [pkts EXCEPT ![p].pc = "return"]
    BY <1>3, Zenon DEF Notify, LeaveToken
  <2> QED
    BY <2>1, PacketMoves, UQueues, Zenon
<1>4. CASE Return(p)
  <2>1. /\ pkts[p].pc = "return" /\ u' = u /\ UNCHANGED <<runner, conns, closer>>
        /\ pkts' = [pkts EXCEPT ![p] = [pc |-> "end", ref |-> DecRef(pkts[p].ref)]]
    BY <1>4, Zenon DEF Return
  <2> QED
    BY <1>0, <2>1, PacketPut, UMinor, Zenon
<1> QED
  BY <1>1, <1>2, <1>3, <1>4, Zenon DEF CallerStep

LEMMA CloserDoes ==
    ASSUME Types, NEW k \in Closers, CloserStep(k)
    PROVE  /\ UNCHANGED <<runner, conns>> /\ closer' \in [Closers -> CloserPC]
           /\ \/ /\ closer[k] = "cancel" /\ pkts' = pkts
                 /\ U(u.sent, u.notifySent, TRUE, u.conn, u.received, u.wirteBack)
              \/ closer[k] \in {"sent", "received"} /\ pkts' = pkts /\ UKept
              \/ /\ closer[k] = "sent" /\ u.sent # <<>>
                 /\ USent(Tail(u.sent)) /\ Released(Head(u.sent))
              \/ /\ closer[k] = "received" /\ u.received # <<>> /\ pkts' = pkts
                 /\ UReceived(Tail(u.received))
<1>1. UNCHANGED <<runner, conns>> /\ closer' \in [Closers -> CloserPC]
  BY Zenon DEF CloserStep, Cancel, DrainSent, DrainReceived, Types, CloserPC
<1>2. CASE Cancel(k)
  <2>1. closer[k] = "cancel" /\ pkts' = pkts /\ u' = [u EXCEPT !.done = TRUE]
    BY <1>2, Zenon DEF Cancel
  <2>2. U(u.sent, u.notifySent, TRUE, u.conn, u.received, u.wirteBack)
    BY <2>1, Zenon DEF Types, UType, U
  <2> QED
    BY <1>1, <2>1, <2>2, Zenon
<1>3. CASE DrainSent(k)
  <2>1. CASE u.sent = <<>>
    BY <1>1, <1>3, <2>1, UMinor, Zenon DEF DrainSent
  <2>2. CASE u.sent # <<>>
    <3>1. PICK h \in Pkts : h = Head(u.sent)
      BY <2>2, QueuesTyped, Zenon
    <3>2. /\ closer[k] = "sent" /\ u' = [u EXCEPT !.sent = Tail(u.sent)]
          /\ pkts' = [pkts EXCEPT ![h].ref = DecRef(@)]
      BY <1>3, <2>2, <3>1, Zenon DEF DrainSent
    <3>3. USent(Tail(u.sent)) /\ Released(h)
      BY <2>2, <3>2, QueuesTyped, UQueues, PacketReleased, Zenon
    <3> QED
      BY <1>1, <2>2, <3>1, <3>2, <3>3, Zenon
  <2> QED
    BY <2>1, <2>2, Zenon
<1>4. CASE DrainReceived(k)
  <2>1. /\ closer[k] = "received" /\ pkts' = pkts
        /\ u' = u \/ (u.received # <<>> /\ u' = [u EXCEPT !.received = Tail(u.received)])
    BY <1>4, Zenon DEF DrainReceived
  <2> QED
    BY <1>1, <2>1, QueuesTyped, UQueues, UMinor, Zenon
<1> QED
  BY <1>2, <1>3, <1>4, Zenon DEF CloserStep

Runner(pc, pkt, c) ==
    runner' \in RunnerType /\ runner'.pc = pc /\ runner'.pkt = pkt /\ runner'.c = c

LEMMA RunnerSteps ==
    ASSUME Types
    PROVE  /\ RSelect =>
                /\ runner.pc = "select" /\ UNCHANGED <<pkts, conns, closer>>
                /\ \/ u.done /\ UKept /\ Runner("exit", runner.pkt, runner.c)
                   \/ UToken(FALSE) /\ Runner("pop", runner.pkt, runner.c)
           /\ RPop =>
                /\ runner.pc = "pop" /\ UNCHANGED <<pkts, conns, closer>>
                /\ \/ u.sent = <<>> /\ UKept /\ Runner("select", NoPkt, 0)
                   \/ u.sent # <<>> /\ USent(Tail(u.sent)) /\ Runner("one", Head(u.sent), 0)
           /\ RReuse =>
                /\ runner.pc = "one" /\ ~NeedDial /\ UNCHANGED <<pkts, conns, closer>>
                /\ UKept /\ Runner("write", runner.pkt, u.conn)
           /\ RStore =>
                /\ runner.pc = "store" /\ UNCHANGED <<pkts, conns, closer>>
                /\ U(u.sent, u.notifySent, u.done, runner.c, u.received, TRUE)
                /\ Runner("write", runner.pkt, runner.c)
           /\ RClosed =>
                /\ runner.pc = "closing" /\ closer["runner"] = "end"
                /\ UNCHANGED <<pkts, conns, closer>>
                /\ UKept /\ Runner("select", NoPkt, 0)
<1>0. "none" \in Pkts \cup {NoPkt} /\ 0 \in 0..MaxConns
  BY SourceControlConstants DEF NoPkt
<1>1. ASSUME RSelect
      PROVE  /\ runner.pc = "select" /\ UNCHANGED <<pkts, conns, closer>>
             /\ \/ u.done /\ UKept /\ Runner("exit", runner.pkt, runner.c)
                \/ UToken(FALSE) /\ Runner("pop", runner.pkt, runner.c)
  <2>1. CASE u.done /\ u' = u /\ runner' = [runner EXCEPT !.pc = "exit"]
    <3>1. Runner("exit", runner.pkt, runner.c)
      BY <2>1, Zenon DEF Types, RunnerType, Runner
    <3> QED
      BY <1>1, <2>1, <3>1, UMinor, Zenon DEF RSelect
  <2>2. CASE u' = [u EXCEPT !.notifySent = FALSE] /\ runner' = [runner EXCEPT !.pc = "pop"]
    <3>1. Runner("pop", runner.pkt, runner.c)
      BY <2>2, Zenon DEF Types, RunnerType, Runner
    <3> QED
      BY <1>1, <2>2, <3>1, UQueues, Zenon DEF RSelect
  <2> QED
    BY <1>1, <2>1, <2>2, Zenon DEF RSelect
<1>2. ASSUME RPop
      PROVE  /\ runner.pc = "pop" /\ UNCHANGED <<pkts, conns, closer>>
             /\ \/ u.sent = <<>> /\ UKept /\ Runner("select", NoPkt, 0)
                \/ u.sent # <<>> /\ USent(Tail(u.sent)) /\ Runner("one", Head(u.sent), 0)
  <2>1. CASE u.sent = <<>>
    <3>1. Runner("select", NoPkt, 0)
      BY <1>0, <1>2, <2>1 DEF RPop, Waiting, RunnerType, Runner
    <3> QED
      BY <1>2, <2>1, <3>1, UMinor, Zenon DEF RPop
  <2>2. CASE u.sent # <<>>
    <3>1. Runner("one", Head(u.sent), 0)
      BY <1>0, <1>2, <2>2, QueuesTyped DEF RPop, RunnerType, Runner
    <3>2. USent(Tail(u.sent))
      BY <1>2, <2>2, QueuesTyped, UQueues, Zenon DEF RPop
    <3> QED
      BY <1>2, <2>2, <3>1, <3>2, Zenon DEF RPop
  <2> QED
    BY <2>1, <2>2, Zenon
<1>3. ASSUME RReuse
      PROVE  /\ runner.pc = "one" /\ ~NeedDial /\ UNCHANGED <<pkts, conns, closer>>
             /\ UKept /\ Runner("write", runner.pkt, u.conn)
  <2>1. u.conn \in 0..MaxConns
    BY Zenon DEF Types, UType
  <2>2. Runner("write", runner.pkt, u.conn)
    BY <1>3, <2>1, Zenon DEF RReuse, Types, RunnerType, Runner
  <2> QED
    BY <1>3, <2>2, UMinor, Zenon DEF RReuse
<1>4. ASSUME RStore
      PROVE  /\ runner.pc = "store" /\ UNCHANGED <<pkts, conns, closer>>
             /\ U(u.sent, u.notifySent, u.done, runner.c, u.received, TRUE)
             /\ Runner("write", runner.pkt, runner.c)
  <2>1. runner.c \in 0..MaxConns
    BY Zenon DEF Types, RunnerType
  <2>2. Runner("write", runner.pkt, runner.c)
    BY <1>4, Zenon DEF RStore, Types, RunnerType, Runner
  <2>3. U(u.sent, u.notifySent, u.done, runner.c, u.received, TRUE)
    BY <1>4, <2>1, Zenon DEF RStore, Types, UType, U
  <2> QED
    BY <1>4, <2>2, <2>3, Zenon DEF RStore
<1>5. ASSUME RClosed
      PROVE  /\ runner.pc = "closing" /\ closer["runner"] = "end"
             /\ UNCHANGED <<pkts, conns, closer>>
             /\ UKept /\ Runner("select", NoPkt, 0)
  <2>1. Runner("select", NoPkt, 0)
    BY <1>0, <1>5, Zenon DEF RClosed, Waiting, RunnerType, Runner
  <2> QED
    BY <1>5, <2>1, UMinor, Zenon DEF RClosed
<1> QED
  BY <1>1, <1>2, <1>3, <1>4, <1>5, Zenon

Fresh == [Unused EXCEPT !.loop = "start"]

LEMMA DialDoes ==
    ASSUME Types, RDial
    PROVE  /\ runner.pc = "one" /\ NeedDial /\ UNCHANGED <<pkts, closer>> /\ UKept
           /\ \E c \in Conns : /\ conns[c] = Unused /\ Socket(c, Fresh)
                               /\ Runner("store", runner.pkt, c)
<1>1. PICK c \in Conns :
        /\ conns[c] = Unused /\ conns' = [conns EXCEPT ![c].loop = "start"]
        /\ runner' = [runner EXCEPT !.pc = "store", !.c = c]
  BY Zenon DEF RDial, Dialing
<1>2. Fresh \in ConnType
  BY Zenon DEF Fresh, Unused, ConnType, LoopPC, WriterPC
<1>3. conns' = [conns EXCEPT ![c] = Fresh]
  BY <1>1, Zenon DEF Fresh
<1>4. Socket(c, Fresh)
  BY <1>2, <1>3, SocketPut, Zenon
<1>5. c \in 0..MaxConns
  BY SourceControlConstants DEF Conns
<1>6. Runner("store", runner.pkt, c)
  BY <1>1, <1>5, Zenon DEF Types, RunnerType, Runner
<1>7. runner.pc = "one" /\ NeedDial /\ UNCHANGED <<pkts, closer>> /\ u' = u
  BY Zenon DEF RDial, Dialing
<1> QED
  BY <1>1, <1>4, <1>6, <1>7, UMinor, Zenon

\* handleOne returns.
LEMMA DoneDoes ==
    ASSUME Types, RunnerHolds, runner.pc \in Holding, NEW block \in BOOLEAN, Done(block)
    PROVE  /\ runner.pkt \in Pkts /\ Released(runner.pkt)
           /\ \E to \in {"pop", "closing"} : Runner(to, NoPkt, 0)
           /\ closer' \in [Closers -> CloserPC]
           /\ \A k \in Closers : closer'[k] = closer[k] \/ closer'[k] = "cancel"
<1>1. PICK p \in Pkts : p = runner.pkt
  BY Zenon DEF Types, RunnerHolds, RunnerType
<1>2. Released(p)
  BY <1>1, PacketReleased, Zenon DEF Done
<1>3. \E to \in {"pop", "closing"} : Runner(to, NoPkt, 0)
  BY SourceControlConstants DEF Done, Waiting, RunnerType, Runner, NoPkt
<1>4. /\ closer' \in [Closers -> CloserPC]
      /\ \A k \in Closers : closer'[k] = closer[k] \/ closer'[k] = "cancel"
  BY Zenon DEF Done, Types, CloserPC
<1> QED
  BY <1>1, <1>2, <1>3, <1>4, Zenon

\* handleOne returns, after a failed dial or a write.
Finishes ==
    /\ runner.pc \in Holding /\ UKept /\ \E block \in BOOLEAN : Done(block)
    /\ \/ conns' = conns
       \/ /\ runner.c \in Conns /\ conns[runner.c].loop # "none"
          /\ \E r \in ConnType : /\ Socket(runner.c, r) /\ r.loop = conns[runner.c].loop
                                 /\ r.closed = conns[runner.c].closed /\ runner.pc = "write"

LEMMA FinishDoes ==
    ASSUME Types, RunnerHolds, RWrite \/ \E block \in BOOLEAN : RDialFails(block)
    PROVE  Finishes
<1>1. ASSUME NEW block \in BOOLEAN, RDialFails(block) PROVE Finishes
  BY <1>1, UMinor, Zenon DEF RDialFails, Finishes, Holding
<1>2. CASE RWrite
  <2>1. PICK c \in Conns : c = runner.c /\ conns[c].loop # "none"
    BY <1>2, Zenon DEF RWrite, RunnerHolds
  <2>2. /\ runner.pc = "write" /\ u' = u
        /\ \E block \in BOOLEAN : Done(block)
        /\ conns' = conns \/ conns' = [conns EXCEPT ![c].written = TRUE]
    BY <1>2, <2>1, Zenon DEF RWrite
  <2> DEFINE r == [conns[c] EXCEPT !.written = TRUE]
  <2>3. r \in ConnType /\ r.loop = conns[c].loop /\ r.closed = conns[c].closed
    BY Zenon DEF Types, ConnType
  <2>4. conns' = conns \/ Socket(c, r)
    BY <2>2, <2>3, SocketPut, Zenon
  <2> QED
    BY <2>1, <2>2, <2>3, <2>4, UMinor, Zenon DEF Finishes, Holding
<1> QED
  BY <1>1, <1>2, Zenon

\* Time passes, somebody calls Close, or nothing happens.
LEMMA OtherDoes ==
    ASSUME Types, Age \/ (\E k \in Outside : Call(k)) \/ UNCHANGED vars
    PROVE  /\ UNCHANGED <<pkts, runner, conns>> /\ UKept
           /\ closer' \in [Closers -> CloserPC]
           /\ \A k \in Closers : closer'[k] = closer[k] \/ closer'[k] = "cancel"
<1>1. UNCHANGED <<pkts, runner, conns>>
  BY Zenon DEF Age, Call, vars
<1>2. UKept
  <2>1. u' = u \/ u' = [u EXCEPT !.aged = TRUE]
    BY Zenon DEF Age, Call, vars
  <2> QED
    BY <2>1, UMinor, Zenon
<1>3. closer' = closer \/ \E k \in Closers : closer' = [closer EXCEPT ![k] = "cancel"]
  BY Zenon DEF Age, Call, vars, Closers
<1>4. /\ closer' \in [Closers -> CloserPC]
      /\ \A k \in Closers : closer'[k] = closer[k] \/ closer'[k] = "cancel"
  BY <1>3, Zenon DEF Types, CloserPC
<1> QED
  BY <1>1, <1>2, <1>4, Zenon

Others == Age \/ (\E k \in Outside : Call(k)) \/ UNCHANGED vars
Finish == RWrite \/ \E block \in BOOLEAN : RDialFails(block)

LEMMA Steps ==
    [Next]_vars <=>
        \/ \E p \in Pkts : CallerStep(p)
        \/ RSelect \/ RPop \/ RReuse \/ RStore \/ RClosed \/ RDial \/ Finish
        \/ \E c \in Conns : LoopStep(c) \/ WriterStep(c)
        \/ \E k \in Closers : CloserStep(k)
        \/ Others
  BY Zenon DEF Next, RunnerStep, Others, Finish

LEMMA TypesNext == Types /\ RunnerHolds /\ [Next]_vars => Types' /\ RunnerHolds'
<1> SUFFICES ASSUME Types, RunnerHolds, [Next]_vars PROVE Types' /\ RunnerHolds'
  BY Zenon
<1>0. /\ u.conn \in 0..MaxConns /\ Conns = 1..MaxConns /\ runner.pkt \in Pkts \cup {NoPkt}
      /\ NoPkt \notin Pkts /\ MaxConns \in Nat
  BY SourceControlConstants, Zenon DEF Types, UType, RunnerType, Conns, NoPkt
<1>1. ASSUME NEW p \in Pkts, CallerStep(p) PROVE Types' /\ RunnerHolds'
  <2>1. /\ UNCHANGED <<runner, conns, closer>> /\ pkts' \in [Pkts -> PktType] /\ u' \in UType
        /\ u'.conn = u.conn
    BY <1>1, CallerDoes, Zenon DEF Handler, Packet, UKept, USent, UToken, U
  <2> QED
    BY <2>1, Zenon DEF Types, RunnerHolds
<1>2. CASE RSelect
  <2>1. /\ UNCHANGED <<pkts, conns, closer>> /\ u' \in UType /\ u'.conn = u.conn
        /\ runner.pc = "select" /\ runner' \in RunnerType /\ runner'.pkt = runner.pkt
        /\ runner'.pc \in {"exit", "pop"}
    BY <1>2, RunnerSteps, Zenon DEF UKept, USent, UToken, U, Runner
  <2> QED
    BY <2>1, Zenon DEF Types, RunnerHolds, Holding
<1>3. CASE RPop
  <2>1. /\ UNCHANGED <<pkts, conns, closer>> /\ u' \in UType /\ u'.conn = u.conn
        /\ runner' \in RunnerType
        /\ \/ runner'.pc = "select" /\ runner'.pkt = NoPkt
           \/ runner'.pc = "one" /\ runner'.pkt = Head(u.sent) /\ u.sent # <<>>
    BY <1>3, RunnerSteps, Zenon DEF UKept, USent, U, Runner
  <2>2. u.sent # <<>> => Head(u.sent) # NoPkt
    BY <1>0, QueuesTyped, Zenon
  <2> QED
    BY <2>1, <2>2, Zenon DEF Types, RunnerHolds, Holding
<1>4. CASE RReuse
  <2>1. /\ UNCHANGED <<pkts, conns, closer>> /\ u' \in UType /\ u'.conn = u.conn
        /\ runner' \in RunnerType /\ runner.pc = "one" /\ runner'.pc = "write"
        /\ runner'.pkt = runner.pkt /\ runner'.c = u.conn /\ ~NeedDial
    BY <1>4, RunnerSteps, Zenon DEF UKept, USent, U, Runner
  <2>2. u.conn # 0 /\ u.conn \in Conns
    BY <1>0, <2>1 DEF NeedDial
  <2> QED
    BY <2>1, <2>2, Zenon DEF Types, RunnerHolds, Holding
<1>5. CASE RStore
  <2>1. /\ UNCHANGED <<pkts, conns, closer>> /\ u' \in UType /\ u'.conn = runner.c
        /\ runner' \in RunnerType /\ runner.pc = "store" /\ runner'.pc = "write"
        /\ runner'.pkt = runner.pkt /\ runner'.c = runner.c
    BY <1>5, RunnerSteps, Zenon DEF U, Runner
  <2> QED
    BY <2>1, Zenon DEF Types, RunnerHolds, Holding
<1>6. CASE RClosed
  <2>1. /\ UNCHANGED <<pkts, conns, closer>> /\ u' \in UType /\ u'.conn = u.conn
        /\ runner' \in RunnerType /\ runner'.pc = "select" /\ runner'.pkt = NoPkt
    BY <1>6, RunnerSteps, Zenon DEF UKept, USent, U, Runner
  <2> QED
    BY <2>1, Zenon DEF Types, RunnerHolds, Holding
<1>7. CASE RDial
  <2>1. PICK c \in Conns : Socket(c, Fresh) /\ Runner("store", runner.pkt, c)
    BY <1>7, DialDoes, Zenon
  <2>2. /\ UNCHANGED <<pkts, closer>> /\ u' \in UType /\ u'.conn = u.conn /\ runner.pc = "one"
    BY <1>7, DialDoes, Zenon DEF UKept, USent, U
  <2>3. /\ conns' \in [Conns -> ConnType] /\ conns'[c].loop = "start"
        /\ \A b \in Conns \ {c} : conns'[b] = conns[b]
    BY <2>1, Zenon DEF Socket, Fresh, Unused
  <2>4. runner' \in RunnerType /\ runner'.pc = "store" /\ runner'.pkt = runner.pkt /\ runner'.c = c
    BY <2>1, Zenon DEF Runner
  <2>5. u.conn # 0 => conns'[u.conn].loop # "none"
    BY <1>0, <2>3 DEF RunnerHolds
  <2> QED
    BY <2>2, <2>3, <2>4, <2>5, Zenon DEF Types, RunnerHolds, Holding
<1>8. CASE Finish
  <2>1. Finishes
    BY <1>8, FinishDoes, Zenon DEF Finish
  <2>2. PICK block \in BOOLEAN : Done(block)
    BY <2>1, Zenon DEF Finishes
  <2>3. /\ pkts' \in [Pkts -> PktType] /\ closer' \in [Closers -> CloserPC]
        /\ runner' \in RunnerType /\ runner'.pc \in {"pop", "closing"} /\ runner'.pkt = NoPkt
    BY <2>1, <2>2, DoneDoes, Zenon DEF Finishes, Released, Packet, Runner
  <2>4. u' \in UType /\ u'.conn = u.conn
    BY <2>1, Zenon DEF Finishes, UKept, USent, U
  <2>5. conns' \in [Conns -> ConnType] /\ \A b \in Conns : conns'[b].loop = conns[b].loop
    BY <2>1, Zenon DEF Finishes, Socket, Types
  <2>6. u.conn # 0 => conns'[u.conn].loop # "none"
    BY <1>0, <2>5 DEF RunnerHolds
  <2> QED
    BY <2>3, <2>4, <2>5, <2>6, Zenon DEF Types, RunnerHolds, Holding
<1>9. ASSUME NEW c \in Conns, LoopStep(c) \/ WriterStep(c) PROVE Types' /\ RunnerHolds'
  <2>1. UNCHANGED <<pkts, runner, closer>> /\ u' \in UType /\ u'.conn = u.conn
    BY <1>9, LoopDoes, WriterDoes, Zenon DEF UKept, USent, UReceived, U
  <2>2. \E r \in ConnType : Socket(c, r) /\ (r.loop # "none" \/ r.loop = conns[c].loop)
    BY <1>9, LoopDoes, WriterDoes, Zenon DEF Looped, Wrote
  <2>3. /\ conns' \in [Conns -> ConnType]
        /\ \A b \in Conns : conns[b].loop # "none" => conns'[b].loop # "none"
    BY <2>2, Zenon DEF Socket
  <2>4. u.conn # 0 => conns'[u.conn].loop # "none"
    BY <1>0, <2>3 DEF RunnerHolds
  <2> QED
    BY <2>1, <2>3, <2>4, Zenon DEF Types, RunnerHolds
<1>10. ASSUME NEW k \in Closers, CloserStep(k) PROVE Types' /\ RunnerHolds'
  <2>1. /\ UNCHANGED <<runner, conns>> /\ closer' \in [Closers -> CloserPC]
        /\ pkts' \in [Pkts -> PktType] /\ u' \in UType /\ u'.conn = u.conn
    BY <1>10, CloserDoes, Zenon DEF Types, Released, Packet, UKept, USent, UReceived, U
  <2> QED
    BY <2>1, Zenon DEF Types, RunnerHolds
<1>11. CASE Others
  <2>1. /\ UNCHANGED <<pkts, runner, conns>> /\ closer' \in [Closers -> CloserPC]
        /\ u' \in UType /\ u'.conn = u.conn
    BY <1>11, OtherDoes, Zenon DEF Others, UKept, USent, U
  <2> QED
    BY <2>1, Zenon DEF Types, RunnerHolds
<1> QED
  BY <1>1, <1>2, <1>3, <1>4, <1>5, <1>6, <1>7, <1>8, <1>9, <1>10, <1>11, Steps, Zenon
-----------------------------------------------------------------------------
(* References. *)

Queued(p, s) == \E i \in 1..Len(s) : s[i] = p
Distinct(s) == \A i, j \in 1..Len(s) : s[i] = s[j] => i = j

LEMMA QueueAppend ==
    ASSUME NEW s \in Seq(Pkts), NEW p \in Pkts
    PROVE  /\ \A q \in Pkts : Queued(q, Append(s, p)) <=> Queued(q, s) \/ q = p
           /\ Distinct(s) /\ ~Queued(p, s) => Distinct(Append(s, p))
  BY DEF Queued, Distinct

LEMMA QueueTail ==
    ASSUME NEW s \in Seq(Pkts), s # <<>>
    PROVE  /\ \A q \in Pkts : Queued(q, s) <=> q = Head(s) \/ Queued(q, Tail(s))
           /\ Distinct(s) => Distinct(Tail(s)) /\ ~Queued(Head(s), Tail(s))
<1>1. /\ Len(Tail(s)) = Len(s) - 1 /\ Len(s) \in Nat \ {0} /\ Head(s) = s[1]
      /\ \A i \in 1..Len(s) - 1 : Tail(s)[i] = s[i + 1]
  OBVIOUS
<1>2. ASSUME NEW q \in Pkts PROVE Queued(q, s) <=> q = Head(s) \/ Queued(q, Tail(s))
  <2>1. ASSUME NEW i \in 1..Len(s), s[i] = q, i # 1 PROVE Queued(q, Tail(s))
    <3>1. i - 1 \in 1..Len(Tail(s)) /\ Tail(s)[i - 1] = q
      BY <1>1, <2>1
    <3> QED
      BY <3>1, Zenon DEF Queued
  <2>2. ASSUME NEW i \in 1..Len(Tail(s)), Tail(s)[i] = q PROVE Queued(q, s)
    <3>1. i + 1 \in 1..Len(s) /\ s[i + 1] = q
      BY <1>1, <2>2
    <3> QED
      BY <3>1, Zenon DEF Queued
  <2> QED
    BY <1>1, <2>1, <2>2 DEF Queued
<1>3. ASSUME Distinct(s) PROVE Distinct(Tail(s)) /\ ~Queued(Head(s), Tail(s))
  BY <1>1, <1>3 DEF Distinct, Queued
<1> QED
  BY <1>2, <1>3, Zenon

One(b) == IF b THEN 1 ELSE 0

\* A packet has one holder at a time besides its handler, and is counted.
RefsOf(p) ==
    /\ pkts[p].ref = One(pkts[p].pc # "end") + One(Queued(p, u.sent)) + One(runner.pkt = p) - 1
    /\ runner.pkt = p => ~Queued(p, u.sent)
    /\ pkts[p].pc \in {"new", "push"} => ~Queued(p, u.sent) /\ runner.pkt # p
Refs == Distinct(u.sent) /\ \A p \in Pkts : RefsOf(p)

LEMMA RefsInit == Init => Refs
  BY SourceControlConstants DEF Init, Refs, RefsOf, Queued, Distinct, One, Waiting, NoPkt


LEMMA RefsNext == Types /\ RunnerHolds /\ Refs /\ [Next]_vars => Refs'
<1> SUFFICES ASSUME Types, RunnerHolds, Refs, [Next]_vars PROVE Refs'
  BY Zenon
<1>0. /\ u.sent \in Seq(Pkts) /\ NoPkt \notin Pkts /\ Distinct(u.sent)
      /\ pkts \in [Pkts -> PktType] /\ \A p \in Pkts : pkts[p].ref \in Int
  BY SourceControlConstants, Zenon DEF Types, UType, PktType, NoPkt, Refs
<1>1. ASSUME pkts' = pkts, u'.sent = u.sent, runner'.pkt = runner.pkt PROVE Refs'
  BY <1>1 DEF Refs, RefsOf
<1>2. ASSUME NEW p \in Pkts, NEW from, NEW to, Handler(p, from, to), u'.sent = u.sent,
             runner' = runner, from # "end", to # "end", to = "push" => from = "new", to # "new"
      PROVE  Refs'
  <2>1. PICK r \in PktType : Packet(p, r) /\ r.pc = to /\ r.ref = pkts[p].ref /\ pkts[p].pc = from
    BY <1>2, Zenon DEF Handler
  <2>2. /\ \A q \in Pkts \ {p} : pkts'[q] = pkts[q]
        /\ pkts'[p].ref = pkts[p].ref /\ pkts'[p].pc = to
    BY <2>1, Zenon DEF Packet
  <2>3. ASSUME NEW q \in Pkts PROVE RefsOf(q)'
    <3>1. CASE q = p
      BY <1>2, <2>1, <2>2, <3>1 DEF Refs, RefsOf
    <3>2. CASE q # p
      BY <1>2, <2>2, <3>2 DEF Refs, RefsOf
    <3> QED
      BY <3>1, <3>2, Zenon
  <2> QED
    BY <1>0, <1>2, <2>3, Zenon DEF Refs
<1>3. ASSUME NEW p \in Pkts, USent(Append(u.sent, p)), pkts[p].pc = "push", runner' = runner,
             Packet(p, [pc |-> "notify", ref |-> IncRef(pkts[p].ref)])
      PROVE  Refs'
  <2>1. /\ u'.sent = Append(u.sent, p) /\ pkts'[p].pc = "notify"
        /\ pkts'[p].ref = IncRef(pkts[p].ref)
        /\ \A q \in Pkts \ {p} : pkts'[q] = pkts[q]
    BY <1>3 DEF USent, U, Packet
  <2>2. RefsOf(p)
    BY Zenon DEF Refs
  <2>3. Distinct(u'.sent) /\ \A q \in Pkts : Queued(q, u'.sent) <=> Queued(q, u.sent) \/ q = p
    BY <1>0, <1>3, <2>1, <2>2, QueueAppend DEF RefsOf
  <2>4. RefsOf(p)'
    BY <1>3, <2>1, <2>2, <2>3 DEF RefsOf, One, IncRef
  <2>5. ASSUME NEW q \in Pkts \ {p} PROVE RefsOf(q)'
    <3>1. RefsOf(q) /\ pkts'[q] = pkts[q] /\ (Queued(q, u'.sent) <=> Queued(q, u.sent))
      BY <2>1, <2>3, Zenon DEF Refs
    <3> QED
      BY <1>3, <3>1, Zenon DEF RefsOf, One
  <2> QED
    BY <2>3, <2>4, <2>5, Zenon DEF Refs
<1>4. ASSUME NEW p \in Pkts, UKept, pkts[p].pc = "return", runner' = runner,
             Packet(p, [pc |-> "end", ref |-> DecRef(pkts[p].ref)])
      PROVE  Refs'
  <2>1. /\ u'.sent = u.sent /\ pkts'[p].pc = "end" /\ pkts'[p].ref = DecRef(pkts[p].ref)
        /\ \A q \in Pkts \ {p} : pkts'[q] = pkts[q]
    BY <1>4 DEF UKept, USent, U, Packet
  <2>2. RefsOf(p)
    BY DEF Refs
  <2>3. RefsOf(p)'
    BY <1>4, <2>1, <2>2 DEF RefsOf, One, DecRef
  <2>4. ASSUME NEW q \in Pkts \ {p} PROVE RefsOf(q)'
    BY <1>4, <2>1 DEF Refs, RefsOf
  <2> QED
    BY <1>0, <2>1, <2>3, <2>4, Zenon DEF Refs
<1>5. ASSUME NEW p \in Pkts, CallerStep(p) PROVE Refs'
  <2>1. UKept \/ UToken(TRUE) => u'.sent = u.sent
    BY Zenon DEF UKept, UToken, USent, U
  <2> QED
    BY <1>2, <1>3, <1>4, <1>5, <2>1, CallerDoes, Zenon
<1>6. CASE RPop
  <2>1. /\ pkts' = pkts /\ runner.pkt = NoPkt
    BY <1>6, RunnerSteps, Zenon DEF RunnerHolds, Holding
  <2>2. CASE UKept /\ Runner("select", NoPkt, 0)
    BY <1>1, <2>1, <2>2, Zenon DEF UKept, USent, U, Runner
  <2>3. CASE u.sent # <<>> /\ USent(Tail(u.sent)) /\ Runner("one", Head(u.sent), 0)
    <3>1. PICK h \in Pkts : h = Head(u.sent)
      BY <2>3, QueuesTyped, Zenon
    <3>2. u'.sent = Tail(u.sent) /\ runner'.pkt = h
      BY <2>3, <3>1, Zenon DEF USent, U, Runner
    <3>3. /\ Distinct(u'.sent) /\ ~Queued(h, u'.sent)
          /\ \A q \in Pkts : Queued(q, u.sent) <=> q = h \/ Queued(q, u'.sent)
      BY <1>0, <2>3, <3>1, <3>2, QueueTail
    <3>4. ASSUME NEW q \in Pkts PROVE RefsOf(q)'
      <4>1. RefsOf(q) /\ runner.pkt # q
        BY <1>0, <2>1, Zenon DEF Refs
      <4>2. CASE q = h
        BY <2>1, <3>2, <3>3, <4>1, <4>2 DEF RefsOf, One
      <4>3. CASE q # h
        BY <2>1, <3>2, <3>3, <4>1, <4>3, Zenon DEF RefsOf, One
      <4> QED
        BY <4>2, <4>3, Zenon
    <3> QED
      BY <3>3, <3>4, Zenon DEF Refs
  <2> QED
    BY <1>6, <2>2, <2>3, RunnerSteps, Zenon
<1>7. CASE Finish
  <2>1. Finishes /\ runner.pc \in Holding
    BY <1>7, FinishDoes, Zenon DEF Finish, Finishes
  <2>2. PICK p \in Pkts : p = runner.pkt /\ Released(p) /\ runner'.pkt = NoPkt
    BY <2>1, DoneDoes, Zenon DEF Finishes, Runner
  <2>3. /\ u'.sent = u.sent /\ pkts'[p].pc = pkts[p].pc /\ pkts'[p].ref = DecRef(pkts[p].ref)
        /\ \A q \in Pkts \ {p} : pkts'[q] = pkts[q]
    BY <2>1, <2>2, Zenon DEF Finishes, UKept, USent, U, Released, Packet
  <2>4. RefsOf(p) /\ p # NoPkt
    BY <1>0, Zenon DEF Refs
  <2>5. RefsOf(p)'
    BY <2>2, <2>3, <2>4 DEF RefsOf, One, DecRef
  <2>6. ASSUME NEW q \in Pkts \ {p} PROVE RefsOf(q)'
    <3>1. RefsOf(q) /\ q # NoPkt /\ runner.pkt # q
      BY <1>0, <2>2, Zenon DEF Refs
    <3> QED
      BY <2>2, <2>3, <3>1, Zenon DEF RefsOf, One
  <2> QED
    BY <1>0, <2>3, <2>5, <2>6, Zenon DEF Refs
<1>8. ASSUME NEW k \in Closers, CloserStep(k) PROVE Refs'
  <2>1. CASE pkts' = pkts /\ u'.sent = u.sent
    BY <1>1, <1>8, <2>1, CloserDoes, Zenon
  <2>2. CASE u.sent # <<>> /\ USent(Tail(u.sent)) /\ Released(Head(u.sent))
    <3>1. PICK h \in Pkts : h = Head(u.sent)
      BY <2>2, QueuesTyped, Zenon
    <3>2. /\ u'.sent = Tail(u.sent) /\ runner' = runner
          /\ pkts'[h].pc = pkts[h].pc /\ pkts'[h].ref = DecRef(pkts[h].ref)
          /\ \A q \in Pkts \ {h} : pkts'[q] = pkts[q]
      BY <1>8, <2>2, <3>1, CloserDoes, Zenon DEF USent, U, Released, Packet
    <3>3. /\ Distinct(u'.sent) /\ ~Queued(h, u'.sent)
          /\ \A q \in Pkts : Queued(q, u.sent) <=> q = h \/ Queued(q, u'.sent)
      BY <1>0, <2>2, <3>1, <3>2, QueueTail
    <3>4. RefsOf(h)
      BY Zenon DEF Refs
    <3>5. RefsOf(h)'
      BY <3>2, <3>3, <3>4 DEF RefsOf, One, DecRef
    <3>6. ASSUME NEW q \in Pkts \ {h} PROVE RefsOf(q)'
      <4>1. RefsOf(q) /\ (Queued(q, u'.sent) <=> Queued(q, u.sent))
        BY <3>3, Zenon DEF Refs
      <4> QED
        BY <3>2, <4>1, Zenon DEF RefsOf, One
    <3> QED
      BY <3>3, <3>5, <3>6, Zenon DEF Refs
  <2> QED
    BY <1>8, <2>1, <2>2, CloserDoes, Zenon DEF UKept, USent, UReceived, U
<1>9. CASE RSelect \/ RReuse \/ RStore
  <2>1. pkts' = pkts /\ u'.sent = u.sent /\ runner'.pkt = runner.pkt
    BY <1>9, RunnerSteps, Zenon DEF UKept, UToken, USent, U, Runner
  <2> QED
    BY <1>1, <2>1, Zenon
<1>10. CASE RClosed
  <2>1. pkts' = pkts /\ u'.sent = u.sent /\ runner'.pkt = NoPkt /\ runner.pc = "closing"
    BY <1>10, RunnerSteps, Zenon DEF UKept, USent, U, Runner
  <2> QED
    BY <1>1, <2>1, Zenon DEF RunnerHolds, Holding
<1>11. CASE RDial
  <2>1. pkts' = pkts /\ u'.sent = u.sent /\ runner'.pkt = runner.pkt
    BY <1>11, DialDoes, Zenon DEF UKept, USent, U, Runner
  <2> QED
    BY <1>1, <2>1
<1>12. ASSUME NEW c \in Conns, LoopStep(c) \/ WriterStep(c) PROVE Refs'
  <2>1. pkts' = pkts /\ u'.sent = u.sent /\ runner' = runner
    BY <1>12, LoopDoes, WriterDoes, Zenon DEF UKept, USent, UReceived, U
  <2> QED
    BY <1>1, <2>1, Zenon
<1>13. CASE Others
  <2>1. pkts' = pkts /\ u'.sent = u.sent /\ runner' = runner
    BY <1>13, OtherDoes, Zenon DEF Others, UKept, USent, U
  <2> QED
    BY <1>1, <2>1, Zenon
<1> QED
  BY <1>5, <1>6, <1>7, <1>8, <1>9, <1>10, <1>11, <1>12, <1>13, Steps, Zenon
-----------------------------------------------------------------------------
(* Sockets. *)

\* The socket that the runner has just dialed, or else the one in use.
Current == IF runner.pc = "store" THEN runner.c ELSE u.conn

Sockets ==
    /\ \A c \in Conns : conns[c].loop = "none" => conns[c] = Unused
    /\ \A c \in Conns : conns[c].loop # "none" /\ ~conns[c].closed => c = Current

LEMMA SocketsInit == Init => Sockets
  BY DEF Init, Sockets, Unused

LEMMA SocketsNext == Types /\ RunnerHolds /\ Sockets /\ [Next]_vars => Sockets'
<1> SUFFICES ASSUME Types, RunnerHolds, Sockets, [Next]_vars PROVE Sockets'
  OBVIOUS
<1>0. u.conn \in 0..MaxConns /\ Conns = 1..MaxConns /\ MaxConns \in Nat
  BY SourceControlConstants, Zenon DEF Types, UType, Conns
<1>1. ASSUME u'.conn = u.conn, conns' = conns,
             runner'.pc # "store", runner.pc # "store" \/ runner'.pc = runner.pc
      PROVE  Sockets'
  BY <1>1, Zenon DEF Sockets, Current
<1>2. ASSUME u'.conn = u.conn, conns' = conns, runner' = runner PROVE Sockets'
  BY <1>2, Zenon DEF Sockets, Current
<1>3. ASSUME u'.conn = u.conn, runner' = runner, NEW c \in Conns,
             conns[c].loop # "none", conns'[c].loop # "none",
             conns[c].closed => conns'[c].closed,
             \A b \in Conns \ {c} : conns'[b] = conns[b]
      PROVE  Sockets'
  <2>1. Current' = Current
    BY <1>3, Zenon DEF Current
  <2> QED
    BY <1>3, <2>1, Zenon DEF Sockets
<1>4. CASE RSelect \/ RPop \/ RReuse \/ RClosed
  <2>1. /\ u'.conn = u.conn /\ conns' = conns
        /\ runner.pc \in {"select", "pop", "one", "closing"}
        /\ runner'.pc \in {"exit", "pop", "select", "one", "write"}
    BY <1>4, RunnerSteps, Zenon DEF UKept, USent, UToken, U, Runner
  <2> QED
    BY <1>1, <2>1, Zenon
<1>5. CASE RStore
  <2>1. /\ u'.conn = runner.c /\ conns' = conns /\ runner.pc = "store" /\ runner'.pc = "write"
    BY <1>5, RunnerSteps, Zenon DEF U, Runner
  <2> QED
    BY <2>1, Zenon DEF Sockets, Current
<1>6. CASE RDial
  <2>1. PICK c \in Conns : Socket(c, Fresh) /\ Runner("store", runner.pkt, c)
    BY <1>6, DialDoes, Zenon
  <2>2. NeedDial /\ runner.pc = "one"
    BY <1>6, DialDoes, Zenon
  <2>3. \A b \in Conns : conns[b].loop # "none" => conns[b].closed
    BY <1>0, <2>2 DEF Sockets, Current, NeedDial
  <2>4. /\ Current' = c /\ conns'[c].loop = "start"
        /\ \A b \in Conns \ {c} : conns'[b] = conns[b]
    BY <2>1, Zenon DEF Runner, Current, Socket, Fresh, Unused
  <2> QED
    BY <2>3, <2>4, Zenon DEF Sockets
<1>7. CASE Finish
  <2>1. Finishes /\ runner.pc \in Holding
    BY <1>7, FinishDoes, Zenon DEF Finish, Finishes
  <2>2. u'.conn = u.conn /\ runner'.pc \in {"pop", "closing"}
    BY <2>1, DoneDoes, Zenon DEF Finishes, UKept, USent, U, Runner
  <2>3. runner.pc # "store"
    BY <1>7, Zenon DEF Finish, RWrite, RDialFails
  <2>4. CASE conns' = conns
    BY <1>1, <2>2, <2>3, <2>4, Zenon
  <2>5. CASE conns' # conns
    <3>1. PICK c \in Conns, r \in ConnType :
            /\ Socket(c, r) /\ conns[c].loop # "none"
            /\ r.loop = conns[c].loop /\ r.closed = conns[c].closed
      BY <2>1, <2>5, Zenon DEF Finishes
    <3>2. /\ conns'[c].loop = conns[c].loop /\ conns'[c].closed = conns[c].closed
          /\ \A b \in Conns \ {c} : conns'[b] = conns[b]
      BY <3>1, Zenon DEF Socket
    <3>3. Current' = Current
      BY <2>2, <2>3, Zenon DEF Current
    <3> QED
      BY <3>1, <3>2, <3>3, Zenon DEF Sockets
  <2> QED
    BY <2>4, <2>5, Zenon
<1>8. ASSUME NEW c \in Conns, LoopStep(c) PROVE Sockets'
  <2>1. u'.conn = u.conn /\ runner' = runner
    BY <1>8, LoopDoes, Zenon DEF UKept, USent, UReceived, U
  <2>2. /\ conns[c].loop # "none" /\ conns'[c].loop # "none"
        /\ conns[c].closed => conns'[c].closed
        /\ \A b \in Conns \ {c} : conns'[b] = conns[b]
    BY <1>8, LoopDoes, Zenon DEF Looped, Socket
  <2> QED
    BY <1>3, <2>1, <2>2, Zenon
<1>9. ASSUME NEW c \in Conns, WriterStep(c) PROVE Sockets'
  <2>1. u'.conn = u.conn /\ runner' = runner
    BY <1>9, WriterDoes, Zenon DEF UKept, USent, UReceived, U
  <2>2. /\ conns[c].writer # "none" /\ conns'[c].loop = conns[c].loop
        /\ conns[c].closed => conns'[c].closed
        /\ \A b \in Conns \ {c} : conns'[b] = conns[b]
    BY <1>9, WriterDoes, Zenon DEF Wrote, Socket
  <2>3. conns[c].loop # "none"
    BY <2>2 DEF Sockets, Unused
  <2> QED
    BY <1>3, <2>1, <2>2, <2>3, Zenon
<1>10. ASSUME NEW p \in Pkts, CallerStep(p) PROVE Sockets'
  BY <1>2, <1>10, CallerDoes, Zenon DEF UKept, UToken, USent, U
<1>11. ASSUME NEW k \in Closers, CloserStep(k) PROVE Sockets'
  BY <1>2, <1>11, CloserDoes, Zenon DEF UKept, USent, UReceived, U
<1>12. CASE Others
  BY <1>2, <1>12, OtherDoes, Zenon DEF Others, UKept, USent, U
<1> QED
  BY <1>4, <1>5, <1>6, <1>7, <1>8, <1>9, <1>10, <1>11, <1>12, Steps, Zenon
-----------------------------------------------------------------------------
(* Wake-ups. *)

\* The runner leaves its loop, and Close drains the queue, only when the
\* source is done.
Wakeups ==
    /\ NoLostWakeup
    /\ runner.pc = "exit" => u.done
    /\ \A k \in Closers : closer[k] \in {"sent", "received", "end"} => u.done

LEMMA WakeupsNext == Types /\ RunnerHolds /\ Wakeups /\ [Next]_vars => Wakeups'
<1> SUFFICES ASSUME Types, RunnerHolds, Wakeups, [Next]_vars PROVE Wakeups'
  OBVIOUS
<1>1. ASSUME UNCHANGED <<pkts, runner, closer>>, u'.sent = u.sent,
             u'.notifySent = u.notifySent, u'.done = u.done
      PROVE  Wakeups'
  BY <1>1, Zenon DEF Wakeups, NoLostWakeup
<1>2. ASSUME NEW p \in Pkts, CallerStep(p) PROVE Wakeups'
  <2>1. UNCHANGED <<runner, closer>> /\ u'.done = u.done
    BY <1>2, CallerDoes, Zenon DEF UKept, UToken, USent, U
  <2>2. NoLostWakeup'
    <3>1. ASSUME UKept, \/ Handler(p, "new", "push") \/ Handler(p, "new", "return")
                        \/ Handler(p, "push", "return")
                        \/ /\ pkts[p].pc = "return"
                           /\ Packet(p, [pc |-> "end", ref |-> DecRef(pkts[p].ref)])
          PROVE  NoLostWakeup'
      <4>1. /\ u'.sent = u.sent /\ u'.notifySent = u.notifySent /\ pkts[p].pc # "notify"
            /\ \A q \in Pkts \ {p} : pkts'[q] = pkts[q]
        BY <3>1, Zenon DEF UKept, USent, U, Handler, Packet
      <4> QED
        BY <2>1, <4>1, Zenon DEF Wakeups, NoLostWakeup
    <3>2. ASSUME Packet(p, [pc |-> "notify", ref |-> IncRef(pkts[p].ref)]) PROVE NoLostWakeup'
      BY <3>2 DEF Packet, NoLostWakeup
    <3>3. ASSUME UToken(TRUE) PROVE NoLostWakeup'
      BY <3>3, Zenon DEF UToken, U, NoLostWakeup
    <3> QED
      BY <1>2, <3>1, <3>2, <3>3, CallerDoes, Zenon
  <2> QED
    BY <2>1, <2>2, Zenon DEF Wakeups
<1>3. CASE RSelect
  <2>1. /\ UNCHANGED <<pkts, closer>> /\ u'.done = u.done
        /\ (u.done /\ runner'.pc = "exit") \/ runner'.pc = "pop"
    BY <1>3, RunnerSteps, Zenon DEF UKept, UToken, USent, U, Runner
  <2> QED
    BY <2>1, Zenon DEF Wakeups, NoLostWakeup
<1>4. CASE RPop
  <2>1. /\ UNCHANGED <<pkts, closer>> /\ u'.done = u.done
        /\ (u'.sent = <<>> /\ runner'.pc = "select") \/ runner'.pc = "one"
    BY <1>4, RunnerSteps, Zenon DEF UKept, USent, U, Runner
  <2> QED
    BY <2>1, Zenon DEF Wakeups, NoLostWakeup
<1>5. CASE RReuse \/ RDial \/ RStore
  <2>1. /\ UNCHANGED closer /\ u'.done = u.done /\ runner'.pc \in {"store", "write"}
    BY <1>5, RunnerSteps, DialDoes, Zenon DEF UKept, USent, U, Runner
  <2> QED
    BY <2>1, Zenon DEF Wakeups, NoLostWakeup
<1>6. CASE Finish
  <2>1. Finishes /\ runner.pc \in Holding
    BY <1>6, FinishDoes, Zenon DEF Finish, Finishes
  <2>2. /\ u'.done = u.done /\ runner'.pc \in {"pop", "closing"}
        /\ \A k \in Closers : closer'[k] = closer[k] \/ closer'[k] = "cancel"
    BY <2>1, DoneDoes, Zenon DEF Finishes, UKept, USent, U, Runner
  <2> QED
    BY <2>2, Zenon DEF Wakeups, NoLostWakeup
<1>7. CASE RClosed
  <2>1. /\ closer' = closer /\ u'.done = u.done /\ runner'.pc = "select"
        /\ closer["runner"] = "end"
    BY <1>7, RunnerSteps, Zenon DEF UKept, USent, U, Runner
  <2>2. u.done
    BY <2>1, Zenon DEF Wakeups, Closers
  <2> QED
    BY <2>1, <2>2, Zenon DEF Wakeups, NoLostWakeup
<1>8. ASSUME NEW c \in Conns, LoopStep(c) \/ WriterStep(c) PROVE Wakeups'
  BY <1>1, <1>8, LoopDoes, WriterDoes, Zenon DEF UKept, USent, UReceived, U
<1>9. ASSUME NEW k \in Closers, CloserStep(k) PROVE Wakeups'
  <2>1. u'.done \in {TRUE, u.done} /\ runner' = runner
    BY <1>9, CloserDoes, Zenon DEF UKept, USent, UReceived, U
  <2>2. closer[k] = "cancel" => u'.done
    BY <1>9, CloserDoes, Zenon DEF UKept, USent, UReceived, U
  <2>3. u'.done
    BY <1>9, <2>1, <2>2, CloserDoes, Zenon DEF Wakeups
  <2> QED
    BY <2>1, <2>3, Zenon DEF Wakeups, NoLostWakeup
<1>10. CASE Others
  <2>1. /\ UNCHANGED <<pkts, runner>> /\ u'.sent = u.sent
        /\ u'.notifySent = u.notifySent /\ u'.done = u.done
        /\ \A k \in Closers : closer'[k] = closer[k] \/ closer'[k] = "cancel"
    BY <1>10, OtherDoes, Zenon DEF Others, UKept, USent, U
  <2> QED
    BY <2>1, Zenon DEF Wakeups, NoLostWakeup
<1> QED
  BY <1>2, <1>3, <1>4, <1>5, <1>6, <1>7, <1>8, <1>9, <1>10, Steps, Zenon
-----------------------------------------------------------------------------
(* The write-back function. *)

\* It is there from the first socket stored: before a packet is written, and
\* so before the reply to one is read.
WriteBacks ==
    ~u.wirteBack =>
        /\ u.conn = 0 /\ u.received = <<>> /\ runner.pc # "write"
        /\ \A c \in Conns : ~conns[c].written /\ conns[c].loop # "push"

LEMMA WriteBacksNext == Types /\ RunnerHolds /\ WriteBacks /\ [Next]_vars => WriteBacks'
<1> SUFFICES ASSUME Types, RunnerHolds, WriteBacks, [Next]_vars PROVE WriteBacks'
  OBVIOUS
<1>1. ASSUME conns' = conns, u'.conn = u.conn, u.received = <<>> => u'.received = <<>>,
             u'.wirteBack = u.wirteBack, runner'.pc = "write" => runner.pc = "write"
      PROVE  WriteBacks'
  BY <1>1, Zenon DEF WriteBacks
<1>2. ASSUME NEW p \in Pkts, CallerStep(p) PROVE WriteBacks'
  BY <1>1, <1>2, CallerDoes, Zenon DEF UKept, UToken, USent, U
<1>3. CASE RSelect \/ RPop \/ RClosed
  <2>1. /\ conns' = conns /\ u'.conn = u.conn /\ u'.received = u.received
        /\ u'.wirteBack = u.wirteBack /\ runner'.pc \in {"exit", "pop", "select", "one"}
    BY <1>3, RunnerSteps, Zenon DEF UKept, UToken, USent, U, Runner
  <2> QED
    BY <1>1, <2>1, Zenon
<1>4. CASE RReuse
  <2>1. ~NeedDial /\ u'.wirteBack = u.wirteBack
    BY <1>4, RunnerSteps, Zenon DEF UKept, USent, U
  <2> QED
    BY <2>1, Zenon DEF NeedDial, WriteBacks
<1>5. CASE RDial
  <2>1. PICK c \in Conns : Socket(c, Fresh) /\ Runner("store", runner.pkt, c)
    BY <1>5, DialDoes, Zenon
  <2>2. u'.wirteBack = u.wirteBack /\ u'.conn = u.conn /\ u'.received = u.received
    BY <1>5, DialDoes, Zenon DEF UKept, USent, U
  <2>3. /\ ~conns'[c].written /\ conns'[c].loop = "start" /\ runner'.pc = "store"
        /\ \A b \in Conns \ {c} : conns'[b] = conns[b]
    BY <2>1, Zenon DEF Socket, Fresh, Unused, Runner
  <2> QED
    BY <2>2, <2>3, Zenon DEF WriteBacks
<1>6. CASE RStore
  BY <1>6, RunnerSteps, Zenon DEF U, WriteBacks
<1>7. CASE Finish
  <2>1. Finishes /\ runner.pc \in Holding
    BY <1>7, FinishDoes, Zenon DEF Finish, Finishes
  <2>2. /\ u'.wirteBack = u.wirteBack /\ u'.conn = u.conn /\ u'.received = u.received
        /\ runner'.pc \in {"pop", "closing"}
    BY <2>1, DoneDoes, Zenon DEF Finishes, UKept, USent, U, Runner
  <2>3. runner.pc = "write" \/ conns' = conns
    BY <2>1, Zenon DEF Finishes
  <2> QED
    BY <1>1, <2>2, <2>3, Zenon DEF WriteBacks
<1>8. ASSUME NEW c \in Conns, LoopStep(c) PROVE WriteBacks'
  <2>1. /\ u'.wirteBack = u.wirteBack /\ u'.conn = u.conn /\ runner' = runner
        /\ u'.received = u.received \/ conns[c].loop = "push"
    BY <1>8, LoopDoes, Zenon DEF UKept, UReceived, USent, U
  <2>2. /\ conns'[c].written = conns[c].written
        /\ conns'[c].loop = "push" => conns[c].written
        /\ \A b \in Conns \ {c} : conns'[b] = conns[b]
    BY <1>8, LoopDoes, Zenon DEF Looped, Socket
  <2>3. ASSUME ~u.wirteBack PROVE \A b \in Conns : ~conns'[b].written /\ conns'[b].loop # "push"
    <3>1. ~conns[c].written
      BY <2>3, Zenon DEF WriteBacks
    <3>2. ~conns'[c].written /\ conns'[c].loop # "push"
      BY <2>2, <3>1, Zenon
    <3> QED
      BY <2>2, <2>3, <3>2, Zenon DEF WriteBacks
  <2> QED
    BY <2>1, <2>3, Zenon DEF WriteBacks
<1>9. ASSUME NEW c \in Conns, WriterStep(c) PROVE WriteBacks'
  <2>1. /\ u'.wirteBack = u.wirteBack /\ u'.conn = u.conn /\ runner' = runner
        /\ u.received = <<>> => u'.received = <<>>
    BY <1>9, WriterDoes, Zenon DEF UKept, UReceived, USent, U
  <2>2. /\ conns'[c].written = conns[c].written /\ conns'[c].loop = conns[c].loop
        /\ \A b \in Conns \ {c} : conns'[b] = conns[b]
    BY <1>9, WriterDoes, Zenon DEF Wrote, Socket
  <2> QED
    BY <2>1, <2>2, Zenon DEF WriteBacks
<1>10. ASSUME NEW k \in Closers, CloserStep(k) PROVE WriteBacks'
  <2>1. /\ u'.wirteBack = u.wirteBack /\ u'.conn = u.conn /\ UNCHANGED <<runner, conns>>
        /\ u.received = <<>> => u'.received = <<>>
    BY <1>10, CloserDoes, Zenon DEF UKept, UReceived, USent, U
  <2> QED
    BY <1>1, <2>1, Zenon
<1>11. CASE Others
  BY <1>1, <1>11, OtherDoes, Zenon DEF Others, UKept, USent, U
<1> QED
  BY <1>2, <1>3, <1>4, <1>5, <1>6, <1>7, <1>8, <1>9, <1>10, <1>11, Steps, Zenon
-----------------------------------------------------------------------------
Typed == Types /\ RunnerHolds

LEMMA TypedAlways == Spec => []Typed
<1>1. Init => Typed
  BY TypesInit, Zenon DEF Typed
<1>2. Typed /\ [Next]_vars => Typed'
  BY TypesNext, Zenon DEF Typed
<1> QED
  BY <1>1, <1>2, PTL DEF Spec

\* Where a packet is counts as often as it is held.
LEMMA HoldersCounted ==
    ASSUME Types, Refs, NEW p \in Pkts
    PROVE  pkts[p].ref = Holders(p) - 1
<1> DEFINE places == {i \in DOMAIN u.sent : u.sent[i] = p}
<1>1. u.sent \in Seq(Pkts) /\ DOMAIN u.sent = 1..Len(u.sent)
  BY DEF Types, UType
<1>2. Cardinality(places) = One(Queued(p, u.sent))
  <2>1. CASE Queued(p, u.sent)
    <3>1. PICK i \in 1..Len(u.sent) : u.sent[i] = p
      BY <2>1, Zenon DEF Queued
    <3>2. places = {i}
      BY <1>1, <3>1, Zenon DEF Refs, Distinct
    <3> QED
      BY <2>1, <3>2, FS_Singleton, Zenon DEF One
  <2>2. CASE ~Queued(p, u.sent)
    <3>1. places = {}
      BY <1>1, <2>2, Zenon DEF Queued
    <3> QED
      BY <2>2, <3>1, FS_EmptySet, Zenon DEF One
  <2> QED
    BY <2>1, <2>2, Zenon
<1>3. RefsOf(p)
  BY Zenon DEF Refs
<1> QED
  BY <1>2, <1>3 DEF RefsOf, Holders, One

LEMMA OneOpen ==
    ASSUME Sockets
    PROVE  Cardinality({c \in Conns : conns[c] # Unused /\ ~conns[c].closed}) <= 1
<1> DEFINE open == {c \in Conns : conns[c] # Unused /\ ~conns[c].closed}
<1>1. \A c \in open : c = Current
  BY Zenon DEF Sockets
<1>2. open = {} \/ open = {Current}
  BY <1>1, Zenon
<1> QED
  BY <1>2, FS_EmptySet, FS_Singleton

\* The payload of a packet is released exactly when its handler, the queue and
\* the runner have let go of it, however Close drains the queue meanwhile, and
\* a source has one open socket (WritePacket, handleOne and Close).
THEOREM HeldOnce == Spec => []NothingHeldTwice
<1>1. Init => Refs /\ Sockets
  BY RefsInit, SocketsInit, Zenon
<1>2. Typed /\ Refs /\ Sockets /\ [Next]_vars => (Refs /\ Sockets)'
  BY RefsNext, SocketsNext, Zenon DEF Typed
<1>3. Typed /\ Refs /\ Sockets => NothingHeldTwice
  BY HoldersCounted, OneOpen, Zenon DEF Typed, NothingHeldTwice
<1> QED
  BY <1>1, <1>2, <1>3, TypedAlways, PTL DEF Spec

\* A packet in the queue of an open source has a token or a runner that is
\* going to look, although the channel holds one token (WritePacket and run).
THEOREM WokenUp == Spec => []NoLostWakeup
<1>1. Init => Wakeups
  BY DEF Init, Wakeups, NoLostWakeup, Waiting
<1>2. Typed /\ Wakeups /\ [Next]_vars => Wakeups'
  BY WakeupsNext, Zenon DEF Typed
<1>3. Wakeups => NoLostWakeup
  BY Zenon DEF Wakeups
<1> QED
  BY <1>1, <1>2, <1>3, TypedAlways, PTL DEF Spec

\* A reply in the queue finds a write-back function, although the read loop
\* of the first socket starts before it is stored (newPacketConn).
THEOREM WriteBackStored == Spec => []RepliesHaveWriteBack
<1>1. Init => WriteBacks
  BY DEF Init, WriteBacks, Waiting, Unused
<1>2. Typed /\ WriteBacks /\ [Next]_vars => WriteBacks'
  BY WriteBacksNext DEF Typed
<1>3. Typed /\ WriteBacks => RepliesHaveWriteBack
  BY Zenon DEF WriteBacks, RepliesHaveWriteBack
<1> QED
  BY <1>1, <1>2, <1>3, TypedAlways, PTL DEF Spec
=============================================================================
