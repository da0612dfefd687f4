--------------------------- MODULE SourceControl ---------------------------
(***************************************************************************)
(* One UDP source of the NAT: pkg/net/nat/source.go.                       *)
(*                                                                         *)
(* Inbound goroutines push packets into a bounded queue and leave a token; *)
(* one runner pops them, dials an outbound socket when there is none or    *)
(* the last one was closed, and writes.  Every socket has a read loop that *)
(* queues the replies and a writer that hands them back to the client.     *)
(* Close may be called by the table's reaper, by the owner of the table or *)
(* by the runner itself (a blocked destination).  Packet payloads are      *)
(* reference counted (netapi.Packet) and returned to a pool.               *)
(*                                                                         *)
(* Both ring buffers are bounded queues here; module RingBuffer shows that *)
(* the ring buffer is one.  Locals that are dead are set to one value.     *)
(***************************************************************************)
EXTENDS Integers, Sequences, FiniteSets

CONSTANTS
    Pkts,        \* packets, each with the inbound goroutine that writes it
    Outside,     \* who else may call Close: "reaper", "owner"
    Capacity,    \* MaxUDPUnprocessedPackets
    MaxErrors,   \* write-back errors in a row a writer survives (13)
    MaxConns,    \* bound: sockets ever dialed
    MaxReplies   \* bound: replies per socket

ASSUME SourceControlConstants ==
    /\ Outside \subseteq {"reaper", "owner"} /\ "none" \notin Pkts
    /\ Capacity \in Nat \ {0} /\ MaxErrors \in Nat
    /\ MaxConns \in Nat /\ MaxReplies \in Nat

Closers == Outside \cup {"runner"}
Conns == 1..MaxConns

VARIABLES
    u,       \* the fields of SourceControl
    pkts,    \* per packet: the state of its inbound goroutine, payloadRef
    runner,  \* run, handle, handleOne: control state, packet, socket
    conns,   \* the sockets, each with its read loop and writer
    closer   \* control state of every call of Close

vars == <<u, pkts, runner, conns, closer>>

NoPkt == "none"
Waiting == [pc |-> "select", pkt |-> NoPkt, c |-> 0]
Unused == [loop |-> "none", writer |-> "none", closed |-> FALSE,
           cancelled |-> FALSE, written |-> FALSE, errs |-> 0, replies |-> 0]

\* NewSourceChan.  u.aged: loopStopTime is longer ago than the idle timeout
Init ==
    /\ u = [done |-> FALSE, sent |-> <<>>, notifySent |-> FALSE, conn |-> 0,
            received |-> <<>>, notifyReceived |-> FALSE,
            wirteBack |-> FALSE, loopStopped |-> FALSE, aged |-> FALSE]
    /\ pkts = [p \in Pkts |-> [pc |-> "new", ref |-> 0]]
    /\ runner = Waiting
    /\ conns = [c \in Conns |-> Unused]
    /\ closer = [k \in Closers |-> "idle"]

IncRef(r) == IF r >= 0 THEN r + 1 ELSE r
DecRef(r) == IF r >= 0 THEN r - 1 ELSE r

-----------------------------------------------------------------------------
(* WritePacket, and the deferred DecRef of the handler that called it. *)

\* select on the two contexts; that of the handler may be done at any time
Enter(p) ==
    /\ pkts[p].pc = "new"
    /\ \E to \in IF u.done THEN {"return"} ELSE {"push", "return"} :
         pkts' = [pkts EXCEPT ![p].pc = to]
    /\ UNCHANGED <<u, runner, conns, closer>>

Pushing(p, ref) ==
    /\ pkts[p].pc = "push"
    /\ IF Len(u.sent) < Capacity
       THEN /\ u' = [u EXCEPT !.sent = Append(@, p)]
            /\ pkts' = [pkts EXCEPT ![p] = [pc |-> "notify", ref |-> ref]]
       ELSE pkts' = [pkts EXCEPT ![p].pc = "return"] /\ UNCHANGED u
    /\ UNCHANGED <<runner, conns, closer>>

PushNoRef(p) == Pushing(p, pkts[p].ref)  \* mutant: no IncRef

\* pkt.IncRef(), Push, and pkt.DecRef() when the queue is full
Push(p) == Pushing(p, IncRef(pkts[p].ref))

LeaveToken(p, token) ==
    /\ pkts[p].pc = "notify"
    /\ pkts' = [pkts EXCEPT ![p].pc = "return"]
    /\ u' = [u EXCEPT !.notifySent = @ \/ token]
    /\ UNCHANGED <<runner, conns, closer>>

\* mutant: the token is left only for the first packet of the queue
NotifyFirst(p) == LeaveToken(p, Len(u.sent) = 1)

\* case u.notifySentPacket <- struct{}{}, or default
Notify(p) == LeaveToken(p, TRUE)

Return(p) ==
    /\ pkts[p].pc = "return"
    /\ pkts' = [pkts EXCEPT ![p] = [pc |-> "end", ref |-> DecRef(@.ref)]]
    /\ UNCHANGED <<u, runner, conns, closer>>

-----------------------------------------------------------------------------
(* run, handle and handleOne. *)

RSelect ==
    /\ runner.pc = "select"
    /\ \/ u.done /\ runner' = [runner EXCEPT !.pc = "exit"] /\ UNCHANGED u
       \/ /\ u.notifySent
          /\ u' = [u EXCEPT !.notifySent = FALSE]
          /\ runner' = [runner EXCEPT !.pc = "pop"]
    /\ UNCHANGED <<pkts, conns, closer>>

\* the loop of handle
RPop ==
    /\ runner.pc = "pop"
    /\ IF u.sent = <<>>
       THEN runner' = Waiting /\ UNCHANGED u
       ELSE /\ runner' = [pc |-> "one", pkt |-> Head(u.sent), c |-> 0]
            /\ u' = [u EXCEPT !.sent = Tail(@)]
    /\ UNCHANGED <<pkts, conns, closer>>

NeedDial == IF u.conn = 0 THEN TRUE ELSE conns[u.conn].closed

\* handleOne returned; a block error closes this source
Done(block) ==
    /\ pkts' = [pkts EXCEPT ![runner.pkt].ref = DecRef(@)]
    /\ runner' = [Waiting EXCEPT !.pc = IF block THEN "closing" ELSE "pop"]
    /\ closer' = [closer EXCEPT !["runner"] = IF block THEN "cancel" ELSE @]

RReuse ==
    /\ runner.pc = "one" /\ ~NeedDial
    /\ runner' = [runner EXCEPT !.pc = "write", !.c = u.conn]
    /\ UNCHANGED <<u, pkts, conns, closer>>

RDialHangs(block) == FALSE  \* mutant: a dial without a timeout

RDialFails(block) ==
    /\ runner.pc = "one" /\ NeedDial /\ Done(block)
    /\ UNCHANGED <<u, conns>>

Dialing(guard, next) ==
    /\ runner.pc = "one" /\ guard
    /\ \E c \in Conns :
         /\ conns[c] = Unused /\ \A b \in 1..(c - 1) : conns[b] # Unused
         /\ conns' = [conns EXCEPT ![c].loop = "start"]
         /\ runner' = [runner EXCEPT !.pc = next, !.c = c]
    /\ UNCHANGED <<u, pkts, closer>>

\* mutant: the client's write-back function is not kept
RDialNoStore == Dialing(NeedDial, "write")

\* newPacketConn: the read loop is started before conn and wirteBack are set
RDial == Dialing(NeedDial, "store")

RStore ==
    /\ runner.pc = "store"
    /\ u' = [u EXCEPT !.wirteBack = TRUE, !.conn = runner.c]
    /\ runner' = [runner EXCEPT !.pc = "write"]
    /\ UNCHANGED <<pkts, conns, closer>>

\* write: resolving or sending may fail; writing to a closed socket is not
\* an error, the packet is dropped
RWrite ==
    /\ runner.pc = "write"
    /\ \/ /\ ~conns[runner.c].closed /\ Done(FALSE)
          /\ conns' = [conns EXCEPT ![runner.c].written = TRUE]
       \/ \E block \in BOOLEAN : Done(block) /\ UNCHANGED conns
    /\ UNCHANGED u

\* Close returned to handle, which returns to run
RClosed ==
    /\ runner.pc = "closing" /\ closer["runner"] = "end"
    /\ runner' = Waiting
    /\ UNCHANGED <<u, pkts, conns, closer>>

-----------------------------------------------------------------------------
(* loopWriteBack: the read loop of socket c. *)

Loop(c, from, to) ==
    /\ conns[c].loop = from
    /\ conns' = [conns EXCEPT ![c].loop = to]
    /\ UNCHANGED <<pkts, runner, closer>>

LStart(c) ==
    /\ conns[c].loop = "start"
    /\ conns' = [conns EXCEPT ![c].loop = "read", ![c].writer = "select"]
    /\ u' = [u EXCEPT !.loopStopped = FALSE]
    /\ UNCHANGED <<pkts, runner, closer>>

\* ReadFrom returns a reply to a packet sent on this socket.  Datagrams that
\* nobody asked for are left out.
LReply(c) ==
    /\ conns[c].loop = "read" /\ conns[c].written /\ ~conns[c].closed
    /\ conns[c].replies < MaxReplies
    /\ conns' = [conns EXCEPT ![c].loop = "push", ![c].replies = @ + 1]
    /\ UNCHANGED <<u, pkts, runner, closer>>

\* ReadFrom fails: read deadline, closed socket or network error
LError(c) == Loop(c, "read", "stop") /\ UNCHANGED u

LPush(c) ==
    IF Len(u.received) < Capacity
    THEN Loop(c, "push", "signal") /\ u' = [u EXCEPT !.received = Append(@, c)]
    ELSE Loop(c, "push", "read") /\ UNCHANGED u

LSignal(c) ==
    Loop(c, "signal", "read") /\ u' = [u EXCEPT !.notifyReceived = TRUE]

\* the deferred function: cancel, loopStopped, loopStopTime, p.Close
LStop(c) ==
    /\ conns[c].loop = "stop"
    /\ conns' = [conns EXCEPT ![c].loop = "stamp", ![c].cancelled = TRUE]
    /\ u' = [u EXCEPT !.loopStopped = TRUE]
    /\ UNCHANGED <<pkts, runner, closer>>

LStamp(c) == Loop(c, "stamp", "close") /\ u' = [u EXCEPT !.aged = FALSE]

LCloseNever(c) == FALSE  \* mutant: the socket is not closed

LClose(c) ==
    /\ conns[c].loop = "close"
    /\ conns' = [conns EXCEPT ![c].loop = "end", ![c].closed = TRUE]
    /\ UNCHANGED <<u, pkts, runner, closer>>

-----------------------------------------------------------------------------
(* The writer of socket c; all writers share one queue and one token. *)

WSelect(c) ==
    /\ conns[c].writer = "select"
    /\ \/ /\ u.done \/ conns[c].cancelled
          /\ conns' = [conns EXCEPT ![c].writer = "end"] /\ UNCHANGED u
       \/ /\ u.notifyReceived
          /\ u' = [u EXCEPT !.notifyReceived = FALSE]
          /\ conns' = [conns EXCEPT ![c].writer = "pop"]
    /\ UNCHANGED <<pkts, runner, closer>>

WPop(c) ==
    /\ conns[c].writer = "pop"
    /\ IF u.received = <<>>
       THEN conns' = [conns EXCEPT ![c].writer = "select"] /\ UNCHANGED u
       ELSE /\ conns' = [conns EXCEPT ![c].writer = "write"]
            /\ u' = [u EXCEPT !.received = Tail(@)]
    /\ UNCHANGED <<pkts, runner, closer>>

\* writeBack succeeds, fails, or fails because the client is gone or once too
\* often
WWrite(c) ==
    /\ conns[c].writer = "write"
    /\ \/ conns' = [conns EXCEPT ![c].writer = "pop", ![c].errs = 0]
       \/ /\ conns[c].errs < MaxErrors
          /\ conns' = [conns EXCEPT ![c].writer = "pop", ![c].errs = @ + 1]
       \/ conns' = [conns EXCEPT ![c].writer = "end", ![c].closed = TRUE]
    /\ UNCHANGED <<u, pkts, runner, closer>>

-----------------------------------------------------------------------------
(* Close, and the reaper of the table that decides to call it. *)

\* time passes
Age == ~u.aged /\ u' = [u EXCEPT !.aged = TRUE]
       /\ UNCHANGED <<pkts, runner, conns, closer>>

\* the reaper calls Close when IsIdle holds and the stop is long ago
Call(k) ==
    /\ closer[k] = "idle" /\ (k = "reaper" => u.loopStopped /\ u.aged)
    /\ closer' = [closer EXCEPT ![k] = "cancel"]
    /\ UNCHANGED <<u, pkts, runner, conns>>

\* u.close()
Cancel(k) ==
    /\ closer[k] = "cancel" /\ u' = [u EXCEPT !.done = TRUE]
    /\ closer' = [closer EXCEPT ![k] = "sent"]
    /\ UNCHANGED <<pkts, runner, conns>>

\* the loop over sentPackets
DrainSent(k) ==
    /\ closer[k] = "sent"
    /\ IF u.sent = <<>>
       THEN closer' = [closer EXCEPT ![k] = "received"] /\ UNCHANGED <<u, pkts>>
       ELSE /\ u' = [u EXCEPT !.sent = Tail(@)]
            /\ pkts' = [pkts EXCEPT ![Head(u.sent)].ref = DecRef(@)]
            /\ UNCHANGED closer
    /\ UNCHANGED <<runner, conns>>

\* the loop over receivedPackets
DrainReceived(k) ==
    /\ closer[k] = "received"
    /\ IF u.received = <<>>
       THEN closer' = [closer EXCEPT ![k] = "end"] /\ UNCHANGED u
       ELSE u' = [u EXCEPT !.received = Tail(@)] /\ UNCHANGED closer
    /\ UNCHANGED <<pkts, runner, conns>>

-----------------------------------------------------------------------------
CallerStep(p) == Enter(p) \/ Push(p) \/ Notify(p) \/ Return(p)
RunnerStep ==
    \/ RSelect \/ RPop \/ RReuse \/ RDial \/ RStore \/ RWrite \/ RClosed
    \/ \E block \in BOOLEAN : RDialFails(block)
LoopStep(c) ==
    \/ LStart(c) \/ LReply(c) \/ LError(c) \/ LPush(c) \/ LSignal(c)
    \/ LStop(c) \/ LStamp(c) \/ LClose(c)
WriterStep(c) == WSelect(c) \/ WPop(c) \/ WWrite(c)
CloserStep(k) == Cancel(k) \/ DrainSent(k) \/ DrainReceived(k)

Next ==
    \/ \E p \in Pkts : CallerStep(p)
    \/ RunnerStep
    \/ \E c \in Conns : LoopStep(c) \/ WriterStep(c)
    \/ \E k \in Closers : CloserStep(k)
    \/ Age \/ \E k \in Outside : Call(k)

Spec == Init /\ [][Next]_vars

\* Goroutines that can run do.  A ReadFrom returns in the end, because every
\* read and write renews a deadline that is never lifted.
FairSpec ==
    /\ Spec
    /\ WF_vars(RunnerStep)
    /\ \A p \in Pkts : WF_vars(CallerStep(p))
    /\ \A c \in Conns : WF_vars(LoopStep(c)) /\ WF_vars(WriterStep(c))
    /\ \A k \in Closers : WF_vars(CloserStep(k))

-----------------------------------------------------------------------------
(* Properties. *)

Holders(p) ==
    (IF pkts[p].pc # "end" THEN 1 ELSE 0)
    + Cardinality({i \in DOMAIN u.sent : u.sent[i] = p})
    + (IF runner.pkt = p THEN 1 ELSE 0)

\* The payload of a packet is back in the pool exactly when nobody holds the
\* packet any more: not its handler, not the queue, not the runner.  Nothing
\* is sent from a released buffer and nothing is released twice, also when
\* the queue is full or Close drains it while the runner is working.  And one
\* source never has two open sockets: a new one is dialed only after the old
\* one was marked closed (full cone: one outbound address per source).
NothingHeldTwice ==
    /\ \A p \in Pkts : pkts[p].ref = Holders(p) - 1
    /\ Cardinality({c \in Conns : conns[c] # Unused /\ ~conns[c].closed}) <= 1

\* A queued packet has a token or a busy runner that will find it: the token
\* channel has room for one and a second packet leaves none.
NoLostWakeup ==
    u.sent # <<>> /\ ~u.done =>
        \/ u.notifySent
        \/ runner.pc \notin {"select", "exit"}
        \/ \E p \in Pkts : pkts[p].pc = "notify"

\* A reply to a packet of this source always finds the write-back function
\* of a client, although the read loop starts before it is stored.
RepliesHaveWriteBack == u.received # <<>> => u.wirteBack

\* An accepted packet is taken out of the queue and done with in the end,
\* sent or given up, unless the source is closed.
AcceptedIsHandled ==
    \A p \in Pkts : pkts[p].pc = "notify" ~>
        \/ u.done
        \/ runner.pkt # p /\ ~\E i \in DOMAIN u.sent : u.sent[i] = p

\* A closed source lets go of everything that runs for it: the runner exits
\* and every socket it ever dialed is closed, although Close itself closes
\* none of them.  This needs remotes that fall silent, which MaxReplies says:
\* every reply renews the read deadline, also after Close.
ClosedSourceStops ==
    u.done ~> [](/\ runner.pc = "exit"
                 /\ \A c \in Conns : conns[c] = Unused \/ conns[c].closed)
=============================================================================
