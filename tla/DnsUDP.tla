------------------------------- MODULE DnsUDP -------------------------------
(* The UDP transport of the DNS client, net/dns/resolver/udp.go: calls of    *)
(* Do share an answer when they ask the same thing, one goroutine writes     *)
(* the queries to a socket that it dials again when it is gone, and every    *)
(* socket has a reader that hands the answers out.                           *)
EXTENDS Naturals, Sequences

CONSTANTS
    Callers,     \* calls of Do
    Keys,        \* udpCacheKey: the id and the question of a request
    None,
    Cap,         \* capacity of wchan
    MaxSockets   \* bound: sockets dialled

Sockets == 1..MaxSockets

VARIABLES
    sender,      \* key -> the call that made its udpresp, or None
    resp,        \* udpresp, by the call that made it: [done, msg]
    call,        \* caller -> [pc, key, resp, ctx]: ctx, whether it has ended
    wchan,       \* the calls whose packets are queued
    loop,        \* loopWrite: [pc, key, pk]
    packetConn,  \* the current socket or 0
    socket,      \* socket -> [st, asked]: asked, the keys written to it
    reader,      \* socket -> [pc, resp]
    closed       \* u.ctx

socketVars == <<loop, packetConn, socket, reader>>
vars == <<sender, resp, call, wchan, socketVars, closed>>

Init ==
    /\ sender = [k \in Keys |-> None]
    /\ resp = [c \in Callers |-> [done |-> FALSE, msg |-> FALSE]]
    /\ call = [c \in Callers |-> [pc |-> "idle", key |-> None, resp |-> None, ctx |-> FALSE]]
    /\ wchan = <<>>
    /\ loop = [pc |-> "select", key |-> None, pk |-> 0]
    /\ packetConn = 0
    /\ socket = [s \in Sockets |-> [st |-> "none", asked |-> {}]]
    /\ reader = [s \in Sockets |-> [pc |-> "none", resp |-> None]]
    /\ closed = FALSE

(* Do, LoadOrCreate: the first call of a key makes the udpresp and is to     *)
(* queue the packet, the next ones wait for the same answer.                 *)
Do(c, k) ==
    /\ call[c].pc = "idle"
    /\ sender' = [sender EXCEPT ![k] = IF @ = None THEN c ELSE @]
    /\ call' = [call EXCEPT ![c].pc = IF sender[k] = None THEN "send" ELSE "wait",
                            ![c].key = k, ![c].resp = sender'[k]]
    /\ UNCHANGED <<resp, wchan, socketVars, closed>>

Enqueue(c) ==
    /\ call[c].pc = "send"
    /\ Len(wchan) < Cap
    /\ wchan' = Append(wchan, c)
    /\ call' = [call EXCEPT ![c].pc = "wait"]
    /\ UNCHANGED <<sender, resp, socketVars, closed>>

(* Do returns; CompareAndDelete and cancel are deferred.                     *)
ReturnDeferring(c, pc, cancelled) ==
    /\ call' = [call EXCEPT ![c].pc = pc]
    /\ sender' = [k \in Keys |-> IF sender[k] = c THEN None ELSE sender[k]]
    /\ resp' = [r \in Callers |-> [resp[r] EXCEPT !.done = @ \/ r \in cancelled]]
    /\ UNCHANGED <<wchan, socketVars, closed>>

ReturnCancelsShared(c, pc) == ReturnDeferring(c, pc, {call[c].resp})  \* mutant: all cancel it
Return(c, pc) == ReturnDeferring(c, pc, {c})

SendFails(c) ==
    /\ call[c].pc = "send"
    /\ call[c].ctx \/ closed
    /\ Return(c, "failed")

(* resp.ctx is derived from the context of the call that made it.            *)
RespDone(r) == resp[r].done \/ call[r].ctx

(* The select of Do: the message counts in two of its three cases.           *)
Answered(c) ==
    /\ call[c].pc = "wait"
    /\ call[c].ctx \/ RespDone(call[c].resp)
    /\ Return(c, IF resp[call[c].resp].msg THEN "ok" ELSE "failed")

TransportEnds(c) ==
    /\ call[c].pc = "wait"
    /\ closed
    /\ Return(c, "failed")

ContextEnds(c) ==
    /\ call[c].pc \in {"send", "wait"}
    /\ ~call[c].ctx
    /\ call' = [call EXCEPT ![c].ctx = TRUE]
    /\ UNCHANGED <<sender, resp, wchan, socketVars, closed>>

Close ==
    /\ ~closed
    /\ closed' = TRUE
    /\ UNCHANGED <<sender, resp, call, wchan, socketVars>>

callVars == <<sender, resp, call, closed>>

(* loopWrite takes a packet and drops it when its call has given up.         *)
Take ==
    /\ loop.pc = "select"
    /\ wchan # <<>>
    /\ wchan' = Tail(wchan)
    /\ loop' = IF call[Head(wchan)].ctx THEN loop
               ELSE [loop EXCEPT !.pc = "dial", !.key = call[Head(wchan)].key]
    /\ UNCHANGED <<callVars, packetConn, socket, reader>>

(* dial: the current socket, or a new one, made with mu locked.              *)
DialKnown ==
    /\ loop.pc = "dial"
    /\ loop' = IF packetConn # 0 THEN [loop EXCEPT !.pc = "write", !.pk = packetConn]
               ELSE [loop EXCEPT !.pc = "dialing"]
    /\ UNCHANGED <<callVars, wchan, packetConn, socket, reader>>

Dialled(s) ==
    /\ loop.pc = "dialing"
    /\ socket[s].st = "none" /\ \A t \in Sockets : t < s => socket[t].st # "none"
    /\ socket' = [socket EXCEPT ![s].st = "open"]
    /\ reader' = [reader EXCEPT ![s].pc = "read"]
    /\ packetConn' = s
    /\ loop' = [loop EXCEPT !.pc = "write", !.pk = s]
    /\ UNCHANGED <<callVars, wchan>>

(* The dial fails, or udpAddr does: the packet is lost, the socket kept.     *)
WriteGivesUp ==
    /\ loop.pc \in {"dialing", "write"}
    /\ loop' = [loop EXCEPT !.pc = "select"]
    /\ UNCHANGED <<callVars, wchan, packetConn, socket, reader>>

Written ==
    /\ loop.pc = "write"
    /\ socket[loop.pk].st = "open"
    /\ socket' = [socket EXCEPT ![loop.pk].asked = @ \cup {loop.key}]
    /\ loop' = [loop EXCEPT !.pc = "select"]
    /\ UNCHANGED <<callVars, wchan, packetConn, reader>>

(* The local function close: whatever socket is the current one.             *)
CloseCurrent ==
    /\ socket' = [s \in Sockets |-> IF s = packetConn THEN [socket[s] EXCEPT !.st = "closed"]
                                    ELSE socket[s]]
    /\ packetConn' = 0

(* A write error, on a socket that is closed or not: close().                *)
WriteFails ==
    /\ loop.pc = "write"
    /\ CloseCurrent
    /\ loop' = [loop EXCEPT !.pc = "select"]
    /\ UNCHANGED <<callVars, wchan, reader>>

LoopStops ==
    /\ loop.pc = "select"
    /\ closed
    /\ CloseCurrent
    /\ loop' = [loop EXCEPT !.pc = "stopped"]
    /\ UNCHANGED <<callVars, wchan, reader>>

loopOnly == <<wchan, loop, sender, call, closed>>

(* handleResponse: the answer of a key somebody waits for; setMsg cancels,   *)
(* then stores. A datagram may be lost, and may come twice.                  *)
Receive(s, k) ==
    /\ reader[s].pc = "read"
    /\ socket[s].st = "open" /\ k \in socket[s].asked
    /\ sender[k] # None
    /\ resp' = [resp EXCEPT ![sender[k]].done = TRUE]
    /\ reader' = [reader EXCEPT ![s] = [pc |-> "store", resp |-> sender[k]]]
    /\ UNCHANGED <<loopOnly, packetConn, socket>>

StoreMsg(s) ==
    /\ reader[s].pc = "store"
    /\ resp' = [resp EXCEPT ![reader[s].resp].msg = TRUE]
    /\ reader' = [reader EXCEPT ![s] = [pc |-> "read", resp |-> None]]
    /\ UNCHANGED <<loopOnly, packetConn, socket>>

(* The read fails, at the latest after a minute without a packet: the        *)
(* reader closes its own socket, and then the current one.                   *)
ReadFails(s) ==
    /\ reader[s].pc = "read"
    /\ socket' = [socket EXCEPT ![s].st = "closed"]
    /\ reader' = [reader EXCEPT ![s].pc = "close"]
    /\ UNCHANGED <<loopOnly, resp, packetConn>>

ReaderCloses(s) ==
    /\ reader[s].pc = "close"
    /\ loop.pc # "dialing"
    /\ CloseCurrent
    /\ reader' = [reader EXCEPT ![s].pc = "end"]
    /\ UNCHANGED <<loopOnly, resp>>

LoopStep == Take \/ DialKnown \/ (\E s \in Sockets : Dialled(s)) \/ WriteGivesUp \/ Written
            \/ WriteFails \/ LoopStops
ReaderStep(s) == StoreMsg(s) \/ ReadFails(s) \/ ReaderCloses(s)

Next ==
    \/ \E c \in Callers : \/ \E k \in Keys : Do(c, k)
                          \/ Enqueue(c) \/ SendFails(c) \/ Answered(c)
                          \/ TransportEnds(c) \/ ContextEnds(c)
    \/ Close
    \/ LoopStep
    \/ \E s \in Sockets : ReaderStep(s) \/ \E k \in Keys : Receive(s, k)

(* The goroutines run; a read ends within its deadline, a dial within its    *)
(* timeout.                                                                  *)
Fairness == WF_vars(LoopStep) /\ \A s \in Sockets : WF_vars(ReaderStep(s))

Spec == Init /\ [][Next]_vars /\ Fairness

-----------------------------------------------------------------------------
TypeOK ==
    /\ sender \in [Keys -> Callers \cup {None}]
    /\ \A c \in Callers : call[c].pc \in {"idle", "send", "wait", "ok", "failed"}
    /\ wchan \in Seq(Callers) /\ Len(wchan) <= Cap
    /\ packetConn \in Sockets \cup {0}
    /\ \A s \in Sockets : socket[s].st \in {"none", "open", "closed"}

(* A call of Do that waits fails for a reason: its context or the transport  *)
(* has ended, or that of the call whose request it shares, or it looks at    *)
(* the response between the cancel and the Store of setMsg (udp.go:37).      *)
FailsForCause ==
    \A c \in Callers : call[c].pc = "wait" /\ call'[c].pc = "failed" =>
          \/ call[c].ctx \/ closed
          \/ call[call[c].resp].ctx
          \/ \E s \in Sockets : reader[s].pc = "store" /\ reader[s].resp = call[c].resp
FailsWithCause == [][FailsForCause]_vars

(* After Close every socket is closed and loopWrite has returned.            *)
Stopped == closed => loop.pc = "stopped" /\ \A s \in Sockets : socket[s].st # "open"
CloseStopsAll == <>[]Stopped
=============================================================================
