------------------------------ MODULE DnsAgent ------------------------------
(* Hijacked DNS packets, from the channel of Inbound (inbound/inbound.go) by *)
(* way of the agent that SetServer replaces (resolver/fakeip.go) to the      *)
(* queue, the workers and the semaphore of a DNS server                      *)
(* (net/dns/server/server.go).                                               *)
EXTENDS Integers, Sequences, FiniteSets

CONSTANTS
    Packets, Workers, Setters,
    Hosts,         \* addresses a server may listen at
    ChannelSize,   \* UDPChannelBufferSize
    QueueMax,      \* MaxUDPUnprocessedPackets
    Permits,       \* DNSProcessThread
    MaxServers,    \* bound on the servers made
    MaxDirect      \* bound on the queries read from a server's own socket

VARIABLES
    refs,        \* payloadRef of every packet: 0 when made, -1 when released
    sent,        \* the packets that were given to HandlePacket
    channel,     \* Inbound.udpChannel
    loop,        \* loopudp: where it is, with which packet and server
    inboundDone, \* Inbound.ctx is cancelled
    dnsServer, serverHost,  \* fields of Fakedns; 0: no server
    closed,      \* Fakedns.Close has run
    setting,     \* per caller of SetServer: where it is, host, and old or next server
    crossed,     \* history: a SetServer met another one or Close
    servers,     \* every server made: host, ctx, queue, notifyChan and free permits
    worker,      \* per server and worker: where it is, and the request it popped
    task,        \* per packet: the server that answers it (0: none)
    answered,    \* history: replies written, per packet
    direct, asked  \* queries of their own sockets: under way per server, and all

inbound == <<refs, sent, channel, loop, inboundDone>>
fakedns == <<dnsServer, serverHost, closed, setting, crossed>>
answering == <<task, answered, direct, asked>>
vars == <<inbound, fakedns, servers, worker, answering>>

NoPacket == "none"
ServerIds == 1..MaxServers
NewServer(h) == [host |-> h, done |-> FALSE, queue |-> <<>>, token |-> FALSE, permits |-> Permits]
Made == 1..Len(servers)
Selecting == [at |-> "select", packet |-> NoPacket, server |-> 0]

Init ==
    /\ refs = [p \in Packets |-> 0] /\ sent = {} /\ channel = <<>>
    /\ loop = Selecting /\ inboundDone = FALSE
    /\ dnsServer = 1 /\ serverHost = "" /\ servers = <<NewServer("")>>
    /\ closed = FALSE /\ crossed = FALSE
    /\ setting = [c \in Setters |-> [at |-> "idle", host |-> "", server |-> 0]]
    /\ worker = [s \in ServerIds |-> [w \in Workers |-> [at |-> "select", packet |-> NoPacket]]]
    /\ task = [p \in Packets |-> 0] /\ answered = [p \in Packets |-> 0]
    /\ direct = [s \in ServerIds |-> 0] /\ asked = 0

(* The references after one of them, or both, are given back; a packet that  *)
(* is released stays so.                                                     *)
DecRef(p) == [refs EXCEPT ![p] = IF refs[p] >= 0 THEN refs[p] - 1 ELSE refs[p]]
-----------------------------------------------------------------------------
(* HandlePacket waits for room in the channel or for the end of Inbound.     *)
HandlePacket(p) ==
    /\ p \notin sent /\ sent' = sent \cup {p}
    /\ \/ /\ Len(channel) < ChannelSize /\ channel' = Append(channel, p)
          /\ UNCHANGED refs
       \/ /\ inboundDone /\ refs' = DecRef(p)
          /\ UNCHANGED channel
    /\ UNCHANGED <<loop, inboundDone, fakedns, servers, worker, answering>>

LoopTake ==
    /\ loop.at = "select" /\ channel # <<>>
    /\ loop' = [loop EXCEPT !.at = "agent", !.packet = Head(channel)]
    /\ channel' = Tail(channel)
    /\ UNCHANGED <<refs, sent, inboundDone, fakedns, servers, worker, answering>>

LoopEnds ==
    /\ loop.at = "select" /\ inboundDone
    /\ loop' = [loop EXCEPT !.at = "gone"]
    /\ UNCHANGED <<refs, sent, channel, inboundDone, fakedns, servers, worker, answering>>

(* Fakedns.DoDatagram reads the server; without one the packet is dropped.   *)
Server ==
    /\ loop.at = "agent"
    /\ IF dnsServer = 0 THEN loop' = Selecting /\ refs' = DecRef(loop.packet)
       ELSE loop' = [loop EXCEPT !.at = "check", !.server = dnsServer] /\ UNCHANGED refs
    /\ UNCHANGED <<sent, channel, inboundDone, fakedns, servers, worker, answering>>

(* dnsServer.DoDatagram: both contexts are looked at once.                   *)
Check ==
    /\ loop.at = "check"
    /\ IF inboundDone \/ servers[loop.server].done
       THEN loop' = Selecting /\ refs' = DecRef(loop.packet)
       ELSE loop' = [loop EXCEPT !.at = "push"] /\ UNCHANGED refs
    /\ UNCHANGED <<sent, channel, inboundDone, fakedns, servers, worker, answering>>

(* A reference for the queue; Push fails when the queue is full.             *)
Pushed(counted) ==
    /\ loop.at = "push"
    /\ IF Len(servers[loop.server].queue) < QueueMax
       THEN /\ servers' = [servers EXCEPT ![loop.server].queue = Append(@, loop.packet)]
            /\ loop' = [loop EXCEPT !.at = "notify"]
            /\ refs' = counted
       ELSE /\ loop' = Selecting /\ refs' = DecRef(loop.packet)
            /\ UNCHANGED servers
    /\ UNCHANGED <<sent, channel, inboundDone, fakedns, worker, answering>>
PushNoRef == Pushed(refs)  \* mutant
Push == Pushed([refs EXCEPT ![loop.packet] = IF @ >= 0 THEN @ + 1 ELSE @])

(* notifyChan has one place; handlePacket ends and gives its reference back. *)
Notify ==
    /\ loop.at = "notify"
    /\ servers' = [servers EXCEPT ![loop.server].token = TRUE]
    /\ loop' = Selecting /\ refs' = DecRef(loop.packet)
    /\ UNCHANGED <<sent, channel, inboundDone, fakedns, worker, answering>>

InboundClose ==
    /\ ~inboundDone /\ inboundDone' = TRUE
    /\ UNCHANGED <<refs, sent, channel, loop, fakedns, servers, worker, answering>>
-----------------------------------------------------------------------------
(* startHandleReqData: a wake-up, or the end of the server.                  *)
Wake(s, w) ==
    /\ worker[s][w].at = "select" /\ servers[s].token
    /\ servers' = [servers EXCEPT ![s].token = FALSE]
    /\ worker' = [worker EXCEPT ![s][w].at = "handle"]
    /\ UNCHANGED <<inbound, fakedns, answering>>

WorkerEnds(s, w) ==
    /\ worker[s][w].at = "select" /\ servers[s].done
    /\ worker' = [worker EXCEPT ![s][w].at = "gone"]
    /\ UNCHANGED <<inbound, fakedns, servers, answering>>

(* handle pops until the queue is empty.                                     *)
Pop(s, w) ==
    /\ worker[s][w].at = "handle"
    /\ LET q == servers[s].queue
       IN  IF q = <<>>
           THEN worker' = [worker EXCEPT ![s][w].at = "select"] /\ UNCHANGED servers
           ELSE /\ worker' = [worker EXCEPT ![s][w] = [at |-> "acquire", packet |-> Head(q)]]
                /\ servers' = [servers EXCEPT ![s].queue = Tail(q)]
    /\ UNCHANGED <<inbound, fakedns, answering>>

(* A permit, and a goroutine for the request; no permit once the server ends. *)
Acquire(s, w) ==
    /\ worker[s][w].at = "acquire" /\ ~servers[s].done /\ servers[s].permits > 0
    /\ servers' = [servers EXCEPT ![s].permits = @ - 1]
    /\ task' = [task EXCEPT ![worker[s][w].packet] = s]
    /\ worker' = [worker EXCEPT ![s][w] = [at |-> "handle", packet |-> NoPacket]]
    /\ UNCHANGED <<inbound, fakedns, answered, direct, asked>>

AcquireFails(s, w) ==
    /\ worker[s][w].at = "acquire" /\ servers[s].done
    /\ refs' = DecRef(worker[s][w].packet)
    /\ worker' = [worker EXCEPT ![s][w] = [at |-> "handle", packet |-> NoPacket]]
    /\ UNCHANGED <<sent, channel, loop, inboundDone, fakedns, servers, answering>>

(* do ends within ResolverTimeout, with a reply or without.                  *)
TaskEnds(p, replied) ==
    /\ task[p] # 0 /\ task' = [task EXCEPT ![p] = 0]
    /\ answered' = [answered EXCEPT ![p] = @ + replied]
    /\ refs' = DecRef(p)
    /\ servers' = [servers EXCEPT ![task[p]].permits = @ + 1]
    /\ UNCHANGED <<sent, channel, loop, inboundDone, fakedns, worker, direct, asked>>

(* A query from the server's own socket takes a permit of the same           *)
(* semaphore, also when the server was closed after it had been read.        *)
Ask(s) ==
    /\ servers[s].host # "" /\ servers[s].permits > 0 /\ asked < MaxDirect
    /\ servers' = [servers EXCEPT ![s].permits = @ - 1]
    /\ direct' = [direct EXCEPT ![s] = @ + 1] /\ asked' = asked + 1
    /\ UNCHANGED <<inbound, fakedns, worker, task, answered>>

AskEnds(s) ==
    /\ direct[s] > 0 /\ direct' = [direct EXCEPT ![s] = @ - 1]
    /\ servers' = [servers EXCEPT ![s].permits = @ + 1]
    /\ UNCHANGED <<inbound, fakedns, worker, task, answered, asked>>
-----------------------------------------------------------------------------
(* SetServer: under the lock the old server leaves its field ...             *)
Setting(c) == setting[c].at \in {"close", "new", "store"}
SetServer(c, h) ==
    /\ setting[c].at = "idle"
    /\ IF serverHost = h
       THEN /\ setting' = [setting EXCEPT ![c].at = "done"]
            /\ UNCHANGED <<dnsServer, serverHost, crossed>>
       ELSE /\ setting' = [setting EXCEPT ![c] = [at |-> "close", host |-> h, server |-> dnsServer]]
            /\ dnsServer' = 0 /\ serverHost' = h
            /\ crossed' = (crossed \/ closed \/ \E d \in Setters : Setting(d))
    /\ UNCHANGED <<inbound, closed, servers, worker, answering>>

(* ... and without it is closed, a new one is made ...                       *)
Ended(s) == IF s = 0 THEN servers ELSE [servers EXCEPT ![s].done = TRUE]
SetCloses(c) ==
    /\ setting[c].at = "close" /\ servers' = Ended(setting[c].server)
    /\ setting' = [setting EXCEPT ![c].at = "new"]
    /\ UNCHANGED <<inbound, dnsServer, serverHost, closed, crossed, worker, answering>>

SetMakes(c) ==
    /\ setting[c].at = "new" /\ Len(servers) < MaxServers
    /\ servers' = Append(servers, NewServer(setting[c].host))
    /\ setting' = [setting EXCEPT ![c].at = "store", ![c].server = Len(servers) + 1]
    /\ UNCHANGED <<inbound, dnsServer, serverHost, closed, crossed, worker, answering>>

(* ... and stored.                                                           *)
SetStores(c) ==
    /\ setting[c].at = "store" /\ dnsServer' = setting[c].server
    /\ setting' = [setting EXCEPT ![c].at = "done"]
    /\ UNCHANGED <<inbound, serverHost, closed, crossed, servers, worker, answering>>

FakednsClose ==
    /\ ~closed /\ closed' = TRUE
    /\ servers' = Ended(dnsServer) /\ dnsServer' = 0
    /\ crossed' = (crossed \/ \E c \in Setters : Setting(c))
    /\ UNCHANGED <<inbound, serverHost, setting, worker, answering>>
-----------------------------------------------------------------------------
LoopStep == LoopTake \/ LoopEnds \/ Server \/ Check \/ Push \/ Notify
WorkerStep(s, w) ==
    Wake(s, w) \/ WorkerEnds(s, w) \/ Pop(s, w) \/ Acquire(s, w) \/ AcquireFails(s, w)
SetStep(c) == SetCloses(c) \/ SetMakes(c) \/ SetStores(c)
Next ==
    \/ \E p \in Packets : HandlePacket(p) \/ \E replied \in {0, 1} : TaskEnds(p, replied)
    \/ LoopStep \/ InboundClose \/ FakednsClose
    \/ \E s \in Made : Ask(s) \/ AskEnds(s) \/ \E w \in Workers : WorkerStep(s, w)
    \/ \E c \in Setters : SetStep(c) \/ \E h \in Hosts : SetServer(c, h)

(* Goroutines that can run do, and a query ends by its timeout.              *)
Fairness ==
    /\ WF_vars(LoopStep)
    /\ \A s \in ServerIds : /\ WF_vars(s \in Made /\ AskEnds(s))
                            /\ \A w \in Workers : WF_vars(s \in Made /\ WorkerStep(s, w))
    /\ \A p \in Packets : WF_vars(\E replied \in {0, 1} : TaskEnds(p, replied))

Spec == Init /\ [][Next]_vars /\ Fairness
-----------------------------------------------------------------------------
Elements(q) == {q[i] : i \in 1..Len(q)}
Queued(p) == \E s \in Made : p \in Elements(servers[s].queue)
Popped(p) == \E s \in Made, w \in Workers : worker[s][w].packet = p
InUse(p) == loop.packet = p \/ p \in Elements(channel) \/ Queued(p) \/ Popped(p) \/ task[p] # 0

(* The payload of a packet that somebody will still read is not released     *)
(* (server.go:344), a packet nobody has any more is, and it is answered at   *)
(* most once, whoever closes in between.                                     *)
PacketsHeld ==
    \A p \in Packets : /\ InUse(p) => refs[p] >= 0
                       /\ p \in sent /\ ~InUse(p) => refs[p] = -1
                       /\ answered[p] <= 1

(* Every permit of a server is free or held by one query (server.go:122,     *)
(* server.go:313).                                                           *)
PermitsKept ==
    \A s \in Made : servers[s].permits + direct[s] + Cardinality({p \in Packets : task[p] = s}) = Permits

(* When no SetServer is under way, the agent is the one open server and      *)
(* listens where it was told, or all are closed after Close.  Calls that met *)
(* each other or Close may leave another server open (fakeip.go:253).        *)
OneServer ==
    (\A c \in Setters : ~Setting(c)) /\ ~crossed =>
        LET open == {s \in Made : ~servers[s].done}
        IN  IF closed THEN open = {} /\ dnsServer = 0
            ELSE open = {dnsServer} /\ servers[dnsServer].host = serverHost

RequestsKept == PacketsHeld /\ PermitsKept /\ OneServer

(* A packet that was taken is dealt with in the end, unless it is left in    *)
(* the queue of a server, or in the channel of an Inbound, that was closed.  *)
DealtWith ==
    \A p \in sent :
        \/ ~InUse(p)
        \/ inboundDone /\ p \in Elements(channel)
        \/ \E s \in Made : servers[s].done /\ p \in Elements(servers[s].queue)
TakenIsDealtWith == <>[]DealtWith
=============================================================================
