------------------------------ MODULE MCDialing -----------------------------
(* Dialling and asking for names, for TLC: the UDP transport, the client     *)
(* above it, the dialer, the choice among the nodes of a set, and the DNS    *)
(* packets that go to the agent.  They share no state, so a behaviour drives *)
(* one of them (part) and has none of the state of the others.                *)
EXTENDS Naturals, Sequences

CONSTANTS c1, c2, c3, k1, None, HTTPS, A, n1, n2, n3

VARIABLES
    part,
    sender, resp, call, wchan, writer, packetConn, socket, reader, closed,
    rawStore, flight, result, refreshBackground, proc,
    case, main, look, rctx, ips, notify, loop, attempt, conn, used, queue,
    lastID, storeIndex, parent, ctx, caller, tries, task,
    refs, sent, channel, taking, inboundDone, dnsServer, serverHost, agentClosed, setting,
    crossed, servers, worker, job, answered, direct, asked

udp == <<sender, resp, call, wchan, writer, packetConn, socket, reader, closed>>
client == <<rawStore, flight, result, refreshBackground, proc>>
happy == <<case, main, look, rctx, ips, notify, loop, attempt, conn, used, queue>>
set == <<lastID, storeIndex, parent, ctx, caller, tries, task>>
agent == <<refs, sent, channel, taking, inboundDone, dnsServer, serverHost, agentClosed,
           setting, crossed, servers, worker, job, answered, direct, asked>>
vars == <<part, udp, client, happy, set, agent>>

(* Two calls of Do share a question; two sockets let the reader of the old   *)
(* one come late.                                                            *)
UDP == INSTANCE DnsUDP WITH
    Callers <- {c1, c2}, Keys <- {k1}, Cap <- 1, MaxSockets <- 2, loop <- writer

(* Three calls of raw: a leader, one that follows it and one that is late.   *)
Client == INSTANCE DnsClient WITH Callers <- {c1, c2, c3}, Keys <- {HTTPS, A}

(* Two calls that need three or four permits and have two, with either kind  *)
(* of lookup; a call is given up in two of the cases.                        *)
HappyAnswer == [f \in {"primary", "fallback"} |-> IF f = "primary" THEN <<"a6">> ELSE <<"a4">>]
HappyCases ==
    {[made |-> {c1, c2}, prefer |-> {c1}, givenUp |-> {}],
     [made |-> {c1, c2}, prefer |-> {c1, c2}, givenUp |-> {c1}],
     [made |-> {c2}, prefer |-> {}, givenUp |-> {c2}]}
Happy == INSTANCE HappyEyeballs WITH
    Calls <- {c1, c2}, Cases <- HappyCases, Answer <- HappyAnswer, Weight <- 2

(* A set of three nodes.                                                     *)
Set == INSTANCE SetDo WITH Nodes <- {n1, n2, n3}, loop <- tries

(* Two packets with places for one in the channel and in a queue, two        *)
(* workers for one permit, and a server that is replaced once; or one packet *)
(* while two calls of SetServer meet and a server's own socket is asked.     *)
Agent == INSTANCE DnsAgent WITH
    Packets <- {"p", "q"}, Workers <- {n1, n2}, Setters <- {c1}, Hosts <- {"h"},
    ChannelSize <- 1, QueueMax <- 1, Permits <- 1, MaxServers <- 2, MaxDirect <- 0,
    closed <- agentClosed, loop <- taking, task <- job
Servers == INSTANCE DnsAgent WITH
    Packets <- {"p"}, Workers <- {n1}, Setters <- {c1, c2}, Hosts <- {"h", "i"},
    ChannelSize <- 1, QueueMax <- 1, Permits <- 1, MaxServers <- 3, MaxDirect <- 1,
    closed <- agentClosed, loop <- taking, task <- job

(* What a behaviour does not drive is left out of its states.                *)
NoUDP ==
    /\ sender = None /\ resp = None /\ call = None /\ wchan = None /\ writer = None
    /\ packetConn = None /\ socket = None /\ reader = None /\ closed = None
NoClient ==
    /\ rawStore = None /\ flight = None /\ result = None /\ refreshBackground = None
    /\ proc = None
NoHappy ==
    /\ case = None /\ main = None /\ look = None /\ rctx = None /\ ips = None
    /\ notify = None /\ loop = None /\ attempt = None /\ conn = None /\ used = None
    /\ queue = None
NoSet ==
    /\ lastID = None /\ storeIndex = None /\ parent = None /\ ctx = None /\ caller = None
    /\ tries = None /\ task = None
NoAgent ==
    /\ refs = None /\ sent = None /\ channel = None /\ taking = None /\ inboundDone = None
    /\ dnsServer = None /\ serverHost = None /\ agentClosed = None /\ setting = None
    /\ crossed = None /\ servers = None /\ worker = None /\ job = None /\ answered = None
    /\ direct = None /\ asked = None

Init ==
    /\ part \in {"udp", "client", "happy", "set", "agent", "servers"}
    /\ IF part = "udp" THEN UDP!Init ELSE NoUDP
    /\ IF part = "client" THEN Client!Init ELSE NoClient
    /\ IF part = "happy" THEN Happy!Init ELSE NoHappy
    /\ IF part = "set" THEN Set!Init ELSE NoSet
    /\ CASE part = "agent" -> Agent!Init [] part = "servers" -> Servers!Init [] OTHER -> NoAgent

Next ==
    \/ part = "udp" /\ UDP!Next /\ UNCHANGED <<part, client, happy, set, agent>>
    \/ part = "client" /\ Client!Next /\ UNCHANGED <<part, udp, happy, set, agent>>
    \/ part = "happy" /\ Happy!Next /\ UNCHANGED <<part, udp, client, set, agent>>
    \/ part = "set" /\ Set!Next /\ UNCHANGED <<part, udp, client, happy, agent>>
    \/ part = "agent" /\ Agent!Next /\ UNCHANGED <<part, udp, client, happy, set>>
    \/ part = "servers" /\ Servers!Next /\ UNCHANGED <<part, udp, client, happy, set>>

(* The fairness of each component, for the one that is driven.               *)
Fairness ==
    /\ WF_udp(part = "udp" /\ UDP!LoopStep)
    /\ \A s \in UDP!Sockets : WF_udp(part = "udp" /\ UDP!ReaderStep(s))
    /\ \A c \in {c1, c2, c3} : WF_client(part = "client" /\ Client!CallStep(c))
    /\ \A p \in Client!Procs : WF_client(part = "client" /\ Client!QueryStep(p))
    /\ \A c \in {c1, c2} :
        /\ WF_happy(part = "happy" /\ Happy!SameCase(Happy!MainStep(c)))
        /\ WF_happy(part = "happy" /\ Happy!SameCase(Happy!LookupStep(c)))
        /\ WF_happy(part = "happy" /\ Happy!SameCase(Happy!LoopStep(c)))
        /\ \A a \in Happy!Addrs :
              WF_happy(part = "happy" /\ Happy!SameCase(Happy!AttemptStep(c, a)))
    /\ WF_set(part = "set" /\ Set!LoopStep)
    /\ WF_set(part = "set" /\ Set!CallerStep)
    /\ \A n \in {n1, n2, n3} : WF_set(part = "set" /\ Set!DialStep(n))
    /\ WF_agent(part = "agent" /\ Agent!LoopStep)
    /\ \A s \in 1..2 : /\ WF_agent(part = "agent" /\ s \in Agent!Made /\ Agent!AskEnds(s))
                       /\ \A w \in {n1, n2} :
                             WF_agent(part = "agent" /\ s \in Agent!Made /\ Agent!WorkerStep(s, w))
    /\ \A p \in {"p", "q"} :
          WF_agent(part = "agent" /\ \E replied \in {0, 1} : Agent!TaskEnds(p, replied))

Spec == Init /\ [][Next]_vars /\ Fairness

-----------------------------------------------------------------------------
(* A DNS query over UDP fails for a reason (DnsUDP, udp.go:210).             *)
QueryFailsWithCause == [][part = "udp" => UDP!FailsForCause]_udp

(* No name stays marked as being asked for or refreshed (DnsClient,          *)
(* dns.go:420).                                                              *)
NothingStuck == part = "client" => Client!NothingStuck

(* A dial by name loses no connection and no permit, and fails only when     *)
(* every address has been tried (HappyEyeballs, happyeyeballsv2.go:332).     *)
DialLosesNothing == part = "happy" => Happy!NoConnLost /\ Happy!FailsOnlyIfAllFail

(* Nobody reads a packet that was released, every permit comes back, and one *)
(* DNS server is open, the one that was asked for (DnsAgent,                 *)
(* net/dns/server/server.go:344, resolver/fakeip.go:253).                    *)
RequestsKept ==
    /\ part = "agent" => Agent!RequestsKept
    /\ part = "servers" => Servers!RequestsKept

(* Every call comes to an end, and a DNS packet that was taken is dealt      *)
(* with: DnsUDP!CloseStopsAll, the CallsReturn of DnsClient and              *)
(* HappyEyeballs, SetDo!CallEnds and DnsAgent!TakenIsDealtWith together.     *)
CallsEnd ==
    <>[](/\ part = "udp" => UDP!Stopped
         /\ part = "client" => Client!Returned
         /\ part = "happy" => Happy!Returned
         /\ part = "set" => Set!Ended
         /\ part = "agent" => Agent!DealtWith)
=============================================================================
