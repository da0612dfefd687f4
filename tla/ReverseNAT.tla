----------------------------- MODULE ReverseNAT -----------------------------
(***************************************************************************)
(* The addresses of one UDP source: write, WriteTo, mapAddr and parseAddr  *)
(* of pkg/net/nat/source.go.                                               *)
(*                                                                         *)
(* A client sends to a destination that may be a plain address, an address *)
(* that stands for another one (fake IP, hosts entry) or a domain that has *)
(* to be resolved.  What was written to the real address must come back to *)
(* the client as an answer of the destination it asked for.  The runner    *)
(* writes; the read loop receives; a writer delivers later.                *)
(***************************************************************************)
EXTENDS Naturals, Sequences

CONSTANTS
    Addrs,       \* real addresses
    Dispatched,  \* destinations that Dispatch maps to another address
    Domains,     \* destinations that are resolved
    None,
    MaxQueue     \* bound: replies received and not yet delivered

Dsts == Addrs \cup Dispatched \cup Domains

VARIABLES
    dispatchCache, resolvedIPCache,  \* destination -> address
    reverseNATMap,                   \* address -> destination
    hasReverseNAT,
    runner,     \* the write in progress: control state, destination, address,
                \* and whether mapAddr is to be called (originDst is given)
    received,   \* replies: the address they came from, the key computed
    target,     \* history: where each destination was written to
    unsent,     \* history: destinations a write to which has failed
    delivered   \* history: the last reply handed to the client

vars == <<dispatchCache, resolvedIPCache, reverseNATMap, hasReverseNAT,
          runner, received, target, unsent, delivered>>
caches == <<dispatchCache, resolvedIPCache>>
nat == <<reverseNATMap, hasReverseNAT>>

Idle == [pc |-> "idle", dst |-> None, addr |-> None, origin |-> FALSE]
Nowhere == [d \in Dsts |-> {}]

Init ==
    /\ dispatchCache = [d \in Dsts |-> None]
    /\ resolvedIPCache = [d \in Dsts |-> None]
    /\ reverseNATMap = [a \in Addrs |-> None] /\ hasReverseNAT = FALSE
    /\ runner = Idle /\ received = <<>>
    /\ target = Nowhere /\ unsent = {} /\ delivered = [addr |-> None, from |-> None]

Write(d, a, origin) ==
    runner' = [pc |-> "send", dst |-> d, addr |-> a, origin |-> origin]

\* the address is in resolvedIPCache
WriteResolved(d) ==
    /\ runner.pc = "idle" /\ resolvedIPCache[d] # None
    /\ Write(d, resolvedIPCache[d], FALSE)
    /\ UNCHANGED <<caches, nat, received, target, unsent, delivered>>

\* Dispatch, or its cached result, is an address
WriteDispatched(d) ==
    /\ runner.pc = "idle" /\ d \notin Domains
    /\ \E a \in IF dispatchCache[d] # None THEN {dispatchCache[d]}
                ELSE IF d \in Addrs THEN {d} ELSE Addrs :
         /\ Write(d, a, TRUE)
         /\ dispatchCache' = [dispatchCache EXCEPT ![d] =
                                IF a = d THEN None ELSE a]
    /\ UNCHANGED <<resolvedIPCache, nat, received, target, unsent, delivered>>

Resolving(d, cached) ==
    /\ runner.pc = "idle" /\ d \in Domains /\ resolvedIPCache[d] = None
    /\ \E a \in Addrs :
         /\ Write(d, a, TRUE)
         /\ resolvedIPCache' = [resolvedIPCache EXCEPT ![d] =
                                  IF cached THEN a ELSE None]
    /\ UNCHANGED <<dispatchCache, nat, received, target, unsent, delivered>>

\* ResolverIP and RandUDPAddr; the result is cached before it is used.  What
\* dispatchCache holds here is the name to resolve, one per destination.  A
\* Dispatch or a lookup that fails ends the write and changes nothing else.
WriteDomain(d) == Resolving(d, TRUE)

\* conn.WriteTo
Send ==
    /\ runner.pc = "send"
    /\ \/ /\ runner' = IF runner.origin THEN [runner EXCEPT !.pc = "map"]
                                        ELSE Idle
          /\ target' = [target EXCEPT ![runner.dst] = @ \cup {runner.addr}]
          /\ UNCHANGED unsent
       \/ /\ runner' = Idle /\ unsent' = unsent \cup {runner.dst}
          /\ UNCHANGED target
    /\ UNCHANGED <<caches, nat, received, delivered>>

\* mapAddr: nothing for a destination written to as it is
MapNothing ==
    /\ runner.pc = "map" /\ runner.addr = runner.dst
    /\ runner' = Idle
    /\ UNCHANGED <<caches, nat, received, target, unsent, delivered>>
\* mapAddr: reverseNATMap.Store, then hasReverseNAT.Store
Map ==
    /\ runner.pc = "map" /\ runner.addr # runner.dst
    /\ reverseNATMap' = [reverseNATMap EXCEPT ![runner.addr] = runner.dst]
    /\ runner' = [runner EXCEPT !.pc = "mark"]
    /\ UNCHANGED <<caches, hasReverseNAT, received, target, unsent, delivered>>
Mark ==
    /\ runner.pc = "mark"
    /\ hasReverseNAT' = TRUE /\ runner' = Idle
    /\ UNCHANGED <<caches, reverseNATMap, received, target, unsent, delivered>>

\* ReadFrom and parseComparableAddr: a key only if hasReverseNAT
Receive(a) ==
    /\ Len(received) < MaxQueue /\ \E d \in Dsts : a \in target[d]
    /\ received' = Append(received, [from |-> a, key |-> hasReverseNAT])
    /\ UNCHANGED <<caches, nat, runner, target, unsent, delivered>>

Delivering(mapped) ==
    /\ received # <<>> /\ received' = Tail(received)
    /\ LET r == Head(received) IN
         delivered' = [from |-> r.from,
                       addr |-> IF r.key /\ reverseNATMap[r.from] # None
                                THEN mapped ELSE r.from]
    /\ UNCHANGED <<caches, nat, runner, target, unsent>>

\* mutant: the reply is taken for one of the destination being written to
DeliverCurrent == Delivering(runner.dst)

\* parseAddr and writeBack
Deliver == Delivering(reverseNATMap[Head(received).from])

Next ==
    \/ \E d \in Dsts : WriteResolved(d) \/ WriteDispatched(d) \/ WriteDomain(d)
    \/ Send \/ MapNothing \/ Map \/ Mark \/ Deliver
    \/ \E a \in Addrs : Receive(a)

Spec == Init /\ [][Next]_vars

-----------------------------------------------------------------------------
(* Properties. *)

\* All packets to one destination go to the same real address ("we need write
\* to same ip when use fakeip/domain", source.go:292), although a domain is
\* resolved to a random one of its addresses.
SameTarget == \A d \in Dsts : \A a, b \in target[d] : a = b

\* A reply is only ever attributed to the address it came from or to a
\* destination that was written to at that address, also while mappings are
\* being added and overwritten.
NeverForeign ==
    delivered.addr # None =>
        \/ delivered.addr = delivered.from
        \/ /\ delivered.addr \in Dsts
           /\ delivered.from \in target[delivered.addr]

\* Between two writes, every address that a destination was written to is
\* mapped back to such a destination (source.go:80: "reverseNATMap maps the
\* proxy's reply-from address back to the original client-requested
\* destination for reverse NAT").  Except where a write has failed: when the
\* first write to a domain fails, its address is already cached, and writes
\* from the cache do not call mapAddr.
WrittenIsMapped ==
    runner.pc = "idle" =>
        \A d \in Dsts \ unsent : \A a \in target[d] \ {d} :
            hasReverseNAT /\ reverseNATMap[a] # None
=============================================================================
