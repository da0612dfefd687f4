------------------------------ MODULE DnsClient -----------------------------
(* The DNS client of net/dns/resolver/dns.go over its transport: the cache   *)
(* that also serves expired answers, the single flight of                    *)
(* utils/singleflight/sync.go for what is not cached, and the refresh of an  *)
(* expired answer in the background.                                         *)
EXTENDS Naturals, FiniteSets

CONSTANTS
    Callers,   \* calls of raw
    Keys,      \* CacheKeyFromQuestion
    None,
    HTTPS, A   \* two of the keys: an HTTPS answer hints at addresses

VARIABLES
    rawStore,  \* key -> "none", "fresh" or "expired"
    flight,    \* GroupSync.m: key -> the call that leads, or None
    result,    \* callSync, by its leader: "none", then "ok" or "failed"
    refreshBackground,  \* the keys with a refresh
    proc       \* caller or key (its refresh) -> [pc, key, leader, ctx]

vars == <<rawStore, flight, result, refreshBackground, proc>>

Procs == Callers \cup Keys
Querying == {"query", "retry"}

Init ==
    /\ rawStore = [k \in Keys |-> "none"]
    /\ flight = [k \in Keys |-> None]
    /\ result = [c \in Callers |-> "none"]
    /\ refreshBackground = {}
    /\ proc = [p \in Procs |-> [pc |-> "idle", key |-> None, leader |-> None, ctx |-> FALSE]]

(* raw, LoadOptimistically: a cached answer is the result, expired or not;   *)
(* when expired, a refresh is started, if none runs (LoadOrStore).           *)
RawRefreshing(c, k, starts) ==
    /\ proc[c].pc = "idle"
    /\ LET q == [proc EXCEPT ![c] = [@ EXCEPT !.key = k,
                    !.pc = IF rawStore[k] = "none" THEN "do" ELSE "ok"]]
       IN IF rawStore[k] = "expired" /\ starts
          THEN /\ refreshBackground' = refreshBackground \cup {k}
               /\ proc' = [q EXCEPT ![k].pc = "query", ![k].key = k]
          ELSE proc' = q /\ UNCHANGED refreshBackground
    /\ UNCHANGED <<rawStore, flight, result>>

Raw(c, k) == RawRefreshing(c, k, k \notin refreshBackground)

(* GroupSync.Do: LoadOrStore; the first runs the query, the others wait.     *)
Do(c) ==
    /\ proc[c].pc = "do"
    /\ LET k == proc[c].key
       IN /\ flight' = [flight EXCEPT ![k] = IF @ = None THEN c ELSE @]
          /\ proc' = [proc EXCEPT ![c].leader = flight'[k],
                                  ![c].pc = IF flight[k] = None THEN "query" ELSE "wait"]
    /\ UNCHANGED <<rawStore, result, refreshBackground>>

(* query: Do of the transport, repeated over TCP when the answer is          *)
(* truncated. It may fail at each of the two, and the ids may differ.        *)
Truncated(p) ==
    /\ proc[p].pc = "query"
    /\ proc' = [proc EXCEPT ![p].pc = "retry"]
    /\ UNCHANGED <<rawStore, flight, result, refreshBackground>>

(* The end of a query: the leader publishes its result (close(done)), a      *)
(* refresh deletes its mark.                                                 *)
QueryEnds(p, res) ==
    IF p \in Callers
    THEN /\ proc' = [proc EXCEPT ![p].pc = "delete"]
         /\ result' = [result EXCEPT ![p] = res]
         /\ UNCHANGED refreshBackground
    ELSE /\ proc' = [proc EXCEPT ![p].pc = "idle"]
         /\ refreshBackground' = refreshBackground \ {p}
         /\ UNCHANGED result

QueryFails(p) ==
    /\ proc[p].pc \in Querying
    /\ QueryEnds(p, "failed")
    /\ UNCHANGED <<rawStore, flight>>

(* An answer is cached unless its TTL is one second or less; the hints of    *)
(* an HTTPS answer become the answer of the address key.                     *)
QueryAnswered(p, cached, hint) ==
    /\ proc[p].pc \in Querying
    /\ hint => proc[p].key = HTTPS
    /\ rawStore' = [k \in Keys |-> IF (cached /\ k = proc[p].key) \/ (hint /\ k = A) THEN "fresh"
                                   ELSE rawStore[k]]
    /\ QueryEnds(p, "ok")
    /\ UNCHANGED flight

(* doCallSync, CompareAndDelete; then Do returns to raw.                     *)
DeleteFlightIf(c, deletes) ==
    /\ proc[c].pc = "delete"
    /\ flight' = [k \in Keys |-> IF flight[k] = c /\ deletes THEN None ELSE flight[k]]
    /\ proc' = [proc EXCEPT ![c].pc = result[c]]
    /\ UNCHANGED <<rawStore, result, refreshBackground>>

DeleteSucceeded(c) == DeleteFlightIf(c, result[c] = "ok")  \* mutant: a failed call stays in the map
DeleteFlight(c) == DeleteFlightIf(c, TRUE)

JoinedWhen(c, published) ==
    /\ proc[c].pc = "wait"
    /\ \/ proc[c].ctx /\ proc' = [proc EXCEPT ![c].pc = "failed"]
       \/ /\ result[proc[c].leader] \in published
          /\ proc' = [proc EXCEPT ![c].pc = result[proc[c].leader]]
    /\ UNCHANGED <<rawStore, flight, result, refreshBackground>>

Joined(c) == JoinedWhen(c, {"ok", "failed"})

ContextEnds(c) ==
    /\ proc[c].pc = "wait" /\ ~proc[c].ctx
    /\ proc' = [proc EXCEPT ![c].ctx = TRUE]
    /\ UNCHANGED <<rawStore, flight, result, refreshBackground>>

(* Time passes; an entry falls out of the bounded cache.                     *)
Age(k) ==
    /\ rawStore[k] # "none"
    /\ rawStore' \in {[rawStore EXCEPT ![k] = "expired"], [rawStore EXCEPT ![k] = "none"]}
    /\ rawStore' # rawStore
    /\ UNCHANGED <<flight, result, refreshBackground, proc>>

QueryStep(p) == Truncated(p) \/ QueryFails(p) \/ \E b, h \in BOOLEAN : QueryAnswered(p, b, h)
CallStep(c) == Do(c) \/ DeleteFlight(c) \/ Joined(c)

Next ==
    \/ \E c \in Callers : (\E k \in Keys : Raw(c, k)) \/ CallStep(c) \/ ContextEnds(c)
    \/ \E p \in Procs : QueryStep(p)
    \/ \E k \in Keys : Age(k)

(* Every query has a deadline, the caller's or ResolverTimeout.              *)
Fairness == /\ \A c \in Callers : WF_vars(CallStep(c))
            /\ \A p \in Procs : WF_vars(QueryStep(p))

Spec == Init /\ [][Next]_vars /\ Fairness

-----------------------------------------------------------------------------
TypeOK ==
    /\ rawStore \in [Keys -> {"none", "fresh", "expired"}]
    /\ flight \in [Keys -> Callers \cup {None}]
    /\ result \in [Callers -> {"none", "ok", "failed"}]
    /\ refreshBackground \subseteq Keys
    /\ \A p \in Procs : proc[p].pc \in {"idle", "do", "query", "retry", "delete", "wait",
                                        "ok", "failed"}

(* Nothing keeps a name from being asked for again: a call in the map of     *)
(* the single flight is still running, and a key that is marked as being     *)
(* refreshed (dns.go:447) has a refresh. A key has never more than two       *)
(* queries, one of them the refresh.                                         *)
NothingStuck ==
    /\ \A k \in Keys :
         /\ flight[k] # None => proc[flight[k]].pc \in Querying \cup {"delete"}
         /\ k \in refreshBackground <=> proc[k].pc \in Querying
         /\ Cardinality({p \in Procs : proc[p].key = k /\ proc[p].pc \in Querying}) <= 2

(* Every call of raw returns, whoever runs the query.                        *)
Returned == \A c \in Callers : proc[c].pc \in {"idle", "ok", "failed"}
CallsReturn == <>[]Returned
=============================================================================
