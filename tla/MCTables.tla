------------------------------ MODULE MCTables ------------------------------
(* What many goroutines share, for TLC: the table of connections, the        *)
(* addresses of a UDP source, the two-way cache, and the QUIC connection     *)
(* that carries packets in pieces.  They are separate objects, so a          *)
(* behaviour drives one of them (part) and has none of the state of the      *)
(* others.                                                                   *)
EXTENDS QuicFrag

CONSTANTS n1, n2, w1, a1, a2, fake, dom, x, y, z, None

VARIABLES
    part,
    connStore, sessions, ns, closed, opening, removing, notifier, watcher, sending, early, failed,
    dispatchCache, resolvedIPCache, reverseNATMap, hasReverseNAT, runner, received, target,
    unsent, delivered,
    list, mapping, expired, reverseMap, popped

conns == <<connStore, sessions, ns, closed, opening, removing, notifier, watcher, sending, early,
           failed>>
nat == <<dispatchCache, resolvedIPCache, reverseNATMap, hasReverseNAT, runner, received, target,
         unsent, delivered>>
lru == <<list, mapping, expired, reverseMap, popped>>
everything == <<part, conns, nat, vars, lru>>

(* For the packets in pieces, a packet of 8 goes into two frames at a limit  *)
(* of 8 and of 7, and into too many at 5; one of 2 goes into a single frame. *)

(* A connection with two closers and one that only its owner closes.  The    *)
(* rows and the watchers have no state in common but connStore, so the       *)
(* statements fail only where nobody watches ("rows").                       *)
Conn == INSTANCE Connections WITH
    Conns <- {n1, n2}, Watchers <- {w1}, Listed <- {n1}, sender <- sending

(* Two real addresses, one destination that stands for another and one       *)
(* domain, so that two destinations may share an address.                    *)
Reverse == INSTANCE ReverseNAT WITH
    Addrs <- {a1, a2}, Dispatched <- {fake}, Domains <- {dom}, MaxQueue <- 2

(* Three keys and values for two places.                                     *)
Lru == INSTANCE ReverseLru WITH Keys <- {n1, n2, w1}, Values <- {x, y, z}, capacity <- 2

(* What a behaviour does not drive is left out of its states.                *)
NoConns ==
    /\ connStore = None /\ sessions = None /\ ns = None /\ closed = None /\ opening = None
    /\ removing = None /\ notifier = None /\ watcher = None /\ sending = None /\ early = None
    /\ failed = None
NoNat ==
    /\ dispatchCache = None /\ resolvedIPCache = None /\ reverseNATMap = None
    /\ hasReverseNAT = None /\ runner = None /\ received = None /\ target = None
    /\ unsent = None /\ delivered = None
NoLru ==
    /\ list = None /\ mapping = None /\ expired = None /\ reverseMap = None /\ popped = None

MCInit ==
    /\ part \in {"conns", "rows", "nat", "lru", "frag"}
    /\ IF part \in {"conns", "rows"} THEN Conn!Init ELSE NoConns
    /\ IF part = "nat" THEN Reverse!Init ELSE NoNat
    /\ IF part = "lru" THEN Lru!Init ELSE NoLru
    /\ Init /\ (part # "frag" => limit = 8)

MCNext ==
    \/ part = "conns" /\ Conn!Next /\ failed' = {} /\ UNCHANGED <<part, nat, vars, lru>>
    \/ part = "rows" /\ Conn!Next /\ UNCHANGED <<part, nat, vars, lru, watcher>>
    \/ part = "nat" /\ Reverse!Next /\ UNCHANGED <<part, conns, vars, lru>>
    \/ part = "lru" /\ Lru!Next /\ UNCHANGED <<part, conns, nat, vars>>
    \/ part = "frag" /\ Next /\ UNCHANGED <<part, conns, nat, lru>>

MCSpec == MCInit /\ [][MCNext]_everything

-----------------------------------------------------------------------------
(* The session rows are those of the open connections, and every watcher     *)
(* shows the open connections (Connections, statistics/statistic.go,         *)
(* statistics/sqlite.go and statistics/notify.go).                           *)
ScreensAgree ==
    part \in {"conns", "rows"} =>
        Conn!SessionsAreOpen /\ Conn!ScreensAgree /\ Conn!LengthCovers

(* A destination keeps its address, every address written to is mapped back, *)
(* and a reply is never attributed to a destination that it does not come    *)
(* from (ReverseNAT, net/nat/source.go).                                     *)
RepliesAttributed ==
    part = "nat" => Reverse!SameTarget /\ Reverse!NeverForeign /\ Reverse!WrittenIsMapped

(* The two maps of the cache are inverse to each other and as large as its   *)
(* list (ReverseLru, utils/lru/reverse.go).                                  *)
InverseMaps == part = "lru" => Lru!InverseMaps
=============================================================================
