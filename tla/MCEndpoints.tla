----------------------------- MODULE MCEndpoints ----------------------------
(* What the user configures and what runs of it, for TLC: the inbounds, the  *)
(* resolvers with FakeDNS, and the pool of fake addresses.  Their tables and *)
(* locks are separate, so a behaviour drives one of them (part) and has none *)
(* of the state of the others.                                               *)
EXTENDS FakeIPPool, TLC

CONSTANTS c1, c2, d1, d2, d3

VARIABLES
    part,
    rows, runs, servers, interfaces, lock, request, unsynced, closing, left, changes, met,
    failed, outdated, late,
    stored, configs, store, made, single, lookup, editor, boot, bootstrapConfig, whitelist,
    whitelistSlice, fake, pools, edits, crossed, unequal, upset, lost, refused

listening == <<rows, runs, servers, interfaces, lock, request, unsynced, closing, left, changes,
               met, failed, outdated, late>>
resolving == <<stored, configs, store, made, single, lookup, editor, boot, bootstrapConfig,
               whitelist, whitelistSlice, fake, pools, edits, crossed, unequal, upset, lost,
               refused>>

(* Two inbounds that may want the same port, and a transport that fails; two *)
(* edits may overlap, and each meets Close.  One of them is at first either  *)
(* not there or runs on the second port.                                     *)
Config(enabled, port, transports) ==
    [enabled |-> enabled, port |-> port, interface |-> port, transports |-> transports]
Listening == INSTANCE Inbounds WITH
    Keys <- {"k", "l"}, Editors <- {c1, c2}, MaxEdits <- 2,
    Configs <- {Config(FALSE, 1, TRUE), Config(TRUE, 1, TRUE), Config(TRUE, 2, TRUE),
                Config(TRUE, 1, FALSE)},
    stored <- rows, store <- runs, mu <- lock, editor <- request, edits <- changes,
    crossed <- met

(* Two edits and two lookups of one name, with two configs that work and one *)
(* that does not.  Lookups share no state with the bootstrap and FakeDNS, so *)
(* edits meet lookups or edits of other rows, not both ("names").  The two   *)
(* configs that work are alike, so the first is the one at the start.        *)
Resolving == INSTANCE Resolvers WITH
    Names <- {"n"}, Callers <- {c1, c2}, Editors <- {c1, c2},
    Configs <- {"a", "b", "bad"}, Bad <- {"bad"}, MaxEdits <- 2,
    entries <- made, caller <- lookup

(* What a behaviour does not drive is left out of its states.                *)
NoListening ==
    /\ rows = None /\ runs = None /\ servers = None /\ interfaces = None /\ lock = None
    /\ request = None /\ unsynced = None /\ closing = None /\ left = None /\ changes = None
    /\ met = None /\ failed = None /\ outdated = None /\ late = None
NoResolving ==
    /\ stored = None /\ configs = None /\ store = None /\ made = None /\ single = None
    /\ lookup = None /\ editor = None /\ boot = None /\ bootstrapConfig = None
    /\ whitelist = None /\ whitelistSlice = None /\ fake = None /\ pools = None
    /\ edits = None /\ crossed = None /\ unequal = None /\ upset = None
    /\ lost = None /\ refused = None

MCInit ==
    /\ Init
    /\ \/ part = "pool" /\ NoListening /\ NoResolving
       \/ part = "inbounds" /\ Listening!Init /\ NoResolving
          /\ rows["l"] \in {None, Config(TRUE, 2, TRUE)}
       \/ part \in {"names", "resolvers"} /\ NoListening /\ Resolving!Init
          /\ stored["n"] = "a"

MCNext ==
    \/ part = "pool" /\ Next /\ UNCHANGED <<part, listening, resolving>>
    \/ part = "inbounds" /\ Listening!Next /\ UNCHANGED <<part, vars, resolving>>
    \/ /\ part = "names" /\ Resolving!Next /\ UNCHANGED <<part, vars, listening>>
       /\ \A c \in Callers : editor'[c].row \in {None, "n"}
    \/ part = "resolvers" /\ Resolving!Next /\ UNCHANGED <<part, vars, listening, lookup>>

MCSpec == MCInit /\ [][MCNext]_<<part, vars, listening, resolving>>

MCCallers == {c1, c2}
MCDomains == {d1, d2, d3}
MCSymmetry == Permutations(Callers) \cup Permutations(Domains)

-----------------------------------------------------------------------------
(* Inbounds run as they are stored and no server is lost (Inbounds,          *)
(* inbound/inbound.go:181); resolvers, bootstrap and FakeDNS are the stored  *)
(* ones and a lookup never gets one that was closed before (Resolvers,       *)
(* resolver/resolver.go:143).                                                *)
AppliedAsStored ==
    /\ part = "inbounds" => Listening!InboundsAsStored
    /\ part \in {"names", "resolvers"} => Resolving!ResolversAsStored
=============================================================================
