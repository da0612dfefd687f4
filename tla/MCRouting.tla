------------------------------ MODULE MCRouting -----------------------------
(* The router's configuration for TLC: how changes of rules and lists reach  *)
(* the matchers, and the refresh of the remote lists.  A behaviour drives    *)
(* one of them (part) and leaves the other in its initial state: the only    *)
(* call from one to the other is the notification at the end of a refresh,   *)
(* which the editor of a list stands for.  Two editors of rules and one of a *)
(* list let an application be overtaken by the next.                         *)
EXTENDS RouteRules, TLC

CONSTANTS
    l1, e1, e2, e3, s1,
    Savers, Settings, MaxInterval, MaxTickers  \* of ListRefresh

ASSUME RoutingConstants ==
    /\ Settings \subseteq [interval : Nat, disk : BOOLEAN]
    /\ MaxInterval \in Nat /\ MaxTickers \in Nat \ {0}

VARIABLES
    part,
    list, edited, settings, hostTrieDisk, ticker, timer, refreshing, run, saver, geoip, file,
    closed, crashed, overtaken

remote == <<list, edited, settings, hostTrieDisk, ticker, timer, refreshing, run, saver, geoip,
            file, closed, crashed, overtaken>>

(* One call saves settings while a timer and the API refresh; an interval of *)
(* 3 is one that no time.Duration holds, and as good as none.                *)
Wanted(i, d) == [interval |-> i, disk |-> d]
MCSettings == {Wanted(1, FALSE), Wanted(2, TRUE), Wanted(3, FALSE)}
Remote == INSTANCE ListRefresh WITH mishap <- overtaken

MCInit ==
    /\ part \in {"rules", "remote"}
    /\ Init /\ Remote!Init
    /\ part # "remote" => settings.interval > MaxInterval

MCNext ==
    \/ part = "rules" /\ Next /\ UNCHANGED <<part, remote>>
    \/ part = "remote" /\ Remote!Next /\ UNCHANGED <<part, vars>>

MCSpec == MCInit /\ [][MCNext]_<<part, vars, remote>>

MCSymmetry == Permutations(RuleEditors)

-----------------------------------------------------------------------------
(* The timer of the list refresh is armed, or about to be, and the lists,    *)
(* settings and geoip database in use are the stored ones (ListRefresh,      *)
(* route/list.go:345 and 434).                                               *)
RuntimeAsStored == Remote!TickerAlive /\ Remote!RuntimeAsStored
=============================================================================
