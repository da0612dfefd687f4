----------------------------- MODULE ListRefresh ----------------------------
(* The refresh of the remote lists and of the GeoIP database, and the        *)
(* settings it shares with the API: RefreshContract, SaveContractConfig,     *)
(* resetRefreshInterval, LoadGeoip and refreshGeoip of route/list.go, and    *)
(* Download of route/downloader.go. One list, one database.                  *)
EXTENDS Naturals

CONSTANTS
    Savers,      \* calls of SaveContractConfig
    Settings,    \* the settings asked for: [interval, disk], interval 0 for none
    MaxInterval, \* the longest interval a time.Duration holds
    MaxTickers,  \* bound: timers made
    MaxVersion   \* bound: versions of the list, files downloaded

Tickers == 1..MaxTickers
Refreshers == Tickers \cup {0}   \* 0: the API call
NoSettings == [interval |-> 0, disk |-> FALSE]
NoRun == [pc |-> "idle", list |-> 0, settings |-> NoSettings]
NoSaver == [pc |-> "idle", new |-> NoSettings, old |-> NoSettings]
NoTimer == [st |-> "none", interval |-> 0, due |-> 0]
Armed(i) == [st |-> "armed", interval |-> i, due |-> i]
NoGeo == [loaded |-> FALSE, m |-> 0]

VARIABLES
    list,        \* the stored list: its version
    edited,      \* history: the version of the last edit
    settings,    \* the stored settings: [interval, disk]
    hostTrieDisk,
    ticker,      \* Lists.ticker: a timer, or 0 for nil
    timer,       \* timer -> [st, interval, due]: "none", "armed", "fired" (its
                 \* callback runs) or "stopped"; the interval of the callback and
                 \* the one it was armed with
    refreshing,
    run,         \* refresher -> [pc, list, settings]: what it has read
    saver,       \* saver -> [pc, new, old]
    geoip,       \* Lists.geoip: [loaded, m]: m, the file that is open, or 0
    file,        \* the database on disk: version
    closed,      \* Lists.Close was called
    crashed,     \* the process has panicked
    mishap       \* history: [list, settings, geo]: see the properties

vars == <<list, edited, settings, hostTrieDisk, ticker, timer, refreshing, run, saver, geoip,
          file, closed, crashed, mishap>>

Init ==
    /\ list = 1 /\ edited = 1
    /\ settings \in Settings
    /\ ticker = IF settings.interval \in 1..MaxInterval THEN 1 ELSE 0
    /\ timer = [t \in Tickers |-> IF t = ticker THEN Armed(settings.interval) ELSE NoTimer]
    /\ hostTrieDisk = settings.disk
    /\ refreshing = FALSE
    /\ run = [r \in Refreshers |-> NoRun]
    /\ saver = [s \in Savers |-> NoSaver]
    /\ geoip = NoGeo
    /\ file = 1
    /\ closed = FALSE /\ crashed = FALSE
    /\ mishap = [list |-> FALSE, settings |-> FALSE, geo |-> FALSE]

geoVars == <<geoip, file>>
listVars == <<list, edited>>
tickVars == <<ticker, timer, crashed>>

Running(pcs) == \E r \in Refreshers : run[r].pc \in pcs

(* The timer fires; its callback, or the API, calls RefreshContract, which   *)
(* runs once at a time.  (A second callback of the same timer would find     *)
(* refreshing and only arm the timer again.)  The notification at its end is *)
(* NotifyVersion of RouteRules.                                              *)
Begins(r, free) ==
    /\ refreshing' = TRUE
    /\ run' = [run EXCEPT ![r].pc = IF free THEN "lists" ELSE "end"]

Fire(t) ==
    /\ timer[t].st = "armed" /\ run[t].pc = "idle"
    /\ timer' = [timer EXCEPT ![t].st = "fired"]
    /\ Begins(t, ~refreshing)
    /\ UNCHANGED <<listVars, settings, hostTrieDisk, ticker, saver, geoVars, closed,
                   crashed, mishap>>

RefreshCall ==
    /\ run[0].pc = "idle" /\ ~closed
    /\ Begins(0, ~refreshing)
    /\ UNCHANGED <<listVars, settings, hostTrieDisk, tickVars, saver, geoVars, closed, mishap>>

(* The lists and the settings are read; the downloads follow.                *)
ReadLists(r) ==
    /\ run[r].pc = "lists"
    /\ run' = [run EXCEPT ![r].pc = "settings", ![r].list = list]
    /\ UNCHANGED <<listVars, settings, hostTrieDisk, tickVars, refreshing, saver, geoVars,
                   closed, mishap>>

ReadSettings(r) ==
    /\ run[r].pc = "settings"
    /\ run' = [run EXCEPT ![r].pc = "download", ![r].settings = settings]
    /\ UNCHANGED <<listVars, settings, hostTrieDisk, tickVars, refreshing, saver, geoVars,
                   closed, mishap>>

(* The list is saved as it was read, with the errors of the downloads. (An   *)
(* edit made since then is undone.)                                          *)
SaveLists(r) ==
    /\ run[r].pc = "download"
    /\ list' = run[r].list
    /\ run' = [run EXCEPT ![r].pc = "geoip", ![r].list = 0]
    /\ UNCHANGED <<edited, settings, hostTrieDisk, tickVars, refreshing, saver, geoVars, closed,
                   mishap>>

(* refreshGeoip: the new file is complete; the open database is closed by    *)
(* beforeWrite, the file renamed, and a closed database forgotten. The       *)
(* download may fail before, the rename at the last; without a URL nothing   *)
(* is done.                                                                  *)
CloseFirst(r, close) ==
    /\ run[r].pc = "geoip"
    /\ geoip' = IF close THEN [geoip EXCEPT !.m = 0] ELSE geoip
    /\ mishap' = [mishap EXCEPT !.geo = FALSE]
    /\ run' = [run EXCEPT ![r].pc = "rename"]
    /\ UNCHANGED <<listVars, settings, hostTrieDisk, tickVars, refreshing, saver, file, closed>>

CloseGeoip(r) == CloseFirst(r, TRUE)

Rename(r) ==
    /\ run[r].pc = "rename" /\ file < MaxVersion
    /\ file' = file + 1
    /\ run' = [run EXCEPT ![r].pc = "forget"]
    /\ UNCHANGED <<listVars, settings, hostTrieDisk, tickVars, refreshing, saver, geoip, closed,
                   mishap>>

NoDownload(r) ==
    /\ run[r].pc = "geoip"
    /\ run' = [run EXCEPT ![r].pc = "save"]
    /\ UNCHANGED <<listVars, settings, hostTrieDisk, tickVars, refreshing, saver, geoVars,
                   closed, mishap>>

DownloadFails(r) ==
    /\ run[r].pc \in {"geoip", "rename"}
    /\ run' = [run EXCEPT ![r].pc = "forget"]
    /\ UNCHANGED <<listVars, settings, hostTrieDisk, tickVars, refreshing, saver, geoVars,
                   closed, mishap>>

ForgetGeoip(r) ==
    /\ run[r].pc = "forget"
    /\ geoip' = IF geoip.m = 0 THEN NoGeo ELSE geoip
    /\ run' = [run EXCEPT ![r].pc = "save"]
    /\ UNCHANGED <<listVars, settings, hostTrieDisk, tickVars, refreshing, saver, file,
                   closed, mishap>>

(* The settings go back as they were read; refreshing is cleared.            *)
SaveSettings(r) ==
    /\ run[r].pc = "save"
    /\ settings' = run[r].settings
    /\ mishap' = [mishap EXCEPT !.settings = @ \/ settings # run[r].settings]
    /\ refreshing' = FALSE
    /\ run' = [run EXCEPT ![r] = [NoRun EXCEPT !.pc = "end"]]
    /\ UNCHANGED <<listVars, hostTrieDisk, tickVars, saver, geoVars, closed>>

RefreshFails(r) ==
    /\ run[r].pc \in {"lists", "settings", "download", "save"}
    /\ refreshing' = FALSE
    /\ run' = [run EXCEPT ![r] = [NoRun EXCEPT !.pc = "end"]]
    /\ UNCHANGED <<listVars, settings, hostTrieDisk, tickVars, saver, geoVars, closed, mishap>>

(* The callback arms the ticker again, with its own interval: the one that   *)
(* is current now, which may be another, or nil (list.go:374).               *)
Rearm(r) ==
    /\ run[r].pc = "end"
    /\ run' = [run EXCEPT ![r].pc = "idle"]
    /\ IF r = 0 THEN UNCHANGED <<timer, crashed, mishap>>
       ELSE /\ crashed' = (ticker = 0)
            /\ timer' = [t \in Tickers |->
                   IF t = ticker THEN [timer[t] EXCEPT !.st = "armed", !.due = timer[r].interval]
                   ELSE IF t = r THEN [timer[t] EXCEPT !.st = "stopped"] ELSE timer[t]]
            /\ mishap' = [mishap EXCEPT !.settings = @ \/ ticker \notin {0, r}]
    /\ UNCHANGED <<listVars, settings, hostTrieDisk, ticker, refreshing, saver, geoVars,
                   closed>>

(* resetRefreshInterval: the old timer is stopped, a new one made.           *)
Reset(i, stop) ==
    LET kept == IF ticker = 0 \/ ~stop THEN timer
                ELSE [timer EXCEPT ![ticker].st = IF @ = "armed" THEN "stopped" ELSE @]
    IN \/ i \notin 1..MaxInterval /\ ticker' = 0 /\ timer' = kept
       \/ /\ i \in 1..MaxInterval
          /\ \E t \in Tickers :
               /\ timer[t].st = "none" /\ \A u \in Tickers : u < t => timer[u].st # "none"
               /\ ticker' = t
               /\ timer' = [kept EXCEPT ![t] = Armed(i)]

ResetKeepsOld(i) == Reset(i, FALSE)  \* mutant: the old timer goes on
ResetTicker(i) == Reset(i, TRUE)

(* SaveContractConfig: read, reset the interval, save, and rebuild the host  *)
(* index when it moves between memory and disk.                              *)
SaveConfig(s, new) ==
    /\ saver[s].pc = "idle" /\ ~closed
    /\ saver' = [saver EXCEPT ![s] = [pc |-> "reset", new |-> new, old |-> settings]]
    /\ UNCHANGED <<listVars, settings, hostTrieDisk, tickVars, refreshing, run, geoVars,
                   closed, mishap>>

ResetInterval(s) ==
    /\ saver[s].pc = "reset"
    /\ IF saver[s].new.interval = saver[s].old.interval THEN UNCHANGED <<ticker, timer>>
       ELSE ResetTicker(saver[s].new.interval)
    /\ saver' = [saver EXCEPT ![s].pc = "save"]
    /\ UNCHANGED <<listVars, settings, hostTrieDisk, crashed, refreshing, run, geoVars,
                   closed, mishap>>

Saving(pcs) == {s \in Savers : saver[s].pc \in pcs}

StoreConfig(s) ==
    /\ saver[s].pc = "save"
    /\ settings' = saver[s].new
    /\ mishap' = [mishap EXCEPT !.settings = \/ @ \/ settings # saver[s].old
                                             \/ Saving({"reset", "save", "disk"}) # {s}]
    /\ saver' = [saver EXCEPT ![s].pc = "disk"]
    /\ UNCHANGED <<listVars, hostTrieDisk, tickVars, refreshing, run, geoVars, closed>>

StoreConfigFails(s) ==
    /\ saver[s].pc = "save"
    /\ mishap' = [mishap EXCEPT !.settings = TRUE]
    /\ saver' = [saver EXCEPT ![s] = [NoSaver EXCEPT !.pc = "done"]]
    /\ UNCHANGED <<listVars, settings, hostTrieDisk, tickVars, refreshing, run, geoVars,
                   closed>>

SwitchDisk(s) ==
    /\ saver[s].pc = "disk"
    /\ hostTrieDisk' = IF saver[s].new.disk = saver[s].old.disk THEN hostTrieDisk
                       ELSE saver[s].new.disk
    /\ mishap' = [mishap EXCEPT !.settings = @ \/ settings # saver[s].new]
    /\ saver' = [saver EXCEPT ![s] = [NoSaver EXCEPT !.pc = "done"]]
    /\ UNCHANGED <<listVars, settings, tickVars, refreshing, run, geoVars, closed>>

EditList ==
    /\ edited < MaxVersion
    /\ edited' = edited + 1
    /\ list' = edited'
    /\ mishap' = [mishap EXCEPT !.list = @ \/ Running({"settings", "download"})]
    /\ UNCHANGED <<settings, hostTrieDisk, tickVars, refreshing, run, saver, geoVars, closed>>

(* LoadGeoip, on the first lookup that finds none: the file that is there,   *)
(* or a nil database if it cannot be opened.                                 *)
LoadGeoip ==
    /\ ~geoip.loaded /\ ~closed
    /\ geoip' \in {[loaded |-> TRUE, m |-> file], [loaded |-> TRUE, m |-> 0]}
    /\ mishap' = [mishap EXCEPT !.geo = Running({"rename"})]
    /\ UNCHANGED <<listVars, settings, hostTrieDisk, tickVars, refreshing, run, saver,
                   file, closed>>

Close ==
    /\ ~closed
    /\ closed' = TRUE
    /\ ResetTicker(0)
    /\ geoip' = [geoip EXCEPT !.m = 0]
    /\ UNCHANGED <<listVars, settings, hostTrieDisk, crashed, refreshing, run, saver, file,
                   mishap>>

RunStep(r) ==
    \/ ReadLists(r) \/ ReadSettings(r) \/ SaveLists(r) \/ CloseGeoip(r) \/ Rename(r)
    \/ NoDownload(r) \/ DownloadFails(r) \/ ForgetGeoip(r) \/ SaveSettings(r)
    \/ RefreshFails(r) \/ Rearm(r)

Next ==
    /\ ~crashed
    /\ \/ \E t \in Tickers : Fire(t)
       \/ RefreshCall
       \/ \E r \in Refreshers : RunStep(r)
       \/ \E s \in Savers : \/ \E new \in Settings : SaveConfig(s, new)
                            \/ ResetInterval(s) \/ StoreConfig(s) \/ StoreConfigFails(s)
                            \/ SwitchDisk(s)
       \/ EditList \/ LoadGeoip \/ Close

Spec == Init /\ [][Next]_vars

-----------------------------------------------------------------------------
TypeOK ==
    /\ list \in 1..MaxVersion /\ file \in 1..MaxVersion
    /\ settings \in Settings
    /\ ticker \in Tickers \cup {0}
    /\ geoip.m \in 0..MaxVersion

Quiet == /\ \A r \in Refreshers : run[r].pc = "idle"
         /\ \A s \in Savers : saver[s].pc \in {"idle", "done"}

(* The refreshes go on: while there is a ticker it is armed, or a callback   *)
(* runs that will arm it. No timer but the current one is armed, and the     *)
(* process only panics when the ticker was taken away from a callback by an  *)
(* interval of 0 or by Close.                                                *)
TickerAlive ==
    /\ ticker # 0 /\ ~crashed =>
         timer[ticker].st = "armed" \/ \E t \in Tickers : timer[t].st = "fired"
    /\ \A t \in Tickers : timer[t].st = "armed" => t = ticker
    /\ crashed => ticker = 0

(* At rest the running system is what is stored. A list is as last edited,   *)
(* unless that was while a refresh held the older one (list.go:473). The     *)
(* ticker has the stored interval and the index is where the settings say,   *)
(* unless a refresh and a change of the settings overlapped (the refresh     *)
(* writes back what it read minutes before, list.go:482, and arms the new    *)
(* timer with the old interval, list.go:374), two changes did (no lock keeps *)
(* them apart, list.go:491), or the store failed. An open                    *)
(* database is the file on disk, unless a lookup opened it between           *)
(* beforeWrite and the rename (downloader.go:158).                           *)
RuntimeAsStored ==
    Quiet =>
       /\ list = edited \/ mishap.list
       /\ ~closed /\ ~mishap.settings =>
            /\ settings.disk = hostTrieDisk
            /\ IF ticker = 0 THEN settings.interval \notin 1..MaxInterval
               ELSE timer[ticker].due = settings.interval
       /\ geoip.m \in {0, file} \/ mishap.geo
=============================================================================
