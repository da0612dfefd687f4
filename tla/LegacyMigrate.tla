---------------------------- MODULE LegacyMigrate ---------------------------
(* What every start does before any store is used (app/app.go:78): the old   *)
(* files are imported into the first SQLite tables, and these are converted  *)
(* into the tables in use (migrate/state_db.go, legacy/chore/sqlite_db.go,   *)
(* legacy/migrate).  Each step reads a marker in the table metadata and      *)
(* commits its work with the marker, or else the start fails; the process    *)
(* may also be killed at any step, and is started again.  The first tables   *)
(* are never emptied.  A row is only a name: what is converted is whether it *)
(* is there.                                                                 *)
EXTENDS Naturals, FiniteSets, Sequences

CONSTANTS
    Rows,          \* names of nodes, rules, lists, ...
    None,
    Old,           \* what old files may hold: functions from tables to sets of rows
    MaxEdits,      \* bound on the operations of the user
    MaxStarts      \* bound on the starts

ConfigTables == {"inbounds", "resolvers", "rules", "lists"}
Tables == ConfigTables \cup {"nodes", "tags"}
(* Rewritten in the table they are in, or imported without a second table.   *)
InPlace == {"settings_kv", "subscriptions", "preferences", "backup", "transports", "chains",
            "statistics", "flow", "fakeip4", "fakeip6"}

VARIABLES
    files,      \* the old files, or the defaults, by table
    repairable, \* an Android configuration blob lies beside the database
    old,        \* the database existed before the first start of this program
    at,         \* "down", a step of the start, or "running"
    starts, edits,
    legacy,     \* the first tables: nodes, node_tags, route_rules, ...
    plain,      \* the tables in use: nodes_v2, node_tags_v2, ...
    marks,      \* the markers of metadata
    times,      \* how often what a table holds was converted in place
    selected,   \* selected_tcp_node_v2 and selected_udp_node_v2
    copied,     \* a copy of the database was made before the first conversion
    wanted,     \* history: the rows the user should find
    chosen,     \* history: the node the user chose last, while it exists at a start
    undone      \* history: the tables written anew after they had been in use

disk == <<files, repairable, old, copied>>
user == <<edits, wanted, chosen>>
vars == <<disk, at, starts, legacy, plain, marks, times, selected, undone, user>>

Steps == <<"copy", "settings_kv", "config", "repair", "inbounds", "node_import", "nodes",
           "subscriptions", "resolvers", "rules", "lists", "tags", "preferences", "backup",
           "backup_mark", "transports", "chains", "statistics", "plain", "flow", "fakeip4",
           "fakeip6", "running">>
After(s) == Steps[1 + CHOOSE i \in 1..Len(Steps) : Steps[i] = s]

Nothing == [t \in Tables |-> {}]
ConfigFile == files["nodes"] # {}  \* defaults, without nodes, come without config.json
Converted == Tables \cup InPlace \cup {"config", "node_import"}

(* No database; the tables of a version that knew no others; or those of one *)
(* that had converted them, before "repair" and "plain" were introduced.     *)
Init ==
    /\ files \in Old /\ repairable \in BOOLEAN
    /\ \E found \in {"none", "tables", "converted"} :
          /\ old = (found # "none")
          /\ legacy = IF found = "none" THEN Nothing ELSE files
          /\ plain = IF found = "converted" THEN files ELSE Nothing
          /\ marks = IF found # "converted" THEN {}
                     ELSE Converted \ (IF ConfigFile THEN {} ELSE {"transports"})
          /\ times = [s \in InPlace |-> IF s \in marks THEN 1 ELSE 0]
    /\ at = "down" /\ starts = 0 /\ edits = 0 /\ copied = FALSE
    /\ selected = None /\ chosen = None
    /\ wanted = files /\ undone = {}

Go(s) == at = s /\ at' = After(s)
Same == UNCHANGED <<legacy, plain, marks, times, selected, undone, user>>

Start ==
    /\ at = "down" /\ starts < MaxStarts
    /\ starts' = starts + 1 /\ at' = "copy"
    /\ UNCHANGED disk /\ Same

(* backupIfNeeded: VACUUM INTO a file beside the database, if there is one.  *)
Copy ==
    /\ Go("copy")
    /\ copied' = (copied \/ ((old \/ marks # {}) /\ "plain" \notin marks))
    /\ UNCHANGED <<files, repairable, old, starts>> /\ Same

(* A statement fails, or the process is killed: the transaction of the step  *)
(* is rolled back.                                                           *)
Abort ==
    /\ at \notin {"down", "running"}
    /\ at' = "down"
    /\ UNCHANGED <<disk, starts>> /\ Same

(* Once, with the marker in the same transaction (together).                 *)
Marking(s, together) ==
    /\ at = s /\ at' \in {After(s)} \cup (IF together THEN {} ELSE {"down"})
    /\ times' = IF s \in marks THEN times ELSE [times EXCEPT ![s] = @ + 1]
    /\ marks' = IF at' = "down" THEN marks ELSE marks \cup {s}
    /\ UNCHANGED <<disk, starts, legacy, plain, selected, undone, user>>
ConvertThenMark(s) == Marking(s, FALSE)  \* mutant: killed before the marker is set
ConvertInPlace(s) == Marking(s, TRUE)
NormalizeLegacySettingsKV == ConvertInPlace("settings_kv")
MigrateLegacySubscriptions == ConvertInPlace("subscriptions")
ImportPreferences == ConvertInPlace("preferences")
RecoverLegacyNodeChains == ConvertInPlace("chains")
MigrateLegacyStatisticConnectionJSON == ConvertInPlace("statistics")
MigrateLegacyTotalFlow == ConvertInPlace("flow")
MigrateLegacyFakeIP == ConvertInPlace("fakeip4") \/ ConvertInPlace("fakeip6")

(* RecoverLegacyInboundTransportsFromConfig needs config.json.               *)
RecoverTransports ==
    IF ConfigFile
    THEN ConvertInPlace("transports")
    ELSE Go("transports") /\ UNCHANGED <<disk, starts>> /\ Same
-----------------------------------------------------------------------------
(* ensureConfigImported: a database that has any configuration is kept;      *)
(* otherwise the files, or the defaults, are written to the first tables.    *)
ImportConfig ==
    /\ Go("config")
    /\ marks' = marks \cup {"config"} \cup
                   (IF "config" \in marks \/ old THEN {} ELSE {"repair"})
    /\ legacy' = IF "config" \in marks \/ old THEN legacy
                 ELSE [t \in Tables |-> IF t \in ConfigTables THEN files[t] ELSE legacy[t]]
    /\ UNCHANGED <<disk, starts, plain, times, selected, undone, user>>

(* repairLegacyAndroidProtobufConfig: the blob is laid over the first        *)
(* tables (only the sections it has: here that of routing), these are        *)
(* cleared and written again as the old schema knows them, and the markers   *)
(* of some are removed, so that the next steps convert them again.  The      *)
(* settings keep their shape, but for what that schema does not know; the    *)
(* settings of the backup are written in the old one and keep their marker.  *)
Reset == ConfigTables \cup {"tags"}
Rewritten == Reset \cup {"settings_kv", "backup"}
Repairs == "repair" \notin marks /\ repairable
Repair ==
    /\ Go("repair")
    /\ LET routes(f) == [f EXCEPT !["rules"] = Rows, !["lists"] = Rows]
       IN  IF Repairs
           THEN /\ legacy' = routes(legacy)
                /\ wanted' = IF Reset \subseteq marks THEN wanted ELSE routes(wanted)
                /\ times' = [times EXCEPT !["backup"] = 0]
                /\ undone' = undone \cup (Rewritten \cap marks)
                /\ marks' = (marks \ Reset) \cup {"repair"}
           ELSE /\ marks' = marks \cup {"repair"}
                /\ UNCHANGED <<legacy, wanted, times, undone>>
    /\ UNCHANGED <<disk, starts, plain, selected, edits, chosen>>

(* What the user finds, in a table built anew, is what was made of it.       *)
Found(t, anew) ==
    wanted' = IF t \in anew /\ plain' # plain THEN [wanted EXCEPT ![t] = plain'[t]] ELSE wanted

(* MigrateLegacyInbounds leaves the rows that are there already,             *)
(* MigrateLegacyResolvers, -RouteLists and -RouteTags delete them first.     *)
MigrateOnce(t, kept) ==
    /\ Go(t)
    /\ plain' = IF t \in marks THEN plain ELSE [plain EXCEPT ![t] = legacy[t] \cup kept]
    /\ marks' = marks \cup {t}
    /\ Found(t, undone)
    /\ UNCHANGED <<disk, starts, legacy, selected, edits, chosen>>

(* An inbound that is converted again has the transports of the first table, *)
(* and the marker of those that were recovered stays.                        *)
MigrateLegacyInbounds ==
    /\ MigrateOnce("inbounds", plain["inbounds"])
    /\ LET lost == "inbounds" \notin marks /\ "transports" \in marks
       IN  /\ times' = IF lost THEN [times EXCEPT !["transports"] = 0] ELSE times
           /\ undone' = IF lost THEN undone \cup {"transports"} ELSE undone
MigrateLegacyResolvers == MigrateOnce("resolvers", {}) /\ UNCHANGED <<times, undone>>
MigrateLegacyRouteLists == MigrateOnce("lists", {}) /\ UNCHANGED <<times, undone>>
MigrateLegacyRouteTags == MigrateOnce("tags", {}) /\ UNCHANGED <<times, undone>>

(* Done before, and nothing or as much as before in the first table.         *)
Migrated(t) ==
    /\ t \in marks
    /\ legacy[t] = {} \/ Cardinality(legacy[t]) = Cardinality(plain[t])

(* A table whose marker is set is built anew when the numbers of rows differ.*)
Rebuild(t, keeps) ==
    /\ Go(t)
    /\ plain' = IF keeps THEN plain ELSE [plain EXCEPT ![t] = legacy[t]]
    /\ marks' = marks \cup {t}
    /\ undone' = IF ~keeps /\ t \in marks THEN undone \cup {t} ELSE undone
    /\ Found(t, undone')
    /\ UNCHANGED <<disk, starts, legacy, times, edits>>
MigrateLegacyRouteRules ==
    Rebuild("rules", Migrated("rules")) /\ UNCHANGED <<selected, chosen>>

(* ImportLegacyNodesFromJSON: unless one of the tables has nodes.            *)
ImportNodes ==
    /\ Go("node_import")
    /\ LET imports == /\ "node_import" \notin marks
                      /\ legacy["nodes"] = {} /\ plain["nodes"] = {}
           plainOnly == /\ "node_import" \notin marks
                        /\ legacy["nodes"] = {} /\ plain["nodes"] # {}
       IN  /\ legacy' = IF imports
                        THEN [legacy EXCEPT !["nodes"] = files["nodes"], !["tags"] = files["tags"]]
                        ELSE legacy
           /\ marks' = marks \cup {"node_import"} \cup (IF plainOnly THEN {"nodes"} ELSE {})
    /\ UNCHANGED <<disk, starts, plain, times, selected, undone, user>>

(* The node selected in the old files.                                       *)
Picked == IF files["nodes"] = {} THEN None ELSE CHOOSE n \in files["nodes"] : TRUE

(* syncLegacySelectedNode: only over a selection that names no node.         *)
SyncLegacySelected ==
    /\ selected' = IF /\ selected \notin plain'["nodes"]
                      /\ Picked \in legacy["nodes"] \cap plain'["nodes"]
                   THEN Picked ELSE selected
    /\ chosen' = IF chosen \in plain'["nodes"] THEN chosen ELSE None
MigrateLegacyNodes == Rebuild("nodes", Migrated("nodes")) /\ SyncLegacySelected

(* MigrateLegacyBackup writes the settings and then, in another transaction, *)
(* the marker: killed between them, it converts what it converted, which     *)
(* convertLegacyBackupJSON leaves as it is.                                  *)
SaveBackup ==
    /\ Go("backup")
    /\ times' = IF "backup" \in marks THEN times ELSE [times EXCEPT !["backup"] = @ + 1]
    /\ UNCHANGED <<disk, starts, legacy, plain, marks, selected, undone, user>>
Mark(s, m) ==
    /\ Go(s)
    /\ marks' = marks \cup {m}
    /\ UNCHANGED <<disk, starts, legacy, plain, times, selected, undone, user>>
-----------------------------------------------------------------------------
Editing == at = "running" /\ edits < MaxEdits /\ edits' = edits + 1
Edited(t, rows) ==
    /\ plain' = [plain EXCEPT ![t] = rows] /\ wanted' = [wanted EXCEPT ![t] = rows]
    /\ UNCHANGED <<disk, at, starts, marks, times, undone>>

(* NodeStore.Save, RouteRuleStore.SaveRule and their like.                   *)
SaveRow(t, r) ==
    /\ Editing
    /\ Edited(t, plain[t] \cup {r})
    /\ UNCHANGED <<legacy, selected, chosen>>

(* NodeStore.Delete also deletes the memberships of the node, in node_tags.  *)
DeleteRow(t, r) ==
    /\ Editing /\ r \in plain[t]
    /\ Edited(t, plain[t] \ {r})
    /\ legacy' = IF t = "nodes" THEN [legacy EXCEPT !["tags"] = @ \ {r}] ELSE legacy
    /\ UNCHANGED <<selected, chosen>>

UseNode(n) ==
    /\ Editing /\ n \in plain["nodes"]
    /\ selected' = n /\ chosen' = n
    /\ UNCHANGED <<disk, at, starts, legacy, plain, marks, times, undone, wanted>>

Stop ==
    /\ at = "running" /\ at' = "down"
    /\ UNCHANGED <<disk, starts>> /\ Same

Next ==
    \/ Start \/ Copy \/ Abort \/ Stop
    \/ NormalizeLegacySettingsKV \/ MigrateLegacySubscriptions \/ ImportPreferences
    \/ RecoverLegacyNodeChains \/ MigrateLegacyStatisticConnectionJSON
    \/ MigrateLegacyTotalFlow \/ MigrateLegacyFakeIP
    \/ RecoverTransports \/ ImportConfig \/ Repair \/ ImportNodes
    \/ MigrateLegacyInbounds \/ MigrateLegacyNodes \/ MigrateLegacyResolvers
    \/ MigrateLegacyRouteRules \/ MigrateLegacyRouteLists \/ MigrateLegacyRouteTags
    \/ SaveBackup \/ Mark("backup_mark", "backup") \/ Mark("plain", "plain")
    \/ \E t \in Tables, r \in Rows : SaveRow(t, r) \/ DeleteRow(t, r)
    \/ \E n \in Rows : UseNode(n)

Spec == Init /\ [][Next]_vars
-----------------------------------------------------------------------------
TypeOK ==
    /\ at \in {"down"} \cup {Steps[i] : i \in 1..Len(Steps)}
    /\ legacy \in [Tables -> SUBSET Rows] /\ plain \in [Tables -> SUBSET Rows]
    /\ wanted \in [Tables -> SUBSET Rows] /\ undone \subseteq Tables \cup InPlace
    /\ marks \subseteq Tables \cup InPlace \cup {"config", "node_import", "repair", "plain"}
    /\ times \in [InPlace -> Nat]
    /\ selected \in Rows \cup {None} /\ chosen \in Rows \cup {None}

(* However often a start failed or was killed half way, a program that runs  *)
(* has what the old files or tables held with the user's changes on top,     *)
(* what is converted in place was converted once (the settings of the        *)
(* backup, which are left as they are the next time, at least once), the     *)
(* user's choice of a node stands while the node exists, and an old database *)
(* was copied before it was touched (migrate/state_db.go:46).  Of the tables *)
(* in use only nodes and rules are built anew (store.go:91 and :251), and    *)
(* then have the rows of the first tables with the changes made since; the   *)
(* repair, of an old database beside a blob, does so to all of the           *)
(* configuration, and there, and only there, the conversion of the backup    *)
(* and of the transports is undone for good (sqlite_db.go:424).              *)
Once(s) ==
    CASE s \in undone \ {"settings_kv"} -> times[s] = 0
      [] s = "transports" /\ ~ConfigFile -> times[s] = 0
      [] s = "backup" -> times[s] > 0
      [] OTHER -> times[s] = 1
StartKeeps ==
    /\ at = "running" =>
          /\ \A t \in Tables : plain[t] = wanted[t]
          /\ \A s \in InPlace : Once(s)
          /\ chosen \in plain["nodes"] => selected = chosen
    /\ undone \subseteq {"nodes", "rules"} \cup
                        (IF old /\ repairable THEN Rewritten \cup {"transports"} ELSE {})
    /\ old /\ at \notin {"down", "copy"} => copied

(* "on restart, prefer the new JSON shape", of a migration that is to be     *)
(* idempotent (docs/http-api-migration-design.md:623): a start leaves alone  *)
(* a table that was converted and is not empty (an empty one is filled       *)
(* again, as store_test.go:136 wants it).                                    *)
NewShapePreferred ==
    [][\A t \in Tables :
          t \in marks /\ plain[t] # {} /\ at # "running" => plain'[t] = plain[t]]_vars
=============================================================================
