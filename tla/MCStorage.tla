------------------------------ MODULE MCStorage -----------------------------
(* What is kept in files, for TLC: the segments of the disk tries, the       *)
(* executable that an update replaces and the tables that a start converts.  *)
(* They share no file, so a behaviour drives one of them (part) and leaves   *)
(* the others in their initial states.  For the tries, three names (one      *)
(* below another, one with a wildcard in front) and two prefixes; the memory *)
(* tree is full at three nodes and values, and two segments are merged.      *)
EXTENDS DiskTrie

CONSTANTS q1, q2, Bad, None

MCDomainRules == {<<<<"c">>, 1>>, <<<<"c", "*">>, 3>>, <<<<"*", "a">>, 4>>}
MCCidrRules == {<<<<4>>, 1>>, <<<<4, 0>>, 2>>}
MCDomainQueries == {<<"c">>, <<"c", "a">>, <<"c", "b">>, <<"d", "a">>, <<"c", "a", "b">>}
MCCidrQueries == {<<4, 0>>, <<4, 1>>, <<6, 0>>}

VARIABLES
    part,
    system, newest, current, running, stage, apply, staged, target, backup, helper, service,
    loaded, mishap, overlapped,
    old, repairable, existed, at, starts, edits, legacy, plain, marks, times, selected, copied,
    wanted, chosen, undone

update == <<system, newest, current, running, stage, apply, staged, target, backup, helper,
            service, loaded, mishap, overlapped>>
start == <<old, repairable, existed, at, starts, edits, legacy, plain, marks, times, selected,
           copied, wanted, chosen, undone>>

(* Two calls of Apply, on each system; a release appears in between.         *)
Replace == INSTANCE Update WITH
    Requests <- {q1, q2}, Versions <- {1, 2}, Systems <- {"linux", "darwin", "windows"},
    up <- service

(* The defaults, or old files with one node or two; the user makes two       *)
(* changes, and the third start may find both.                               *)
Held(nodes) ==
    [t \in {"inbounds", "resolvers", "rules", "lists", "nodes", "tags"} |->
        IF t \in {"nodes", "tags"} THEN nodes ELSE {"r1"}]
Convert == INSTANCE LegacyMigrate WITH
    Rows <- {"r1", "r2"}, Old <- {Held({}), Held({"r1"}), Held({"r1", "r2"})},
    MaxEdits <- 2, MaxStarts <- 3, files <- old, old <- existed

MCInit ==
    /\ part \in {"trie", "update", "start"}
    /\ Init /\ Replace!Init /\ Convert!Init
    /\ part # "trie" => flavor = CHOOSE f \in Flavors : TRUE
    /\ part # "update" => system = "linux" /\ newest = 1
    /\ part # "start" => old = Held({}) /\ ~repairable /\ ~existed

MCNext ==
    \/ part = "trie" /\ Next /\ UNCHANGED <<part, update, start>>
    \/ part = "update" /\ Replace!Next /\ UNCHANGED <<part, vars, start>>
    \/ part = "start" /\ Convert!Next /\ UNCHANGED <<part, vars, update>>

MCSpec == MCInit /\ [][MCNext]_<<part, vars, update, start>>

-----------------------------------------------------------------------------
(* Status.Running is true exactly while one update is being prepared, an     *)
(* executable that works is never lost, and after an update, or one that     *)
(* failed, the service runs (Update, update/service.go:170 and               *)
(* cmd/yuhaiin/update_installer_unix.go:98).                                 *)
UpdateIsSafe ==
    Replace!OneUpdate /\ Replace!ExecutableKept /\ Replace!ServiceComesBack

(* A program that runs has what the old files held, with the user's changes  *)
(* (LegacyMigrate, migrate/state_db.go:46).                                  *)
StartKeeps == Convert!StartKeeps

(* "on restart, prefer the new JSON shape"                                   *)
(* (docs/http-api-migration-design.md:623; LegacyMigrate,                    *)
(* legacy/migrate/store.go:91).                                              *)
NewShapePreferred == Convert!NewShapePreferred
=============================================================================
