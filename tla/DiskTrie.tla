------------------------------- MODULE DiskTrie -----------------------------
(* The disk index of the host lists: net/trie/v2/disk (domains) and its twin *)
(* net/trie/v2/cidr/disk (prefixes). Rules are collected in a memory tree,   *)
(* written out as immutable segment files, and the oldest segments merged    *)
(* when there are many. Every operation runs under the trie's mutex; a step  *)
(* of one may fail, and the process may crash between two of them.           *)
EXTENDS Naturals, Sequences, FiniteSets, FiniteSetsExt, SequencesExt

CONSTANTS
    DomainRules, CidrRules,      \* rules, as <<path, value>>
    DomainQueries, CidrQueries,  \* paths looked up
    Flavors,                     \* subset of {"domain", "cidr"}
    Limit,                       \* memoryLimit: nodes and values of the memory tree
    Threshold,                   \* segmentCompactionThreshold
    MaxId                        \* bound: segment ids

VARIABLES
    flavor,
    files,       \* id -> the tree in segment-<id>, for those that exist
    segments,    \* sequence of [id, open, tree]
    memory,      \* Trie.root
    nextSegmentID,
    up,          \* a Trie is open
    op,          \* the operation under way: [kind, pc, rule, todo, tmp]
    rules,       \* history: the rules inserted and not removed
    synced,      \* history: those of them that the last flush left on disk
    lost,        \* history: the rules at inner nodes, missing after a compaction
    torn         \* history: a failure, or a crash, left an operation half done

vars == <<flavor, files, segments, memory, nextSegmentID, up, op, rules, synced, lost,
          torn>>

-----------------------------------------------------------------------------
(* Trees: a function from a prefix-closed set of nodes to their values.      *)
Nothing == [p \in {<<>>} |-> {}]

Values(T, p) == IF p \in DOMAIN T THEN T[p] ELSE {}

Union(Ts) == [p \in UNION {DOMAIN T : T \in Ts} |-> UNION {Values(T, p) : T \in Ts}]

Inserted(T, r) ==
    [p \in DOMAIN T \cup Prefixes(r[1]) |->
        IF p = r[1] THEN Values(T, p) \cup {r[2]} ELSE Values(T, p)]

(* Of the nodes above p, those go that have nothing left below them.         *)
Pruned(T, p) ==
    [q \in {n \in DOMAIN T : \/ n \notin Prefixes(p) \ {<<>>}
                            \/ \E m \in DOMAIN T : IsPrefix(n, m) /\ T[m] # {}} |-> T[q]]

(* removeMemoryValue takes one value from a name, removeNode all from a      *)
(* prefix.                                                                   *)
RemovedValue(T, r) == IF r[1] \in DOMAIN T THEN Pruned([T EXCEPT ![r[1]] = @ \ {r[2]}], r[1]) ELSE T
RemovedPrefix(T, r) == IF r[1] \in DOMAIN T THEN Pruned([T EXCEPT ![r[1]] = {}], r[1]) ELSE T
Removed(T, r) == IF flavor = "domain" THEN RemovedValue(T, r) ELSE RemovedPrefix(T, r)

Interior(T, p) == \E q \in DOMAIN T : IsStrictPrefix(p, q)

RulesOf(T) == UNION {{<<p, v>> : v \in T[p]} : p \in DOMAIN T}

Size(T) == Cardinality(DOMAIN T) - 1 + Cardinality(RulesOf(T))

(* compactSegments: the nodes of all parts are merged in the order of their  *)
(* paths, planned, and then written as planned. In the plan of the domain    *)
(* trie a node's record is written anew, without its values, whenever a      *)
(* child of it is found (compact.go:244); that of the CIDR trie keeps them.  *)
PlanDomain(T) == [p \in DOMAIN T |-> IF Interior(T, p) THEN {} ELSE T[p]]
PlanCidr(T) == T

CompactedFirst(Ts) == CHOOSE T \in Ts : TRUE  \* mutant: the other inputs are not merged
Compacted(Ts) == IF flavor = "domain" THEN PlanDomain(Union(Ts)) ELSE PlanCidr(Union(Ts))

(* What a search sees of a segment whose region was closed: the root index   *)
(* of a domain segment stays in memory, all else reads as absent.            *)
Seen(s) ==
    IF s.open THEN s.tree
    ELSE [p \in {q \in DOMAIN s.tree : Len(q) = 0 \/ (flavor = "domain" /\ Len(q) = 1)} |-> {}]

Index == Union({memory} \cup {Seen(segments[i]) : i \in DOMAIN segments})

(* searchLocked: from the first label, or else from "*" and the first label  *)
(* that follows one; the wildcards met on the way down, and at the end the   *)
(* node itself.                                                              *)
SearchDomain(T, labels) ==
    LET n == Len(labels)
        after == {i \in 1..n : <<"*", labels[i]>> \in DOMAIN T}
        direct == <<labels[1]>> \in DOMAIN T
        matched == IF direct THEN 1 ELSE Min(after)
        base == IF direct THEN <<labels[1]>> ELSE <<"*", labels[matched]>>
        At(k) == base \o SubSeq(labels, matched + 1, k)
        way == {k \in matched..n : At(k) \in DOMAIN T}
    IN IF ~direct /\ after = {} THEN {}
       ELSE UNION {Values(T, Append(At(k), "*")) : k \in way}
            \cup (IF n \in way THEN T[At(n)] ELSE {})

(* searchAddr: the values of every prefix, of one bit (the family) or more.  *)
SearchCidr(T, bits) == UNION {Values(T, p) : p \in Prefixes(bits) \ {<<>>}}

Search(q) == IF flavor = "domain" THEN SearchDomain(Index, q) ELSE SearchCidr(Index, q)

-----------------------------------------------------------------------------
Idle == [kind |-> "none", pc |-> "idle", rule |-> <<>>, todo |-> {}, tmp |-> Nothing]
Rules == IF flavor = "domain" THEN DomainRules ELSE CidrRules
Queries == IF flavor = "domain" THEN DomainQueries ELSE CidrQueries
Put(f, id, T) == [i \in DOMAIN f \cup {id} |-> IF i = id THEN T ELSE f[i]]
Without(f, id) == [i \in DOMAIN f \ {id} |-> f[i]]
OnDisk == UNION {RulesOf(files[id]) : id \in DOMAIN files}
ClosedAll(s) == [i \in DOMAIN s |-> [s[i] EXCEPT !.open = FALSE]]
Bare == memory = Nothing

Init ==
    /\ flavor \in Flavors
    /\ files = [id \in {} |-> Nothing]
    /\ segments = <<>> /\ memory = Nothing /\ nextSegmentID = 0
    /\ up = TRUE
    /\ op = Idle
    /\ rules = {} /\ synced = {} /\ lost = {} /\ torn = FALSE

(* NewTrie: the segment files in the order of their ids; merged if many.     *)
ManyToMerge(n) == n >= Threshold

Open ==
    /\ ~up
    /\ up' = TRUE /\ memory' = Nothing
    /\ LET ids == SetToSortSeq(DOMAIN files, LAMBDA a, b : a < b)
       IN segments' = [i \in DOMAIN ids |-> [id |-> ids[i], open |-> TRUE, tree |-> files[ids[i]]]]
    /\ nextSegmentID' = IF DOMAIN files = {} THEN 0 ELSE Max(DOMAIN files) + 1
    /\ op' = IF ManyToMerge(Len(segments')) THEN [Idle EXCEPT !.kind = "open", !.pc = "merge"]
             ELSE Idle
    /\ UNCHANGED <<flavor, files, rules, synced, torn, lost>>

(* Insert, or one item of Batch; Sync and Close: all may flush.              *)
Insert(r) ==
    /\ up /\ op = Idle
    /\ memory' = Inserted(memory, r)
    /\ rules' = rules \cup {r} /\ lost' = lost \ {r}
    /\ op' = IF Size(memory') < Limit THEN Idle
             ELSE [Idle EXCEPT !.kind = "insert", !.pc = "flush"]
    /\ UNCHANGED <<flavor, files, segments, nextSegmentID, up, synced, torn>>

Sync ==
    /\ up /\ op = Idle /\ ~Bare
    /\ op' = [Idle EXCEPT !.kind = "sync", !.pc = "flush"]
    /\ UNCHANGED <<flavor, files, segments, memory, nextSegmentID, up, rules, synced, torn, lost>>

Close ==
    /\ up /\ op = Idle
    /\ op' = [Idle EXCEPT !.kind = "close", !.pc = IF Bare THEN "end" ELSE "flush"]
    /\ UNCHANGED <<flavor, files, segments, memory, nextSegmentID, up, rules, synced, torn, lost>>

(* flushLocked: the segment is written aside, synced and renamed.            *)
Flushes(next) ==
    /\ op.pc = "flush" /\ nextSegmentID < MaxId
    /\ files' = Put(files, nextSegmentID, memory)
    /\ segments' = Append(segments, [id |-> nextSegmentID, open |-> TRUE, tree |-> memory])
    /\ nextSegmentID' = next
    /\ memory' = Nothing
    /\ synced' = rules \ lost
    /\ op' = [op EXCEPT !.pc = IF ManyToMerge(Len(segments')) THEN "merge" ELSE "end"]
    /\ UNCHANGED <<flavor, up, rules, torn, lost>>

FlushSameId == Flushes(nextSegmentID)  \* mutant: nextSegmentID is not advanced
Flush == Flushes(nextSegmentID + 1)

FlushFails ==
    /\ op.pc = "flush"
    /\ op' = [op EXCEPT !.pc = "end"]
    /\ UNCHANGED <<flavor, files, segments, memory, nextSegmentID, up, rules, synced, torn, lost>>

(* (The new segment was renamed but could not be opened.)                    *)
FlushFailsLate ==
    /\ op.pc = "flush" /\ nextSegmentID < MaxId
    /\ files' = Put(files, nextSegmentID, memory)
    /\ op' = [op EXCEPT !.pc = "end"]
    /\ torn' = TRUE
    /\ UNCHANGED <<flavor, segments, memory, nextSegmentID, up, rules, synced, lost>>

(* compactOldestLocked: the merged segment is written aside, the old ones    *)
(* are closed and removed one by one, and it takes the first one's name. A   *)
(* closed segment cannot be read.                                            *)
Parts == SubSeq(segments, 1, Threshold)

(* (A NewTrie that fails closes what it has opened, as Close does.)          *)
Failed == [op EXCEPT !.pc = "end", !.todo = {}, !.tmp = Nothing,
                     !.kind = IF @ = "open" THEN "close" ELSE @]

Merge ==
    /\ op.pc = "merge"
    /\ \A i \in DOMAIN Parts : Parts[i].open
    /\ op' = [op EXCEPT !.pc = "drop", !.todo = DOMAIN Parts,
                        !.tmp = Compacted({Parts[i].tree : i \in DOMAIN Parts})]
    /\ LET all == Union({Parts[i].tree : i \in DOMAIN Parts})
           kept == {memory} \cup {segments[i].tree : i \in DOMAIN segments \ DOMAIN Parts}
       IN lost' = lost \cup {r \in RulesOf(all) \ RulesOf(Union(kept)) :
                                flavor = "domain" /\ Interior(all, r[1])}
    /\ synced' = synced \ lost'
    /\ UNCHANGED <<flavor, files, segments, memory, nextSegmentID, up, rules, torn>>

MergeFails ==
    /\ op.pc = "merge"
    /\ op' = Failed
    /\ UNCHANGED <<flavor, files, segments, memory, nextSegmentID, up, rules, synced, torn, lost>>

Drop ==
    /\ op.pc = "drop"
    /\ LET i == Min(op.todo)
       IN /\ segments' = [segments EXCEPT ![i].open = FALSE]
          /\ files' = Without(files, segments[i].id)
          /\ op' = [op EXCEPT !.todo = @ \ {i}, !.pc = IF op.todo = {i} THEN "rename" ELSE "drop"]
    /\ UNCHANGED <<flavor, memory, nextSegmentID, up, rules, synced, torn, lost>>

Rename ==
    /\ op.pc = "rename"
    /\ LET new == [id |-> segments[1].id, open |-> TRUE, tree |-> op.tmp]
       IN /\ files' = Put(files, new.id, new.tree)
          /\ segments' = <<new>> \o SubSeq(segments, Threshold + 1, Len(segments))
    /\ op' = [op EXCEPT !.tmp = Nothing, !.pc = IF ManyToMerge(Len(segments')) THEN "merge" ELSE "end"]
    /\ UNCHANGED <<flavor, memory, nextSegmentID, up, rules, synced, torn, lost>>

(* (A part that cannot be removed was closed before; a rename that fails, or *)
(* a segment that does not open, leaves the list of the closed ones.)        *)
CompactFails ==
    /\ op.pc \in {"drop", "rename"}
    /\ segments' = IF op.pc = "rename" THEN segments
                   ELSE [segments EXCEPT ![Min(op.todo)].open = FALSE]
    /\ op' = Failed
    /\ torn' = TRUE
    /\ UNCHANGED <<flavor, files, memory, nextSegmentID, up, rules, synced, lost>>

(* The operation returns. Close closes the segments whatever went wrong, and *)
(* what a failed flush left in memory is gone.                               *)
End ==
    /\ op.pc = "end"
    /\ op' = Idle
    /\ IF op.kind = "close"
       THEN /\ up' = FALSE /\ segments' = <<>> /\ memory' = Nothing /\ nextSegmentID' = 0
            /\ rules' = IF Bare THEN rules ELSE OnDisk
       ELSE UNCHANGED <<up, segments, memory, nextSegmentID, rules>>
    /\ UNCHANGED <<flavor, files, synced, torn, lost>>

(* Remove: the segments go back into memory and their files are removed, if  *)
(* there are any; nothing is on disk then until the next flush. Clear.       *)
RemoveRule(r) ==
    /\ up /\ op = Idle
    /\ \A i \in DOMAIN segments : segments[i].open
    /\ IF segments = <<>>
       THEN /\ memory' = Removed(memory, r)
            /\ rules' = {s \in rules : s[1] # r[1] \/ (flavor = "domain" /\ s # r)}
            /\ UNCHANGED <<segments, op, synced>>
       ELSE /\ segments' = ClosedAll(segments)
            /\ op' = [Idle EXCEPT !.kind = "remove", !.pc = "unlink", !.rule = r,
                                  !.tmp = Index]
            /\ synced' = {}
            /\ UNCHANGED <<memory, rules>>
    /\ UNCHANGED <<flavor, files, nextSegmentID, up, torn, lost>>

RemoveFails(r) ==
    /\ up /\ op = Idle
    /\ \E i \in DOMAIN segments : ~segments[i].open
    /\ UNCHANGED vars

Clear ==
    /\ up /\ op = Idle
    /\ segments' = ClosedAll(segments)
    /\ op' = [Idle EXCEPT !.kind = "clear", !.pc = "unlink"]
    /\ synced' = {}
    /\ UNCHANGED <<flavor, files, memory, nextSegmentID, up, rules, torn, lost>>

Unlink ==
    /\ op.pc = "unlink" /\ DOMAIN files # {}
    /\ files' = Without(files, Min(DOMAIN files))
    /\ UNCHANGED <<flavor, segments, memory, nextSegmentID, up, op, rules, synced, torn, lost>>

UnlinkFails ==
    /\ op.pc = "unlink" /\ DOMAIN files # {}
    /\ op' = Idle
    /\ torn' = TRUE
    /\ UNCHANGED <<flavor, files, segments, memory, nextSegmentID, up, rules, synced, lost>>

Unlinked ==
    /\ op.pc = "unlink" /\ DOMAIN files = {}
    /\ segments' = <<>> /\ nextSegmentID' = 0
    /\ IF op.kind = "clear" THEN memory' = Nothing /\ rules' = {}
       ELSE /\ memory' = Removed(op.tmp, op.rule)
            /\ rules' = {s \in rules : s[1] # op.rule[1] \/ (flavor = "domain" /\ s # op.rule)}
    /\ op' = Idle
    /\ UNCHANGED <<flavor, files, up, synced, torn, lost>>

(* The process ends; what is not in a segment file is gone.                  *)
Crash ==
    /\ up
    /\ up' = FALSE
    /\ segments' = <<>> /\ memory' = Nothing
    /\ op' = Idle
    /\ rules' = OnDisk
    /\ torn' = (torn \/ op.pc \in {"drop", "rename", "unlink"})
    /\ nextSegmentID' = 0
    /\ UNCHANGED <<flavor, files, synced, lost>>

Next ==
    \/ Open \/ Sync \/ Close \/ Clear \/ Crash
    \/ \E r \in Rules : Insert(r) \/ RemoveRule(r) \/ RemoveFails(r)
    \/ Flush \/ FlushFails \/ FlushFailsLate \/ Merge \/ MergeFails \/ Drop \/ Rename
    \/ CompactFails \/ End \/ Unlink \/ UnlinkFails \/ Unlinked

Spec == Init /\ [][Next]_vars

-----------------------------------------------------------------------------
TypeOK ==
    /\ DOMAIN files \subseteq 0..MaxId /\ nextSegmentID \in 0..MaxId
    /\ rules \subseteq Rules
    /\ \A id \in DOMAIN files : RulesOf(files[id]) \subseteq Rules

(* What a search must answer: the values of the rules that match. For a      *)
(* domain, as in the trie kept in memory (domain/memory.go): a rule is the   *)
(* name itself, or a suffix of it under "*"; when no rule ends in the last   *)
(* label, those that end in "*" and then in the rest of the name from the    *)
(* first label that any of them goes on with.                                *)
Matching(R, labels) ==
    LET n == Len(labels)
        Some(p) == \E r \in R : IsPrefix(p, r[1])
        Under(first, i) ==
            {r \in R : \/ r[1] = first \o SubSeq(labels, i + 1, n)
                      \/ \E k \in i..n : r[1] = Append(first \o SubSeq(labels, i + 1, k), "*")}
        starts == {i \in 1..n : Some(<<"*", labels[i]>>)}
    IN IF flavor = "cidr" THEN {r \in R : IsPrefix(r[1], labels)}
       ELSE IF Some(<<labels[1]>>) THEN Under(<<labels[1]>>, 1)
       ELSE IF starts = {} THEN {}
       ELSE Under(<<"*", labels[Min(starts)]>>, Min(starts))

Answer(R, q) == {r[2] : r \in Matching(R, q)}

Steady == up /\ op = Idle /\ ~torn

(* Whatever was flushed, merged, removed or reopened, a search over memory   *)
(* and segments answers as one over all the rules would, as long as no       *)
(* operation was left half done; but a domain rule that is a suffix of       *)
(* another is missing once segments that hold them were merged.              *)
SearchesAgree == Steady => \A q \in Queries : Search(q) = Answer(rules \ lost, q)

(* What a flush wrote stays on disk: through later flushes, compactions,     *)
(* failures and crashes, except while the old segments are being replaced    *)
(* (compact.go:467: they are removed before the merged one has its name) and *)
(* until a removal or Clear takes all segments away.                         *)
FlushedStays ==
    ~torn /\ op.pc \notin {"drop", "rename"} =>
        synced \subseteq OnDisk

(* "Search returns all values matching domain, including exact and wildcard  *)
(* rules from both the active builder and immutable segments." (trie.go:140) *)
SearchIsComplete == Steady => \A q \in Queries : Answer(rules, q) \subseteq Search(q)
=============================================================================
