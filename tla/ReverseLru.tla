----------------------------- MODULE ReverseLru -----------------------------
(* The bounded cache that is also read by value, utils/lru: ReverseSyncLru   *)
(* of reverse.go over the lru of lru.go. It holds the fake addresses of      *)
(* domains and the NAT table of the TUN stack. Every operation runs under    *)
(* one mutex, so that each is one step.                                      *)
EXTENDS Naturals, Sequences, SequencesExt

CONSTANTS
    Keys, Values, None,
    capacity   \* 0: without a limit

VARIABLES
    list,        \* the keys, the one used last in front
    mapping,     \* key -> value or None
    expired,     \* the keys whose entries have expired
    reverseMap,  \* value -> key or None
    popped       \* the value of lastPopEntry, or None

vars == <<list, mapping, expired, reverseMap, popped>>

Init ==
    /\ list = <<>>
    /\ mapping = [k \in Keys |-> None]
    /\ expired = {}
    /\ reverseMap = [v \in Values |-> None]
    /\ popped = None

cache == [list |-> list, mapping |-> mapping, expired |-> expired,
          reverse |-> reverseMap, popped |-> popped]

Become(c) ==
    /\ list' = c.list /\ mapping' = c.mapping /\ expired' = c.expired
    /\ reverseMap' = c.reverse /\ popped' = c.popped

Has(c, k) == c.mapping[k] # None
MoveToFront(l, k) == <<k>> \o SelectSeq(l, LAMBDA x : x # k)

(* removeElement, with the onRemove of NewSyncReverseLru.                    *)
RemoveElement(c, k) ==
    [list |-> SelectSeq(c.list, LAMBDA x : x # k),
     mapping |-> [c.mapping EXCEPT ![k] = None],
     expired |-> c.expired \ {k},
     reverse |-> [c.reverse EXCEPT ![c.mapping[k]] = None],
     popped |-> c.mapping[k]]

DeleteKey(c, k) == IF Has(c, k) THEN RemoveElement(c, k) ELSE c

(* onValueUpdate: the old value of a key no longer leads to it.              *)
KeepOldValue(reverse, old, new) == reverse  \* mutant: the old value is left in reverseMap
ValueUpdate(reverse, old, new) ==
    IF old = new \/ reverse[old] = None THEN reverse
    ELSE [reverse EXCEPT ![old] = None, ![new] = reverse[old]]

(* lru.Add: an update in place, or a new entry and, past the capacity, the   *)
(* removal of the one that was used least recently.                          *)
LruAdd(c, k, v) ==
    LET added == [c EXCEPT !.list = MoveToFront(c.list, k), !.mapping[k] = v,
                           !.expired = @ \ {k}]
    IN IF Has(c, k) THEN [added EXCEPT !.reverse = ValueUpdate(@, c.mapping[k], v)]
       ELSE IF capacity # 0 /\ Len(added.list) > capacity
       THEN RemoveElement(added, Last(added.list))
       ELSE added

Add(k, v) ==
    LET old == reverseMap[v]
        freed == IF old # None THEN DeleteKey(cache, old) ELSE cache
        added == LruAdd(freed, k, v)
    IN Become([added EXCEPT !.reverse[v] = k])

(* load of lru.go: an expired entry is removed unless asked for             *)
(* optimistically; otherwise it moves to the front.                          *)
LoadEntry(c, k, refresh, optimistic) ==
    IF ~Has(c, k) THEN c
    ELSE IF k \in c.expired /\ ~optimistic THEN RemoveElement(c, k)
    ELSE [c EXCEPT !.list = MoveToFront(@, k), !.expired = IF refresh THEN @ \ {k} ELSE @]

(* Load, LoadRefreshExpire and LoadOptimistic.                               *)
Load(k, refresh, optimistic) == Become(LoadEntry(cache, k, refresh, optimistic))

(* ReverseLoad, ValueExist and ReverseLoadRefreshExpire look at the entry,   *)
(* which may have expired. (The last one answers with the key even so.)      *)
ReverseLoad(v, refresh) ==
    reverseMap[v] # None /\ Become(LoadEntry(cache, reverseMap[v], refresh, FALSE))

Delete(k) == Become(DeleteKey(cache, k))

(* ClearExpired removes the expired entries, in the order of a Go map.       *)
ClearExpired(last) ==
    /\ last \in expired
    /\ list' = SelectSeq(list, LAMBDA x : x \notin expired)
    /\ mapping' = [k \in Keys |-> IF k \in expired THEN None ELSE mapping[k]]
    /\ reverseMap' = [v \in Values |-> IF reverseMap[v] \in expired THEN None ELSE reverseMap[v]]
    /\ popped' = mapping[last]
    /\ expired' = {}

Expire(k) ==
    /\ Has(cache, k) /\ k \notin expired
    /\ expired' = expired \cup {k}
    /\ UNCHANGED <<list, mapping, reverseMap, popped>>

Next ==
    \/ \E k \in Keys, v \in Values : Add(k, v)
    \/ \E k \in Keys : \/ Load(k, FALSE, FALSE) \/ Load(k, TRUE, FALSE) \/ Load(k, FALSE, TRUE)
                       \/ Delete(k) \/ Expire(k) \/ ClearExpired(k)
    \/ \E v \in Values : ReverseLoad(v, FALSE) \/ ReverseLoad(v, TRUE)

Spec == Init /\ [][Next]_vars

-----------------------------------------------------------------------------
TypeOK ==
    /\ list \in Seq(Keys)
    /\ mapping \in [Keys -> Values \cup {None}] /\ reverseMap \in [Values -> Keys \cup {None}]
    /\ expired \subseteq Keys

(* The two directions agree: a value leads to a key exactly when the key     *)
(* has that value, so that no two keys share one; the list holds exactly     *)
(* the keys of the map, each once, and not more than the capacity.           *)
InverseMaps ==
    /\ \A k \in Keys, v \in Values : mapping[k] = v <=> reverseMap[v] = k
    /\ \A k \in Keys : Has(cache, k) <=> k \in ToSet(list)
    /\ IsInjective(list)
    /\ expired \subseteq ToSet(list)
    /\ capacity # 0 => Len(list) <= capacity
=============================================================================
