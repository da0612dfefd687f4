---------------------------- MODULE BoundedQueue ----------------------------
(***************************************************************************)
(* What a queue between two goroutines promises: elements come out once,   *)
(* in the order they went in, and a push is refused only when the queue    *)
(* already holds as many elements as the limit in force allows.            *)
(***************************************************************************)
EXTENDS Naturals, Sequences

CONSTANT Values

VARIABLES
    queue,  \* the elements
    limit,  \* the configured limit, which may change at run time
    result  \* what the last operation returned: [ok, val], or nothing

vars == <<queue, limit, result>>

Answer(v) == [ok |-> TRUE, val |-> v]
Refusal == [ok |-> FALSE]

Init == queue = <<>> /\ limit \in Nat /\ result = Refusal

Put(v) ==
    /\ queue' = Append(queue, v) /\ result' = Answer(v)
    /\ UNCHANGED limit
Refuse ==
    /\ Len(queue) >= limit /\ result' = Refusal
    /\ UNCHANGED <<queue, limit>>
Get ==
    /\ queue # <<>>
    /\ queue' = Tail(queue) /\ result' = Answer(Head(queue))
    /\ UNCHANGED limit
GetNothing ==
    /\ queue = <<>> /\ result' = Refusal
    /\ UNCHANGED <<queue, limit>>
Look ==
    /\ queue # <<>> /\ result' = Answer(Head(queue))
    /\ UNCHANGED <<queue, limit>>
Drop == queue' = <<>> /\ UNCHANGED <<limit, result>>
Configure == limit' \in Nat /\ UNCHANGED <<queue, result>>

Next ==
    \/ \E v \in Values : Put(v)
    \/ Refuse \/ Get \/ GetNothing \/ Look \/ Drop \/ Configure

Spec == Init /\ [][Next]_vars
=============================================================================
