----------------------------- MODULE RingBuffer -----------------------------
(***************************************************************************)
(* The growing ring buffer of pkg/utils/ringbuffer/ringbuffer.go, which    *)
(* queues packets for the NAT, the DNS server and the inbounds.  Every     *)
(* method runs under the mutex, so each is one step.  maxCap is a function *)
(* of the configuration and may change between two calls.                  *)
(***************************************************************************)
EXTENDS Naturals, Sequences

CONSTANTS
    Values,   \* what is queued
    Nil,      \* the zero value of the element type
    InitCap,  \* initial capacity
    Limits    \* the values maxCap may take

ASSUME RingBufferConstants == InitCap \in Nat \ {0} /\ Limits \subseteq Nat

VARIABLES
    ring,     \* the slots, numbered from 0
    size,     \* len(ring)
    headPos, tailPos, full,
    maxCap,   \* what maxCap() returns now
    result    \* what the last call returned

vars == <<ring, size, headPos, tailPos, full, maxCap, result>>

Answer(v) == [ok |-> TRUE, val |-> v]
Refusal == [ok |-> FALSE]

Init ==
    /\ size = InitCap /\ ring = [i \in 0..(InitCap - 1) |-> Nil]
    /\ headPos = 0 /\ tailPos = 0 /\ full = FALSE
    /\ maxCap \in Limits /\ result = Refusal

empty == ~full /\ headPos = tailPos
Length ==  \* Len
    IF full THEN size
    ELSE IF tailPos >= headPos THEN tailPos - headPos
    ELSE tailPos + size - headPos

\* an index that reaches len(ring) wraps around
Wrap(i) == IF i = size THEN 0 ELSE i

\* The slot i positions after the head.
Slot(i) == IF headPos + i >= size THEN headPos + i - size ELSE headPos + i

\* mutant: the slots are copied as they are, without turning the ring
GrowStraight(i) == IF i < size THEN ring[i] ELSE Nil
\* grow: the slots of the doubled ring
Grown(i) == IF i < size THEN ring[Slot(i)] ELSE Nil

CanGrow == size < maxCap

Push(v) ==
    /\ IF ~full
       THEN /\ ring' = [ring EXCEPT ![tailPos] = v]
            /\ tailPos' = Wrap(tailPos + 1)
            /\ full' = (tailPos' = headPos)
            /\ result' = Answer(v)
            /\ UNCHANGED <<size, headPos>>
       ELSE IF ~CanGrow
       THEN /\ result' = Refusal
            /\ UNCHANGED <<ring, size, headPos, tailPos, full>>
       ELSE /\ size' = 2 * size
            /\ ring' = [i \in 0..(2 * size - 1) |->
                          IF i = size THEN v ELSE Grown(i)]
            /\ headPos' = 0
            /\ tailPos' = IF size + 1 = 2 * size THEN 0 ELSE size + 1
            /\ full' = (tailPos' = 0)
            /\ result' = Answer(v)
    /\ UNCHANGED maxCap

Popping(slots) ==
    /\ IF empty
       THEN result' = Refusal /\ UNCHANGED <<ring, headPos, full>>
       ELSE /\ full' = FALSE
            /\ result' = Answer(ring[headPos])
            /\ ring' = slots
            /\ headPos' = Wrap(headPos + 1)
    /\ UNCHANGED <<size, tailPos, maxCap>>

Pop == Popping([ring EXCEPT ![headPos] = Nil])

Peek ==
    /\ result' = IF empty THEN Refusal ELSE Answer(ring[headPos])
    /\ UNCHANGED <<ring, size, headPos, tailPos, full, maxCap>>

Clear ==
    /\ ring' = [i \in 0..(size - 1) |-> Nil]
    /\ headPos' = 0 /\ tailPos' = 0 /\ full' = FALSE
    /\ UNCHANGED <<size, maxCap, result>>

\* the user changes the configuration
Configure ==
    /\ maxCap' \in Limits
    /\ UNCHANGED <<ring, size, headPos, tailPos, full, result>>

Next == (\E v \in Values : Push(v)) \/ Pop \/ Peek \/ Clear \/ Configure

Spec == Init /\ [][Next]_vars

-----------------------------------------------------------------------------
(* Properties. *)

contents == [i \in 1..Length |-> ring[Slot(i - 1)]]

\* Slots outside the queue are reset, so a popped packet is not kept alive.
NothingKept ==
    \A i \in 0..(size - 1) : i >= Length => ring[Slot(i)] = Nil

\* The ring buffer is a bounded first-in first-out queue, also when it grows
\* after it has wrapped around and when the limit is lowered below what it
\* already holds, and it keeps nothing that it has given out.
Fifo == INSTANCE BoundedQueue WITH queue <- contents, limit <- maxCap
IsFifo == Fifo!Spec /\ []NothingKept
=============================================================================
