-------------------------------- MODULE Pipe --------------------------------
(* One direction of net/pipe/pipe.go, the synchronous connection between the *)
(* goroutines of the program: several writers at one end, several readers at *)
(* the other, deadlines that are moved while they wait, and both ends being  *)
(* closed. The other direction is the same with the ends exchanged.          *)
EXTENDS Naturals, Sequences

CONSTANTS
    Readers, Writers,   \* calls of Read and of Write
    None,
    Length,             \* bytes of a Write
    Sizes,              \* room of a Read
    MaxSets             \* bound: calls that set a deadline

Deadlines == {"read", "write"}

VARIABLES
    done,        \* the ends, "r" and "w", that are closed
    writeDone,   \* localWriteDone of the writing end
    deadline,    \* PipeDeadline: [closed, timer]: whether its channel is closed
    setter,      \* the calls that set a deadline, one at a time: [pc, d, to, calls]
    reader,      \* call -> [pc, chan, n, room]; chan: the channel it waits on is the
    writer,      \* call -> [pc, chan, n]        current one, or replaced when closed, open
    wrMu,        \* the writer that holds it, or None
    got          \* history: the bytes read, as <<writer, position>>

vars == <<done, writeDone, deadline, setter, reader, writer, wrMu, got>>

Ended == [pc |-> "end", chan |-> "current", n |-> 0, room |-> 0]

Init ==
    /\ done = {} /\ writeDone = FALSE
    /\ deadline = [d \in Deadlines |-> [closed |-> FALSE, timer |-> "nil"]]
    /\ setter = [pc |-> "idle", d |-> "read", to |-> "zero", calls |-> 0]
    /\ reader = [r \in Readers |-> [Ended EXCEPT !.pc = "idle"]]
    /\ writer = [w \in Writers |-> [pc |-> "idle", chan |-> "current", n |-> 0]]
    /\ wrMu = None
    /\ got = <<>>

ends == <<done, writeDone>>
Exceeded(d, chan) == chan = "closed" \/ (chan = "current" /\ deadline[d].closed)
Free(d) == ~(setter.pc = "wait" /\ d = setter.d)   \* d.mu

-----------------------------------------------------------------------------
(* read: it looks at the channels in turn, then waits for any of them, with  *)
(* the channel that the deadline has at this moment.                         *)
Read(r, room) ==
    /\ reader[r].pc = "idle" /\ Free("read")
    /\ reader' = [reader EXCEPT ![r] =
          IF done # {} \/ writeDone \/ deadline["read"].closed
          THEN Ended
          ELSE [pc |-> "select", chan |-> "current", n |-> 0, room |-> room]]
    /\ UNCHANGED <<ends, deadline, setter, writer, wrMu, got>>

ReadEnds(r) ==
    /\ reader[r].pc = "select"
    /\ done # {} \/ writeDone \/ Exceeded("read", reader[r].chan)
    /\ reader' = [reader EXCEPT ![r] = Ended]
    /\ UNCHANGED <<ends, deadline, setter, writer, wrMu, got>>

(* write: the same, and the mutex before the wait.                           *)
Write(w) ==
    /\ writer[w].pc = "idle" /\ Free("write")
    /\ writer' = [writer EXCEPT ![w].pc =
          IF done # {} \/ writeDone \/ deadline["write"].closed THEN "end" ELSE "lock"]
    /\ UNCHANGED <<ends, deadline, setter, reader, wrMu, got>>

LockWhen(w, free) ==
    /\ writer[w].pc = "lock" /\ free /\ Free("write")
    /\ wrMu' = w
    /\ writer' = [writer EXCEPT ![w].pc = "select", ![w].chan = "current"]
    /\ UNCHANGED <<ends, deadline, setter, reader, got>>

LockNever(w) == LockWhen(w, TRUE)  \* mutant: writes are not serialised
Lock(w) == LockWhen(w, wrMu = None)

WriteEndsOn(w, closed) ==
    /\ writer[w].pc = "select"
    /\ closed # {} \/ writeDone \/ Exceeded("write", writer[w].chan)
    /\ writer' = [writer EXCEPT ![w].pc = "end", ![w].chan = "current"]
    /\ wrMu' = None
    /\ UNCHANGED <<ends, deadline, setter, reader, got>>

WriteEndsLocal(w) == WriteEndsOn(w, done \ {"r"})  \* mutant: no case for remoteDone
WriteEnds(w) == WriteEndsOn(w, done)

(* wrTx <- b meets <-rdRx: the reader copies what it has room for; rdTx <- n *)
(* meets <-wrRx: the writer goes on with the rest, or returns.               *)
Handover(r, w) ==
    /\ reader[r].pc = "select" /\ writer[w].pc = "select"
    /\ LET rest == Length - writer[w].n
           n == IF reader[r].room < rest THEN reader[r].room ELSE rest
       IN /\ got' = got \o [i \in 1..n |-> <<w, writer[w].n + i>>]
          /\ reader' = [reader EXCEPT ![r].pc = "ack", ![r].n = n]
    /\ writer' = [writer EXCEPT ![w].pc = "ack"]
    /\ UNCHANGED <<ends, deadline, setter, wrMu>>

Acknowledged(r, w) ==
    /\ reader[r].pc = "ack" /\ writer[w].pc = "ack"
    /\ LET n == writer[w].n + reader[r].n
       IN /\ n < Length => Free("write")
          /\ writer' = [writer EXCEPT ![w] =
                [pc |-> IF n < Length THEN "select" ELSE "end",
                 chan |-> "current", n |-> n]]
          /\ wrMu' = IF n < Length THEN wrMu ELSE None
    /\ reader' = [reader EXCEPT ![r] = Ended]
    /\ UNCHANGED <<ends, deadline, setter, got>>

-----------------------------------------------------------------------------
(* Set: no deadline, one in the future or one that has passed. A new channel *)
(* takes the place of a closed one; what waits on an open one stays there.   *)
SetReplacing(d, to, replaced) ==
    LET Kept(x) == IF replaced /\ to # "past" /\ x.chan = "current"
                   THEN [x EXCEPT !.chan = IF deadline[d].closed THEN "closed" ELSE "open"] ELSE x
    IN /\ deadline' = [deadline EXCEPT ![d] =
              [closed |-> to = "past" \/ (deadline[d].closed /\ ~replaced),
               timer |-> IF to = "future" THEN "armed" ELSE "nil"]]
       /\ reader' = IF d = "read" THEN [r \in Readers |-> Kept(reader[r])] ELSE reader
       /\ writer' = IF d = "write" THEN [w \in Writers |-> Kept(writer[w])] ELSE writer

SetAlwaysNew(d, to) == SetReplacing(d, to, TRUE)  \* mutant: a new channel every time
Set(d, to) == SetReplacing(d, to, deadline[d].closed)

(* SetReadDeadline, SetWriteDeadline; and SetDeadline, which is both, each   *)
(* for another direction, and does not look at writeDone.                    *)
SetDeadline(d, to, both) ==
    /\ setter.pc = "idle" /\ setter.calls < MaxSets
    /\ done = {} /\ (writeDone => both)
    /\ setter' = [pc |-> "set", d |-> d, to |-> to, calls |-> setter.calls + 1]
    /\ UNCHANGED <<ends, deadline, reader, writer, wrMu, got>>

(* A timer that can no longer be stopped is waited for, with the mutex held. *)
SetWaits ==
    /\ setter.pc = "set" /\ deadline[setter.d].timer = "firing"
    /\ setter' = [setter EXCEPT !.pc = "wait"]
    /\ UNCHANGED <<ends, deadline, reader, writer, wrMu, got>>

SetEnds ==
    /\ setter.pc \in {"set", "wait"} /\ deadline[setter.d].timer # "firing"
    /\ Set(setter.d, setter.to)
    /\ setter' = [setter EXCEPT !.pc = "idle", !.d = "read", !.to = "zero"]
    /\ UNCHANGED <<ends, wrMu, got>>

(* The timer: once it has fired it closes the channel the deadline has then. *)
Fire(d) ==
    /\ deadline[d].timer = "armed"
    /\ deadline' = [deadline EXCEPT ![d].timer = "firing"]
    /\ UNCHANGED <<ends, setter, reader, writer, wrMu, got>>

Expire(d) ==
    /\ deadline[d].timer = "firing"
    /\ deadline' = [deadline EXCEPT ![d] = [closed |-> TRUE, timer |-> "fired"]]
    /\ UNCHANGED <<ends, setter, reader, writer, wrMu, got>>

(* Close of an end; CloseWrite of the writing one.                           *)
Close(e) ==
    /\ e \notin done
    /\ done' = done \cup {e}
    /\ writeDone' = (writeDone \/ e = "w")
    /\ UNCHANGED <<deadline, setter, reader, writer, wrMu, got>>

CloseWrite ==
    /\ ~writeDone
    /\ writeDone' = TRUE
    /\ UNCHANGED <<done, deadline, setter, reader, writer, wrMu, got>>

ReaderStep(r) == ReadEnds(r) \/ \E w \in Writers : Handover(r, w) \/ Acknowledged(r, w)
WriterStep(w) == Lock(w) \/ WriteEnds(w)

Next ==
    \/ \E r \in Readers : ReaderStep(r) \/ \E room \in Sizes : Read(r, room)
    \/ \E w \in Writers : Write(w) \/ WriterStep(w)
    \/ \E d \in Deadlines, to \in {"zero", "future", "past"}, both \in BOOLEAN :
          SetDeadline(d, to, both)
    \/ SetWaits \/ SetEnds
    \/ \E d \in Deadlines : Fire(d) \/ Expire(d)
    \/ \E e \in {"r", "w"} : Close(e)
    \/ CloseWrite

SetterStep == SetWaits \/ SetEnds

(* The goroutines run; a timer goes off and its callback runs.               *)
Fairness ==
    /\ \A r \in Readers : WF_vars(ReaderStep(r))
    /\ \A w \in Writers : WF_vars(WriterStep(w))
    /\ WF_vars(SetterStep)
    /\ \A d \in Deadlines : WF_vars(Fire(d)) /\ WF_vars(Expire(d))

Spec == Init /\ [][Next]_vars /\ Fairness

-----------------------------------------------------------------------------
TypeOK ==
    /\ done \subseteq {"r", "w"} /\ writeDone \in BOOLEAN
    /\ \A d \in Deadlines : deadline[d].timer \in {"nil", "armed", "firing", "fired"}
    /\ \A r \in Readers : reader[r].pc \in {"idle", "select", "ack", "end"}
    /\ \A w \in Writers : writer[w].pc \in {"idle", "lock", "select", "ack", "end"}
    /\ wrMu \in Writers \cup {None}

(* The bytes of a Write that were read, as positions.                        *)
Taken(w) == {got[i][2] : i \in {j \in DOMAIN got : got[j][1] = w}}

(* What the readers got is what was written, each byte once, and a Write     *)
(* returns the number of its bytes that were read: "Ensure entirety of b     *)
(* is written together" (pipe.go:235), the next one when it has returned,    *)
(* whatever was closed or timed out in between.                              *)
WrittenTogether ==
    LET Pending(w) == IF writer[w].pc = "ack"
                      THEN reader[CHOOSE r \in Readers : reader[r].pc = "ack"].n ELSE 0
    IN /\ \A w \in Writers : Taken(w) = 1..(writer[w].n + Pending(w))
       /\ \A i, j \in DOMAIN got : got[i] = got[j] => i = j
       /\ \A i \in 2..Len(got) :
            \/ got[i] = <<got[i - 1][1], got[i - 1][2] + 1>>
            \/ got[i][2] = 1 /\ writer[got[i - 1][1]].pc = "end"

(* A deadline is never missed: whoever waits does so on the channel that the *)
(* deadline has now, or on one that is closed (pipe.go:55).                  *)
DeadlineReaches ==
    /\ \A r \in Readers : reader[r].pc = "select" => reader[r].chan # "open"
    /\ \A w \in Writers : writer[w].pc = "select" => writer[w].chan # "open"

(* When an end is closed, every Read, Write and SetDeadline returns.         *)
AllEnded ==
    done # {} => /\ \A r \in Readers : reader[r].pc \in {"idle", "end"}
                 /\ \A w \in Writers : writer[w].pc \in {"idle", "end"}
                 /\ setter.pc = "idle"
CloseEndsCalls == <>[]AllEnded
=============================================================================
