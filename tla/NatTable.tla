------------------------------ MODULE NatTable ------------------------------
(***************************************************************************)
(* The table of UDP sources, pkg/net/nat/table.go, for one source address  *)
(* (keys do not interact).  Handlers look the control of their source up   *)
(* or create it, and write to it; a ticker deletes and closes controls     *)
(* that have been idle for long; Close closes all of them.                 *)
(*                                                                         *)
(* A control is reduced to what the table sees: whether its read loop runs *)
(* or for how long it has not (IsIdle), and whether it was closed.         *)
(* LoadOrCreate is one step: by module SyncMap its callers get a value     *)
(* that was in the map, and it is made once unless it is deleted while     *)
(* callers still wait for it, which takes an idle timeout here.            *)
(***************************************************************************)
EXTENDS Naturals

CONSTANTS
    Writers,     \* handlers, each writing one packet
    MaxControls  \* bound: controls ever created

Controls == 1..MaxControls

VARIABLES
    entry,    \* sourceControl: 0 or the control of this source
    closed,   \* Table.closed
    control,  \* the controls: state of the loop, whether closed, and
              \* (history) whether Close had begun when it was created
    writer,   \* per handler: control state, the control it got
    reaper,   \* the ticker goroutine: control state, the control it looks at
    owner     \* Table.Close: control state

vars == <<entry, closed, control, writer, reaper, owner>>

\* NewTable
Init ==
    /\ entry = 0 /\ closed = FALSE
    /\ control = [c \in Controls |-> [loop |-> "none", done |-> FALSE,
                                   late |-> FALSE]]
    /\ writer = [w \in Writers |-> [pc |-> "check", c |-> 0]]
    /\ reaper = [pc |-> "wait", c |-> 0] /\ owner = "open"

Used(c) == control[c].loop # "none"

-----------------------------------------------------------------------------
(* Write. *)

Check(w) ==
    /\ writer[w].pc = "check"
    /\ writer' = [writer EXCEPT ![w].pc =
                    IF closed THEN "refused" ELSE "lookup"]
    /\ UNCHANGED <<entry, closed, control, reaper, owner>>

\* LoadOrCreate
Lookup(w) ==
    /\ writer[w].pc = "lookup"
    /\ IF entry # 0 THEN UNCHANGED <<entry, control>>
       ELSE \E c \in Controls :
              /\ ~Used(c) /\ \A b \in 1..(c - 1) : Used(b)
              /\ entry' = c
              /\ control' = [control EXCEPT ![c].loop = "new",
                                            ![c].late = closed]
    /\ writer' = [writer EXCEPT ![w] = [pc |-> "write", c |-> entry']]
    /\ UNCHANGED <<closed, reaper, owner>>

\* WritePacket: refused by a closed control, or when its queue is full
WritePacket(w) ==
    /\ writer[w].pc = "write"
    /\ \E out \in {"refused"} \cup
              (IF control[writer[w].c].done THEN {} ELSE {"accepted"}) :
         writer' = [writer EXCEPT ![w].pc = out]
    /\ UNCHANGED <<entry, closed, control, reaper, owner>>

-----------------------------------------------------------------------------
(* What a control does by itself. *)

\* a socket is dialed, a loop starts; the loop ends; the control is blocked
Dials(c) ==
    /\ control[c].loop \in {"new", "stopped", "idle"}
    /\ control' = [control EXCEPT ![c].loop = "running"]
    /\ UNCHANGED <<entry, closed, writer, reaper, owner>>
Stops(c) ==
    /\ control[c].loop = "running"
    /\ control' = [control EXCEPT ![c].loop = "stopped"]
    /\ UNCHANGED <<entry, closed, writer, reaper, owner>>
\* the idle timeout passes
Ages(c) ==
    /\ control[c].loop = "stopped"
    /\ control' = [control EXCEPT ![c].loop = "idle"]
    /\ UNCHANGED <<entry, closed, writer, reaper, owner>>
Blocked(c) ==
    /\ Used(c) /\ ~control[c].done
    /\ control' = [control EXCEPT ![c].done = TRUE]
    /\ UNCHANGED <<entry, closed, writer, reaper, owner>>

-----------------------------------------------------------------------------
(* The goroutine of NewTable; its ticker stops with Close, a Range that is   *)
(* under way does not.                                                      *)

Tick ==
    /\ reaper.pc = "wait" /\ ~closed
    /\ reaper' = [reaper EXCEPT !.pc = "range"]
    /\ UNCHANGED <<entry, closed, control, writer, owner>>

\* v.IsIdle()
Idle(c) == control[c].loop = "idle"

Observing(idle) ==
    /\ reaper.pc = "range"
    /\ reaper' = IF entry \in idle THEN [pc |-> "delete", c |-> entry]
                                   ELSE [pc |-> "wait", c |-> 0]
    /\ UNCHANGED <<entry, closed, control, writer, owner>>

\* mutant: closed controls are skipped
ObserveOpen == Observing({c \in Controls : Idle(c) /\ ~control[c].done})

\* Range comes to the control, if there is one
Observe == Observing({c \in Controls : Idle(c)})

CompareAndDelete ==
    /\ reaper.pc = "delete"
    /\ IF entry = reaper.c
       THEN reaper' = [reaper EXCEPT !.pc = "close"] /\ entry' = 0
       ELSE reaper' = [pc |-> "wait", c |-> 0] /\ UNCHANGED entry
    /\ UNCHANGED <<closed, control, writer, owner>>

Discard(done) ==
    /\ reaper.pc = "close"
    /\ control' = [control EXCEPT ![reaper.c].done = done]
    /\ reaper' = [pc |-> "wait", c |-> 0]
    /\ UNCHANGED <<entry, closed, writer, owner>>

\* mutant: the deleted control is not closed
CloseIdleNever == Discard(control[reaper.c].done)

\* v.Close()
CloseIdle == Discard(TRUE)

-----------------------------------------------------------------------------
(* Table.Close: closed.Store(true), timer.Stop(), Close of every control. *)

CloseTable ==
    /\ owner = "open" /\ owner' = "range" /\ closed' = TRUE
    /\ UNCHANGED <<entry, control, writer, reaper>>

Closing(all) ==
    /\ owner = "range" /\ owner' = "end"
    /\ control' = [c \in Controls |->
                     IF c \in all THEN [control[c] EXCEPT !.done = TRUE]
                     ELSE control[c]]
    /\ UNCHANGED <<entry, closed, writer, reaper>>

CloseAll == Closing({entry} \cap Controls)

WriterStep(w) == Check(w) \/ Lookup(w) \/ WritePacket(w)
ReaperStep == Tick \/ Observe \/ CompareAndDelete \/ CloseIdle

Next ==
    \/ \E w \in Writers : WriterStep(w)
    \/ \E c \in Controls : Dials(c) \/ Stops(c) \/ Ages(c) \/ Blocked(c)
    \/ ReaperStep \/ CloseTable \/ CloseAll

Spec == Init /\ [][Next]_vars
\* The ticker keeps firing until the table is closed, and time passes.
FairSpec ==
    Spec /\ WF_vars(ReaperStep) /\ \A c \in Controls : WF_vars(Ages(c))

-----------------------------------------------------------------------------
(* Properties. *)

\* Nothing is lost from the table: an open control is in the table, or in the
\* hands of the reaper that will close it.
OpenControlsAreKnown ==
    \A c \in Controls : Used(c) /\ ~control[c].done =>
        c = entry \/ (reaper.pc = "close" /\ c = reaper.c)

\* When Close has returned, every control that existed when it began is
\* closed, also one that the reaper was taking out of the table meanwhile
\* (the reaper is not waited for, so it may be just about to close it).
CloseClosesAll ==
    owner = "end" =>
        \A c \in Controls : Used(c) /\ ~control[c].late =>
            control[c].done \/ (reaper.pc = "close" /\ c = reaper.c)

\* A control whose loop has stopped, closed or not, does not stay in the
\* table for ever, so that its source gets a new one.  (A control that was
\* blocked before its first dial never counts as stopped and does stay.)
NotIdle(c) == closed \/ entry # c \/ control[c].loop \notin {"stopped", "idle"}
IdleIsReaped == \A c \in Controls : []<>NotIdle(c)
=============================================================================
