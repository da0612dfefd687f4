------------------------------- MODULE SetDo --------------------------------
(***************************************************************************)
(* Dialing through a set of nodes: setDo and loop of pkg/node/set.go.      *)
(*                                                                         *)
(* The nodes are tried one after the other, the one that worked last       *)
(* first; a node gets a second before the next one is tried as well.  The  *)
(* first connection wins.  Here one call of setDo: the caller, the         *)
(* goroutine of the loop, and a goroutine for every dial.                  *)
(***************************************************************************)
EXTENDS Naturals, FiniteSets

CONSTANTS Nodes, None

VARIABLES
    lastID,   \* the node that worked last, or None
    storeIndex, \* TRUE for Conn, FALSE for PacketConn
    parent,   \* whether the caller's own context has ended
    ctx,      \* whether the call's context has ended
    caller,   \* "wait", then a node whose connection it got, or "error"
    loop,     \* [pc, left, first]: the nodes not tried yet; the cached index
    task      \* node -> state of its dial

vars == <<lastID, storeIndex, parent, ctx, caller, loop, task>>

Init ==
    /\ lastID \in Nodes \cup {None} /\ storeIndex \in BOOLEAN
    /\ parent = FALSE /\ ctx = FALSE /\ caller = "wait"
    /\ loop = [pc |-> "next", left |-> Nodes, first |-> lastID]
    /\ task = [n \in Nodes |-> "none"]

Become(n, from, to) == task[n] = from /\ task' = [task EXCEPT ![n] = to]

-----------------------------------------------------------------------------
(* The loop *)

\* the cached index first, then the others in any order
Turn(n) == n \in loop.left /\ (loop.first \in loop.left => n = loop.first)

NoDialer(n) ==
    /\ loop.pc = "next" /\ Turn(n)
    /\ loop' = [loop EXCEPT !.left = @ \ {n}]
    /\ Become(n, "none", "failed")
    /\ UNCHANGED <<lastID, storeIndex, parent, ctx, caller>>
Try(n) ==
    /\ loop.pc = "next" /\ Turn(n)
    /\ loop' = [loop EXCEPT !.left = @ \ {n}, !.pc = "timer"]
    /\ Become(n, "none", "dialing")
    /\ UNCHANGED <<lastID, storeIndex, parent, ctx, caller>>

\* the second is over, or failBoost
Timer ==
    /\ loop.pc = "timer" /\ loop' = [loop EXCEPT !.pc = "next"]
    /\ UNCHANGED <<lastID, storeIndex, parent, ctx, caller, task>>
LoopDone ==
    /\ loop.pc = "timer" /\ ctx /\ loop' = [loop EXCEPT !.pc = "done"]
    /\ UNCHANGED <<lastID, storeIndex, parent, ctx, caller, task>>

Cancelling(finished, cancelled) ==
    /\ loop.pc = "next" /\ loop.left = {} /\ finished
    /\ loop' = [loop EXCEPT !.pc = "done"] /\ ctx' = cancelled
    /\ UNCHANGED <<lastID, storeIndex, parent, caller, task>>

\* the goroutines of the dials have ended
Finished == \A n \in Nodes : task[n] \notin {"dialing", "offer", "won"}

\* wg.Wait and cancel
Cancel == Cancelling(Finished, TRUE)

-----------------------------------------------------------------------------
(* A dial; one that is under way when the context ends fails or succeeds.   *)

Dialed(n) ==
    /\ Become(n, "dialing", "offer")
    /\ UNCHANGED <<lastID, storeIndex, parent, ctx, caller, loop>>
Fail(n) ==
    /\ Become(n, "dialing", "failed")
    /\ UNCHANGED <<lastID, storeIndex, parent, ctx, caller, loop>>

\* the connection is received by the caller, which returns it
Deliver(n) ==
    /\ caller = "wait" /\ Become(n, "offer", "won")
    /\ caller' = n
    /\ UNCHANGED <<lastID, storeIndex, parent, ctx, loop>>
StoreIndex(n) ==
    /\ Become(n, "won", "returned")
    /\ lastID' = IF storeIndex THEN n ELSE lastID
    /\ UNCHANGED <<storeIndex, parent, ctx, caller, loop>>

\* mutant: a connection that comes too late is dropped
Drop(n) ==
    /\ ctx /\ Become(n, "offer", "dropped")
    /\ UNCHANGED <<lastID, storeIndex, parent, ctx, caller, loop>>

CloseLate(n) ==
    /\ ctx /\ Become(n, "offer", "closed")
    /\ UNCHANGED <<lastID, storeIndex, parent, ctx, caller, loop>>

-----------------------------------------------------------------------------
(* The caller *)

ParentEnds ==
    /\ ~ parent /\ parent' = TRUE /\ ctx' = TRUE
    /\ UNCHANGED <<lastID, storeIndex, caller, loop, task>>
Error ==
    /\ caller = "wait" /\ ctx /\ caller' = "error"
    /\ UNCHANGED <<lastID, storeIndex, parent, ctx, loop, task>>
\* the deferred cancel
Return ==
    /\ caller # "wait" /\ ~ ctx /\ ctx' = TRUE
    /\ UNCHANGED <<lastID, storeIndex, parent, caller, loop, task>>

Over == caller # "wait" /\ loop.pc = "done" /\ Finished

Next ==
    \/ \E n \in Nodes :
         \/ NoDialer(n) \/ Try(n) \/ Dialed(n) \/ Fail(n)
         \/ Deliver(n) \/ StoreIndex(n) \/ CloseLate(n)
    \/ Timer \/ LoopDone \/ Cancel \/ ParentEnds \/ Error \/ Return

Spec == Init /\ [][Next]_vars

\* Goroutines run, the timer fires and every dial ends; the caller's context
\* need not.
LoopStep == Timer \/ LoopDone \/ Cancel \/ \E n \in Nodes : NoDialer(n) \/ Try(n)
CallerStep == Error \/ Return
DialStep(n) == Dialed(n) \/ Fail(n) \/ Deliver(n) \/ StoreIndex(n) \/ CloseLate(n)
FairSpec ==
    /\ Spec
    /\ WF_vars(LoopStep) /\ WF_vars(CallerStep)
    /\ \A n \in Nodes : WF_vars(DialStep(n))

-----------------------------------------------------------------------------
(* Properties. *)

\* Once everything is over, every connection that was made was given to the
\* caller or closed, although dials end in any order and after the caller has
\* returned.
NoConnLost ==
    Over => \A n \in Nodes :
              task[n] \in {"none", "failed", "closed"} \/ caller = n

\* A caller whose own context has not ended gets an error only when every node
\* was tried and has failed.
FailsOnlyIfAllFail ==
    caller = "error" /\ ~ parent => \A n \in Nodes : task[n] = "failed"

\* The call returns and its goroutines end, also when no node works.
Ended == Over /\ ctx
CallEnds == <>[]Ended
=============================================================================
