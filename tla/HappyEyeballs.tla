---------------------------- MODULE HappyEyeballs ---------------------------
(* Dialling a name: net/dialer/happyeyeballsv2.go. Two lookups of a call     *)
(* fill a list of addresses; one goroutine starts an attempt for each of     *)
(* them, with a pause between two; the first connection wins, and the        *)
(* others are to be closed. Lookups and attempts of all calls share the      *)
(* permits of a weighted semaphore (golang.org/x/sync).                      *)
EXTENDS Naturals, Sequences, FiniteSets, FiniteSetsExt, SequencesExt

CONSTANTS
    Calls,         \* calls of DialHappyEyeballsv2 with a name
    Cases,         \* bound: which calls are made, prefer a family, may be given up
    Answer,        \* lookup -> the addresses it yields, if it succeeds
    None,
    Weight         \* permits of the semaphore

Lookups == {"primary", "fallback"}
Addrs == UNION {ToSet(Answer[f]) : f \in Lookups}

VARIABLES
    case,      \* of Cases: [made, prefer, givenUp]; never changes
    main,      \* call -> [pc, octx, cancelled, conn]
    look,      \* call -> lookup -> its state
    rctx,      \* call -> the lookups were cancelled, or are all done
    ips,       \* call -> addresses not tried yet
    notify,    \* call -> values in the channel
    loop,      \* call -> [pc, ip] of the goroutine that starts the attempts
    attempt,   \* call -> address -> its state: "open" and "err" await the select
    conn,      \* call -> address -> "none", "open" or "closed"
    used,      \* permits taken
    queue      \* waiting for permits, in order: [call, who, n]

vars == <<case, main, look, rctx, ips, notify, loop, attempt, conn, used, queue>>

Init ==
    /\ case \in Cases
    /\ main = [c \in Calls |-> [pc |-> "idle", octx |-> FALSE, cancelled |-> FALSE, conn |-> None]]
    /\ look = [c \in Calls |-> [f \in Lookups |-> "none"]]
    /\ rctx = [c \in Calls |-> FALSE]
    /\ ips = [c \in Calls |-> <<>>]
    /\ notify = [c \in Calls |-> 0]
    /\ loop = [c \in Calls |-> [pc |-> "none", ip |-> None]]
    /\ attempt = [c \in Calls |-> [a \in Addrs |-> "none"]]
    /\ conn = [c \in Calls |-> [a \in Addrs |-> "none"]]
    /\ used = 0
    /\ queue = <<>>

(* The contexts: the caller's, the one made from it, and the resolver's.     *)
Done(c) == main[c].octx \/ main[c].cancelled
LookupDone(c) == Done(c) \/ rctx[c]

Waiting(c, who) == \E i \in DOMAIN queue : queue[i].call = c /\ queue[i].who = who
Leave(c, who) == SelectSeq(queue, LAMBDA w : w.call # c \/ w.who # who)
AtHead(c, who) == /\ queue # <<>> /\ Head(queue).call = c /\ Head(queue).who = who
                  /\ used + Head(queue).n <= Weight

-----------------------------------------------------------------------------
(* DialHappyEyeballsv2 and newHappyEyeballv2Respover: permits for the        *)
(* lookups first.                                                            *)
Dial(c) ==
    /\ main[c].pc = "idle" /\ c \in case.made
    /\ main' = [main EXCEPT ![c].pc = "acquire"]
    /\ queue' = Append(queue, [call |-> c, who |-> "resolver", n |-> IF c \in case.prefer THEN 1 ELSE 2])
    /\ UNCHANGED <<look, rctx, ips, notify, loop, attempt, conn, used>>

Begin(c) ==
    /\ main' = [main EXCEPT ![c].pc = "select"]
    /\ loop' = [loop EXCEPT ![c].pc = "wait"]

Acquired(c) ==
    /\ AtHead(c, "resolver")
    /\ used' = used + Head(queue).n
    /\ queue' = Tail(queue)
    /\ look' = [look EXCEPT ![c] =
                  [f \in Lookups |-> IF f = "primary" \/ c \notin case.prefer THEN "lookup" ELSE "none"]]
    /\ Begin(c)
    /\ UNCHANGED <<rctx, ips, notify, attempt, conn>>

AcquireFails(c) ==
    /\ Waiting(c, "resolver") /\ Done(c)
    /\ queue' = Leave(c, "resolver")
    /\ rctx' = [rctx EXCEPT ![c] = TRUE]
    /\ Begin(c)
    /\ UNCHANGED <<look, ips, notify, attempt, conn, used>>

Interleaved(a, b) ==
    LET m == Min({Len(a), Len(b)})
    IN [i \in 1..2 * m |-> IF i % 2 = 1 THEN a[(i + 1) \div 2] ELSE b[i \div 2]]
       \o SubSeq(a, m + 1, Len(a)) \o SubSeq(b, m + 1, Len(b))

(* do: the addresses, if there are any, join the list. With a preference     *)
(* one goroutine does the second lookup only when the first has failed, and  *)
(* tells nobody; otherwise each has its own, which notifies.                 *)
LookedCancelling(c, f, ok, cancels) ==
    /\ look[c][f] = "lookup"
    /\ ips' = [ips EXCEPT ![c] = IF ~ok THEN @
                                 ELSE IF f = "primary" THEN Interleaved(Answer[f], @)
                                 ELSE Interleaved(@, Answer[f])]
    /\ IF c \notin case.prefer
       THEN look' = [look EXCEPT ![c][f] = "notify"] /\ UNCHANGED <<rctx, used>>
       ELSE IF f = "primary" /\ ~ok
       THEN look' = [look EXCEPT ![c] = [primary |-> "end", fallback |-> "lookup"]]
            /\ UNCHANGED <<rctx, used>>
       ELSE /\ look' = [look EXCEPT ![c][f] = "end"]
            /\ rctx' = [rctx EXCEPT ![c] = cancels]
            /\ used' = used - 1
    /\ UNCHANGED <<main, notify, loop, attempt, conn, queue>>

LookedUncancelled(c, f, ok) == LookedCancelling(c, f, ok, ok)  \* mutant: a failure does not cancel
Looked(c, f, ok) == LookedCancelling(c, f, ok, TRUE)

(* The channel holds the values of both. The one for the fallback waits for  *)
(* the primary, or 50 ms. When both are through, the context is cancelled.   *)
Notify(c, f) ==
    /\ look[c][f] = "notify"
    /\ look' = [look EXCEPT ![c][f] = "end"]
    /\ used' = used - 1
    /\ \/ notify' = [notify EXCEPT ![c] = @ + 1]
       \/ LookupDone(c) /\ UNCHANGED notify
    /\ rctx' = [rctx EXCEPT ![c] = @ \/ \A g \in Lookups : look'[c][g] = "end"]
    /\ UNCHANGED <<main, ips, loop, attempt, conn, queue>>

-----------------------------------------------------------------------------
(* wait: the next address; without one, a notification or the end of the     *)
(* lookups, after which the list is looked at once more.                     *)
WaitTakes(c) ==
    /\ loop[c].pc = "wait" /\ ips[c] # <<>>
    /\ loop' = [loop EXCEPT ![c] = [pc |-> "acquire", ip |-> Head(ips[c])]]
    /\ ips' = [ips EXCEPT ![c] = Tail(@)]
    /\ queue' = Append(queue, [call |-> c, who |-> "attempt", n |-> 1])
    /\ UNCHANGED <<main, look, rctx, notify, attempt, conn, used>>

WaitSelects(c) ==
    /\ loop[c].pc = "wait" /\ ips[c] = <<>>
    /\ loop' = [loop EXCEPT ![c].pc = "waiting"]
    /\ UNCHANGED <<main, look, rctx, ips, notify, attempt, conn, used, queue>>

WaitNotified(c) ==
    /\ loop[c].pc = "waiting" /\ notify[c] > 0
    /\ notify' = [notify EXCEPT ![c] = @ - 1]
    /\ loop' = [loop EXCEPT ![c].pc = "wait"]
    /\ UNCHANGED <<main, look, rctx, ips, attempt, conn, used, queue>>

WaitEndsIf(c, looksAgain) ==
    /\ loop[c].pc = "waiting" /\ LookupDone(c)
    /\ loop' = [loop EXCEPT ![c].pc = IF looksAgain /\ ips[c] # <<>> THEN "wait" ELSE "wg"]
    /\ UNCHANGED <<main, look, rctx, ips, notify, attempt, conn, used, queue>>

WaitEnds(c) == WaitEndsIf(c, TRUE)

Attempt(c) ==
    /\ loop[c].pc = "acquire" /\ AtHead(c, "attempt")
    /\ used' = used + 1
    /\ queue' = Tail(queue)
    /\ attempt' = [attempt EXCEPT ![c][loop[c].ip] = "dialing"]
    /\ loop' = [loop EXCEPT ![c].pc = "delay"]
    /\ UNCHANGED <<main, look, rctx, ips, notify, conn>>

AttemptFails(c) ==
    /\ loop[c].pc = "acquire" /\ Done(c)
    /\ queue' = Leave(c, "attempt")
    /\ loop' = [loop EXCEPT ![c].pc = "wg"]
    /\ UNCHANGED <<main, look, rctx, ips, notify, attempt, conn, used>>

(* The pause ends by its timer or by a failed attempt; or all is over.       *)
Paused(c) ==
    /\ loop[c].pc = "delay"
    /\ loop' = [loop EXCEPT ![c].pc = IF Done(c) THEN "end" ELSE "wait"]
    /\ UNCHANGED <<main, look, rctx, ips, notify, attempt, conn, used, queue>>

PausedLate(c) ==
    /\ loop[c].pc = "delay" /\ Done(c)
    /\ loop' = [loop EXCEPT ![c].pc = "wait"]
    /\ UNCHANGED <<main, look, rctx, ips, notify, attempt, conn, used, queue>>

(* wg.Wait, then cancel.                                                     *)
AllAttempted(c) ==
    /\ loop[c].pc = "wg"
    /\ \A a \in Addrs : attempt[c][a] \in {"none", "end"}
    /\ main' = [main EXCEPT ![c].cancelled = TRUE]
    /\ loop' = [loop EXCEPT ![c].pc = "end"]
    /\ UNCHANGED <<look, rctx, ips, notify, attempt, conn, used, queue>>

(* An attempt: the dial, then either the result is received or it is over.   *)
Dialled(c, a, ok) ==
    /\ attempt[c][a] = "dialing"
    /\ attempt' = [attempt EXCEPT ![c][a] = IF ok THEN "open" ELSE "err"]
    /\ conn' = [conn EXCEPT ![c][a] = IF ok THEN "open" ELSE @]
    /\ UNCHANGED <<main, look, rctx, ips, notify, loop, used, queue>>

AttemptEnds(c, a) ==
    /\ attempt' = [attempt EXCEPT ![c][a] = "end"]
    /\ used' = used - 1

Received(c, a) ==
    /\ main[c].pc = "select" /\ attempt[c][a] \in {"open", "err"}
    /\ AttemptEnds(c, a)
    /\ main' = IF attempt[c][a] = "err" THEN main
               ELSE [main EXCEPT ![c] = [@ EXCEPT !.pc = "ok", !.conn = a, !.cancelled = TRUE]]
    /\ UNCHANGED <<look, rctx, ips, notify, loop, conn, queue>>

TooLateClosing(c, a, closes) ==
    /\ attempt[c][a] \in {"open", "err"} /\ Done(c)
    /\ AttemptEnds(c, a)
    /\ conn' = [conn EXCEPT ![c][a] = IF @ = "open" /\ closes THEN "closed" ELSE @]
    /\ UNCHANGED <<main, look, rctx, ips, notify, loop, queue>>

TooLateKept(c, a) == TooLateClosing(c, a, main[c].octx)  \* mutant: the losers stay open
TooLate(c, a) == TooLateClosing(c, a, TRUE)

Fails(c) ==
    /\ main[c].pc = "select" /\ Done(c)
    /\ main' = [main EXCEPT ![c] = [@ EXCEPT !.pc = "failed", !.cancelled = TRUE]]
    /\ UNCHANGED <<look, rctx, ips, notify, loop, attempt, conn, used, queue>>

ContextEnds(c) ==
    /\ main[c].pc \in {"acquire", "select"} /\ ~main[c].octx /\ c \in case.givenUp
    /\ main' = [main EXCEPT ![c].octx = TRUE]
    /\ UNCHANGED <<look, rctx, ips, notify, loop, attempt, conn, used, queue>>

-----------------------------------------------------------------------------
LookupStep(c) == \E f \in Lookups : Notify(c, f) \/ \E ok \in BOOLEAN : Looked(c, f, ok)
LoopStep(c) ==
    \/ WaitTakes(c) \/ WaitSelects(c) \/ WaitNotified(c) \/ WaitEnds(c)
    \/ Attempt(c) \/ AttemptFails(c) \/ Paused(c) \/ PausedLate(c) \/ AllAttempted(c)
AttemptStep(c, a) == Received(c, a) \/ TooLate(c, a) \/ \E ok \in BOOLEAN : Dialled(c, a, ok)
MainStep(c) == Acquired(c) \/ AcquireFails(c) \/ Fails(c)

Next ==
    /\ UNCHANGED case
    /\ \E c \in Calls :
        \/ Dial(c) \/ ContextEnds(c)
        \/ MainStep(c) \/ LookupStep(c) \/ LoopStep(c)
        \/ \E a \in Addrs : AttemptStep(c, a)

(* Lookups and dials end, at the latest by their timeouts.                   *)
SameCase(A) == A /\ UNCHANGED case
Fairness ==
    \A c \in Calls : /\ WF_vars(SameCase(MainStep(c))) /\ WF_vars(SameCase(LookupStep(c)))
                     /\ WF_vars(SameCase(LoopStep(c)))
                     /\ \A a \in Addrs : WF_vars(SameCase(AttemptStep(c, a)))

Spec == Init /\ [][Next]_vars /\ Fairness

-----------------------------------------------------------------------------
TypeOK ==
    /\ \A c \in Calls : main[c].pc \in {"idle", "acquire", "select", "ok", "failed"}
    /\ used \in 0..Weight
    /\ \A c \in Calls : notify[c] \in 0..2 /\ ToSet(ips[c]) \subseteq Addrs

(* A connection is never left to itself: once its attempt has ended it is    *)
(* closed, or it is the one the call returned; and the permits taken are     *)
(* those of the lookups and attempts under way.                              *)
NoConnLost ==
    /\ \A c \in Calls, a \in Addrs :
          attempt[c][a] = "end" /\ conn[c][a] = "open" => main[c].conn = a /\ main[c].pc = "ok"
    /\ used = Cardinality({<<c, a>> \in Calls \X Addrs : attempt[c][a] \in {"dialing", "open", "err"}})
              + Cardinality({<<c, f>> \in Calls \X Lookups : look[c][f] \in {"lookup", "notify"}})

(* A call whose context has not ended fails only when every address that     *)
(* was found has been tried in vain and no lookup is still under way.        *)
FailsOnlyIfAllFail ==
    \A c \in Calls : main[c].pc = "failed" /\ ~main[c].octx =>
        /\ ips[c] = <<>>
        /\ \A f \in Lookups : look[c][f] \in {"none", "end"}
        /\ \A a \in Addrs : attempt[c][a] \in {"none", "end"} /\ conn[c][a] = "none"

(* Every call returns, and in the end no call holds a permit, although all   *)
(* of them wait for permits of the same semaphore.                           *)
Returned == used = 0 /\ \A c \in Calls : main[c].pc \in {"idle", "ok", "failed"}
CallsReturn == <>[]Returned
=============================================================================
