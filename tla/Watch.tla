------------------------------- MODULE Watch --------------------------------
(***************************************************************************)
(* os.fs.watch (tools/filesystem/fs-watch.ts): one watch, which ends at    *)
(* its deadline, by abort, or by what it has seen.                         *)
(***************************************************************************)
EXTENDS Integers, Sequences, SequencesExt, Selection

CONSTANTS
    WatchCalls,  \* arguments of os.fs.watch: [events, maxEvents, stopAfterFirst]
    WatchKinds,  \* the events of chokidar
    MaxSeen      \* bound: events of one watch

ASSUME WatchAssumption ==
    /\ "error" \notin WatchKinds
    /\ \A call \in WatchCalls :
         /\ call.events \subseteq WatchKinds /\ call.stopAfterFirst \in BOOLEAN
         /\ call.maxEvents \in Nat   \* 0: a fraction below 1, which parseMaxEvents lets through

VARIABLE
    watching  \* the call: what it was asked for, what happened so far, and what it lists of it

-----------------------------------------------------------------------------

NoWatch == [at |-> "idle"]

\* deaf: the signal was aborted before the listener was added, which is then never called.
CallWatch(call, deaf) ==
    /\ watching = NoWatch
    /\ watching' = [at |-> "watching", call |-> call, deaf |-> deaf, armed |-> TRUE, timedOut |-> FALSE,
                    collected |-> <<>>, happened |-> <<>>, settled |-> 0, stopped |-> "no"]

\* cleanup: the deadline is cleared, and the promise resolved, once.
Cleanup(w, why) ==
    IF w.at = "watching"
    THEN [w EXCEPT !.armed = FALSE, !.at = "closing", !.settled = Len(w.happened), !.stopped = why]
    ELSE [w EXCEPT !.armed = FALSE]

\* Fault: after an event that was not asked for as well.
StopsHasty(w, kind) == w.call.stopAfterFirst \/ Len(w.collected) >= w.call.maxEvents

Stops(w, kind) ==
    kind \in w.call.events /\ (w.call.stopAfterFirst \/ Len(w.collected) >= w.call.maxEvents)

\* chokidar calls back until it is closed, and also between the end and the close.
WatcherReports(kind) ==
    /\ watching.at \in {"watching", "closing"} /\ Len(watching.happened) < MaxSeen
    /\ LET w == [watching EXCEPT !.happened = Append(@, kind),
                                 !.collected = IF kind \in watching.call.events THEN Append(@, kind) ELSE @]
       IN watching' = IF Stops(w, kind) THEN Cleanup(w, "events") ELSE w

\* An error is listed as an event, whatever events were asked for.
WatcherFails ==
    /\ watching.at \in {"watching", "closing"} /\ Len(watching.happened) < MaxSeen
    /\ watching' = Cleanup([watching EXCEPT !.happened = Append(@, "error"),
                                            !.collected = Append(@, "error")], "error")

Deadline ==
    /\ watching.at = "watching" /\ watching.armed
    /\ watching' = [watching EXCEPT !.timedOut = TRUE, !.armed = FALSE, !.at = "closing",
                                    !.settled = Len(watching.happened), !.stopped = "deadline"]

AbortWatch ==
    /\ watching.at = "watching" /\ ~watching.deaf
    /\ watching' = Cleanup(watching, "abort")

\* closeWatcher, whose errors are swallowed; then the result.
WatchCloses ==
    /\ watching.at = "closing"
    /\ watching' = [watching EXCEPT !.at = "done"]

WatchInit == watching = NoWatch

WatchNext ==
    \/ \E call \in WatchCalls, deaf \in BOOLEAN : CallWatch(call, deaf)
    \/ \E kind \in WatchKinds : WatcherReports(kind)
    \/ WatcherFails \/ Deadline \/ AbortWatch \/ WatchCloses

WatchSpec == WatchInit /\ [][WatchNext]_watching

-----------------------------------------------------------------------------
(* Properties.                                                             *)

\* A watch lists, in order, what it was asked for and what happened before it ended,
\* and perhaps some of what happened until it was closed.  It ends for the reason that
\* can be told from the result, and timedOut means that nothing else would have; while it
\* has not ended, its deadline is armed.
WatchTells ==
    /\ watching.at = "watching" => watching.armed
    /\ watching.at \in {"closing", "done"} =>
           LET listed == watching.call.events \cup {"error"}
               asked == Kept(watching.happened, listed)
               before == Kept(SubSeq(watching.happened, 1, watching.settled), listed)
               enough == before # <<>> /\ (watching.call.stopAfterFirst \/ Len(before) >= watching.call.maxEvents)
           IN /\ IsPrefix(before, watching.collected) /\ IsPrefix(watching.collected, asked)
              /\ watching.timedOut => ~enough /\ "error" \notin ToSet(before)
              /\ ~watching.timedOut => enough \/ "error" \in ToSet(before) \/ (watching.stopped = "abort" /\ ~watching.deaf)
=============================================================================
