------------------------------- MODULE Traces -------------------------------
(***************************************************************************)
(* The session trace of packages/traces/trace: the recorder that turns the *)
(* agent loop's events into numbered trace events (trace-recorder.ts), the *)
(* bus (trace-bus.ts) and the sink that appends them to the session's file *)
(* up to a cap (trace-sink.ts).  All three are synchronous: an event is    *)
(* delivered before the next one is recorded.  The file outlives the       *)
(* process; the recorder's counters and the sink's accounts do not, and a  *)
(* restarted process goes on with the file of an existing session.         *)
(*                                                                         *)
(* The agent loop is not in the repository.  Its events come in the order  *)
(* the types and the tests of the recorder show; the calls of a batch are  *)
(* parsed and executed in any order.                                       *)
(***************************************************************************)
EXTENDS Integers, Sequences

CONSTANTS
    Messages,      \* what users say
    BatchIndices,  \* the places of a batch of tool calls
    Sizes,         \* the bytes of a serialised event
    MarkerSize,    \* the bytes of the trace_truncated marker
    Cap,           \* maxBytesPerSession
    Null,          \* null and undefined
    MaxSeq, MaxTurns, MaxSteps,  \* bounds by process: events, turns, steps of a turn
    MaxBoots, MaxFaults          \* bounds: processes, failures of a call the trace makes

ASSUME TracesAssumption ==
    /\ BatchIndices \subseteq Nat /\ Sizes \subseteq Nat \ {0}
    /\ {MarkerSize, Cap, MaxSeq, MaxTurns, MaxSteps, MaxBoots, MaxFaults} \subseteq Nat
    /\ Null \notin Nat /\ Null \notin Messages /\ Null \notin BOOLEAN

VARIABLES
    loop,      \* the agent loop: where it is, and the calls of its step
    recorder,  \* the closure of createTraceRecorder
    last,      \* the event pushed last, of which only turns and tools keep their contents
    sink,      \* the closure of createNdjsonTraceSink
    file,      \* the lines of the session's file
    bytes,     \* its size
    skipped,   \* the sequence numbers of this process the sink passed over
    boot,      \* which process this is
    faults     \* how often a file system call or a serialisation failed

vars == <<loop, recorder, last, sink, file, bytes, skipped, boot, faults>>

Other == [type |-> "other"]

NewLoop == [at |-> "new", turn |-> 0, step |-> 0, said |-> Null, parsed |-> {}, done |-> {}]
NewRecorder == [seq |-> 0, turn |-> 0, step |-> Null, message |-> Null,
                calls |-> [b \in BatchIndices |-> Null]]

\* dir: dirInitialized.  bytes and overflown: the state of the session, Null before
\* its first event.
NewSink == [dir |-> FALSE, bytes |-> Null, overflown |-> Null]

Init ==
    /\ loop = NewLoop /\ recorder = NewRecorder /\ last = Other
    /\ sink = NewSink /\ file = <<>> /\ bytes = 0 /\ skipped = {}
    /\ boot = 1 /\ faults = 0

-----------------------------------------------------------------------------
(* createNdjsonTraceSink, called by the bus with event number n.           *)

\* Fault: the size of a file that is there already is not asked for.
ResolveStateFresh == IF sink.bytes # Null THEN sink
                     ELSE [dir |-> TRUE, bytes |-> 0, overflown |-> FALSE]

\* resolveState: the first event of a session looks at its file's size.
ResolveState == IF sink.bytes # Null THEN sink
                ELSE [dir |-> TRUE, bytes |-> bytes, overflown |-> bytes >= Cap]

AppendLine(n, size, marker) ==
    /\ file' = Append(file, [boot |-> boot, seq |-> n, marker |-> marker])
    /\ bytes' = bytes + size

Fault == faults < MaxFaults /\ faults' = faults + 1

\* mkdir fails: no state is made, the next event tries again.
DirFails(n) ==
    /\ ~sink.dir /\ Fault
    /\ skipped' = skipped \cup {n}
    /\ UNCHANGED <<sink, file, bytes>>

Ignore ==
    /\ ResolveState.overflown
    /\ sink' = ResolveState
    /\ UNCHANGED <<file, bytes, skipped, faults>>

\* JSON.stringify throws, outside of any try of the sink: the bus swallows it.
SerializeFails(n) ==
    /\ ~ResolveState.overflown /\ Fault
    /\ sink' = ResolveState
    /\ skipped' = skipped \cup {n}
    /\ UNCHANGED <<file, bytes>>

Truncate(n, size) ==
    /\ ~ResolveState.overflown
    /\ ResolveState.bytes + size > Cap
    /\ sink' = [ResolveState EXCEPT !.overflown = TRUE]
    /\ \/ AppendLine(n + 1, MarkerSize, TRUE) /\ UNCHANGED faults
       \/ Fault /\ UNCHANGED <<file, bytes>>
    /\ UNCHANGED skipped

\* Fault: after a failed write the sink tries again with the next event.
WriteRetrying(n, size) ==
    /\ ~ResolveState.overflown
    /\ ResolveState.bytes + size <= Cap
    /\ \/ /\ AppendLine(n, size, FALSE)
          /\ sink' = [ResolveState EXCEPT !.bytes = @ + size]
          /\ UNCHANGED faults
       \/ Fault /\ sink' = ResolveState /\ UNCHANGED <<file, bytes>>
    /\ UNCHANGED skipped

Write(n, size) ==
    /\ ~ResolveState.overflown
    /\ ResolveState.bytes + size <= Cap
    /\ \/ /\ AppendLine(n, size, FALSE)
          /\ sink' = [ResolveState EXCEPT !.bytes = @ + size]
          /\ UNCHANGED faults
       \/ /\ Fault
          /\ sink' = [ResolveState EXCEPT !.overflown = TRUE]
          /\ UNCHANGED <<file, bytes>>
    /\ UNCHANGED skipped

Deliver(n) ==
    \/ DirFails(n) \/ Ignore \/ SerializeFails(n)
    \/ \E size \in Sizes : Truncate(n, size) \/ Write(n, size)

-----------------------------------------------------------------------------
(* createTraceRecorder: push of an event, from the state rec leaves behind. *)

Push(rec, contents) ==
    /\ recorder.seq < MaxSeq
    /\ recorder' = [rec EXCEPT !.seq = @ + 1]
    /\ last' = contents
    /\ Deliver(recorder.seq)
    /\ UNCHANGED boot

BeginSession ==
    /\ loop.at = "new"
    /\ loop' = [loop EXCEPT !.at = "idle"]
    /\ Push(recorder, Other)

UserMessage(text) ==
    /\ loop.at = "idle"
    /\ loop' = [loop EXCEPT !.said = text]
    /\ recorder' = [recorder EXCEPT !.message = text]
    /\ last' = Other
    /\ UNCHANGED <<sink, file, bytes, skipped, boot, faults>>

\* Fault: the message stays for the turn after.
TurnStartedKeeping ==
    /\ loop.at = "idle" /\ loop.turn < MaxTurns
    /\ loop' = [loop EXCEPT !.at = "turn", !.turn = @ + 1, !.step = 0, !.said = Null]
    /\ Push([recorder EXCEPT !.turn = loop.turn + 1],
            [type |-> "turn_started", turn |-> loop.turn + 1,
             message |-> recorder.message, said |-> loop.said])

TurnStarted ==
    /\ loop.at = "idle" /\ loop.turn < MaxTurns
    /\ loop' = [loop EXCEPT !.at = "turn", !.turn = @ + 1, !.step = 0, !.said = Null]
    /\ Push([recorder EXCEPT !.turn = loop.turn + 1, !.message = Null],
            [type |-> "turn_started", turn |-> loop.turn + 1,
             message |-> recorder.message, said |-> loop.said])

TurnFinished ==
    /\ loop.at = "turn"
    /\ loop' = [loop EXCEPT !.at = "idle"]
    /\ Push(recorder, Other)

StepStarted ==
    /\ loop.at = "turn" /\ loop.step < MaxSteps
    /\ loop' = [loop EXCEPT !.at = "step", !.step = @ + 1, !.parsed = {}, !.done = {}]
    /\ Push([recorder EXCEPT !.step = loop.step + 1, !.calls = NewRecorder.calls], Other)

\* prompt_captured, llm_raw_completion, parse_retry, step_error: nothing outside a step.
StepEvent ==
    /\ loop.at = "step" /\ recorder.step # Null
    /\ Push(recorder, Other)
    /\ UNCHANGED loop

\* A call is known by its place: the turn, the step and the batch index.
CallAt(b) == [turn |-> loop.turn, step |-> loop.step, batchIndex |-> b]

\* Fault: one pending call, whatever its batch index.
ToolCallParsedSolo(b) ==
    /\ loop.at = "step" /\ recorder.step # Null /\ b \notin loop.parsed
    /\ loop' = [loop EXCEPT !.parsed = @ \cup {b}]
    /\ recorder' = [recorder EXCEPT !.calls = [k \in BatchIndices |-> CallAt(b)]]
    /\ last' = Other
    /\ UNCHANGED <<sink, file, bytes, skipped, boot, faults>>

ToolCallParsed(b) ==
    /\ loop.at = "step" /\ recorder.step # Null /\ b \notin loop.parsed
    /\ loop' = [loop EXCEPT !.parsed = @ \cup {b}]
    /\ recorder' = [recorder EXCEPT !.calls[b] = CallAt(b)]
    /\ last' = Other
    /\ UNCHANGED <<sink, file, bytes, skipped, boot, faults>>

ToolCallExecuted(b) ==
    /\ loop.at = "step" /\ recorder.step # Null /\ b \in loop.parsed \ loop.done
    /\ loop' = [loop EXCEPT !.done = @ \cup {b}]
    /\ Push([recorder EXCEPT !.calls[b] = Null],
            [type |-> "tool_invocation", turn |-> recorder.turn, step |-> recorder.step,
             args |-> recorder.calls[b], of |-> CallAt(b)])

\* A step ends when its calls are executed.
StepFinished ==
    /\ loop.at = "step" /\ loop.parsed = loop.done
    /\ loop' = [loop EXCEPT !.at = "turn"]
    /\ Push([recorder EXCEPT !.step = Null, !.calls = NewRecorder.calls], Other)

LoopDetected ==
    /\ loop.at = "step"
    /\ Push(recorder, Other)
    /\ UNCHANGED loop

\* The loop gives up, in a step or between two: no step_finished, no turn_finished.
LoopFailed ==
    /\ loop.at \in {"turn", "step"}
    /\ loop' = [loop EXCEPT !.at = "idle"]
    /\ Push(recorder, Other)

\* The sub-calls of the memory, recorded whenever they return: votes, reflection,
\* link generator, query rewriter.
RecordSubCall ==
    /\ loop.at # "new"
    /\ Push(recorder, Other)
    /\ UNCHANGED loop

\* The process dies; the next one continues the session's file.
Restart ==
    /\ boot < MaxBoots
    /\ boot' = boot + 1
    /\ loop' = NewLoop /\ recorder' = NewRecorder /\ last' = Other
    /\ sink' = NewSink /\ skipped' = {}
    /\ UNCHANGED <<file, bytes, faults>>

Next ==
    \/ BeginSession \/ TurnStarted \/ TurnFinished
    \/ \E text \in Messages : UserMessage(text)
    \/ StepStarted \/ StepEvent \/ StepFinished
    \/ \E b \in BatchIndices : ToolCallParsed(b) \/ ToolCallExecuted(b)
    \/ LoopDetected \/ LoopFailed \/ RecordSubCall
    \/ Restart

Spec == Init /\ [][Next]_vars

-----------------------------------------------------------------------------
(* Properties.                                                             *)

Call == [turn : Nat, step : Nat, batchIndex : BatchIndices]

Turn == [type : {"turn_started"}, turn : Nat, message : Messages \cup {Null}, said : Messages \cup {Null}]
Tool == [type : {"tool_invocation"}, turn : Nat, step : Nat,
         args : Call \cup {Null}, of : Call]

\* Every variable has its type.
TypeOK ==
    /\ loop \in [at : {"new", "idle", "turn", "step"}, turn : Nat, step : Nat,
                 said : Messages \cup {Null}, parsed : SUBSET BatchIndices, done : SUBSET BatchIndices]
    /\ recorder \in [seq : Nat, turn : Nat, step : Nat \cup {Null}, message : Messages \cup {Null},
                     calls : [BatchIndices -> Call \cup {Null}]]
    /\ last \in Turn \cup Tool \cup {Other}
    /\ sink \in [dir : BOOLEAN, bytes : Nat \cup {Null}, overflown : BOOLEAN \cup {Null}]
    /\ file \in Seq([boot : Nat, seq : Nat, marker : BOOLEAN])
    /\ bytes \in Nat /\ skipped \in SUBSET Nat /\ boot \in Nat /\ faults \in Nat

\* A tool_invocation carries the arguments of its own call and the place of its
\* own step, in whatever order the calls of a batch are parsed and executed, and
\* whatever an abandoned step before has left behind.
CallsArePaired ==
    last.type = "tool_invocation" =>
        last.args = last.of /\ last.of.turn = last.turn /\ last.of.step = last.step

\* A turn carries the last thing said since the turn before started, and nothing
\* that an earlier turn has carried.
MessagesBelong == last.type = "turn_started" => last.message = last.said

\* What a process has written is what its recorder emitted, in order: an event is
\* in the file, or was passed over, or came when the sink had stopped for good,
\* with nothing of this process after the marker.
Own == {i \in DOMAIN file : file[i].boot = boot}
Accounted(n) == n \in skipped \/ \E i \in Own : file[i].seq = n /\ ~file[i].marker

NoGaps ==
    /\ \A i, j \in Own : i < j => file[i].seq < file[j].seq /\ ~file[i].marker
    /\ \E stop \in 0 .. recorder.seq :
        /\ \A n \in 0 .. stop - 1 : Accounted(n)
        /\ \A i \in Own : ~file[i].marker => file[i].seq < stop
        /\ stop < recorder.seq => sink.overflown = TRUE

\* The file never exceeds its cap by more than one marker, over restarts as well.
CapBounded == bytes <= Cap + MarkerSize

\* trace-sink.ts: the sink emits a single final marker, so that the marker is the
\* last line of the file.  A restarted sink only looks at the file's size.
MarkerFinal == \A i \in DOMAIN file : file[i].marker => i = Len(file)
=============================================================================
