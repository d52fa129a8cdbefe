---------------------------- MODULE TracesProofs ----------------------------
(* Proofs about the session trace, for every cap, batch and run of faults, *)
(* and about the sinks of the metrics, for every sequence of reports.      *)
EXTENDS Traces, Metrics, Recursion, TLAPS

-----------------------------------------------------------------------------
(* The inductive invariant.                                                *)

\* While the sink writes, its account is the size of the file, within the cap.
Accounts ==
    /\ bytes <= Cap + MarkerSize
    /\ sink.bytes = Null <=> sink.overflown = Null
    /\ sink.overflown = FALSE => sink.bytes = bytes /\ bytes <= Cap

\* The recorder is where the loop is.
InStep ==
    /\ recorder.message = loop.said
    /\ loop.at \in {"turn", "step"} => recorder.turn = loop.turn
    /\ loop.at = "step" =>
           /\ recorder.step = loop.step
           /\ \A b \in loop.parsed \ loop.done : recorder.calls[b] = CallAt(b)

IInv ==
    /\ TypeOK
    /\ Accounts
    /\ InStep
    /\ CallsArePaired
    /\ MessagesBelong

-----------------------------------------------------------------------------
(* The sink.                                                               *)

Line == [boot : Nat, seq : Nat, marker : BOOLEAN]
SinkType == [dir : BOOLEAN, bytes : Nat \cup {Null}, overflown : BOOLEAN \cup {Null}]

FilesOK ==
    /\ sink \in SinkType
    /\ file \in Seq(Line)
    /\ bytes \in Nat /\ skipped \in SUBSET Nat /\ boot \in Nat /\ faults \in Nat

\* The state resolveState returns accounts for the file.
LEMMA Resolved ==
    ASSUME FilesOK, Accounts
    PROVE  /\ ResolveState \in [dir : BOOLEAN, bytes : Nat, overflown : BOOLEAN]
           /\ ResolveState.overflown = FALSE => ResolveState.bytes = bytes /\ bytes <= Cap
<1>1. Null \notin Nat /\ Null \notin BOOLEAN /\ Cap \in Nat /\ bytes \in Nat
    BY TracesAssumption DEF FilesOK
<1>2. CASE sink.bytes # Null
    <2>1. ResolveState = sink
        BY <1>2 DEF ResolveState
    <2>2. sink.bytes \in Nat /\ sink.overflown \in BOOLEAN
        BY <1>2 DEF FilesOK, SinkType, Accounts
    <2>3. sink \in [dir : BOOLEAN, bytes : Nat, overflown : BOOLEAN]
        BY <2>2 DEF FilesOK, SinkType
    <2>4. QED BY <2>1, <2>3 DEF Accounts
<1>3. CASE sink.bytes = Null
    <2>1. ResolveState = [dir |-> TRUE, bytes |-> bytes, overflown |-> bytes >= Cap]
        BY <1>3 DEF ResolveState
    <2>2. (bytes >= Cap) \in BOOLEAN
        OBVIOUS
    <2>3. (bytes >= Cap) = FALSE => bytes <= Cap
        BY <1>1
    <2>4. QED BY <1>1, <2>1, <2>2, <2>3
<1>4. QED BY <1>2, <1>3

\* A delivered event keeps the sink's account right.
LEMMA Delivered ==
    ASSUME FilesOK, Accounts, NEW n \in Nat, Deliver(n), boot' = boot
    PROVE  FilesOK' /\ Accounts'
<1> DEFINE State == [dir : BOOLEAN, bytes : Nat, overflown : BOOLEAN]
<1>1. /\ Null \notin Nat /\ Null \notin BOOLEAN
      /\ Cap \in Nat /\ MarkerSize \in Nat /\ MaxFaults \in Nat /\ Sizes \subseteq Nat
    BY TracesAssumption
<1>2. /\ ResolveState \in State
      /\ ResolveState.overflown = FALSE => ResolveState.bytes = bytes /\ bytes <= Cap
    BY Resolved
<1>3. /\ bytes \in Nat /\ faults \in Nat /\ boot \in Nat /\ skipped \in SUBSET Nat /\ file \in Seq(Line)
      /\ sink \in SinkType /\ bytes <= Cap + MarkerSize
    BY DEF FilesOK, Accounts
<1>4. ASSUME NEW s \in State PROVE s \in SinkType /\ s.bytes # Null /\ s.overflown # Null
    <2>1. s.bytes \in Nat /\ s.overflown \in BOOLEAN /\ s.dir \in BOOLEAN
        OBVIOUS
    <2>2. s = [dir |-> s.dir, bytes |-> s.bytes, overflown |-> s.overflown]
        OBVIOUS
    <2>3. QED BY <1>1, <2>1, <2>2 DEF SinkType
<1>5. CASE DirFails(n)
    BY <1>3, <1>5 DEF DirFails, Fault, FilesOK, Accounts
<1>6. CASE Ignore
    BY <1>2, <1>3, <1>4, <1>6 DEF Ignore, FilesOK, Accounts
<1>7. CASE SerializeFails(n)
    <2>1. /\ sink' = ResolveState /\ UNCHANGED <<file, bytes>>
          /\ skipped' = skipped \cup {n} /\ faults' = faults + 1
        BY <1>7 DEF SerializeFails, Fault
    <2>2. sink' \in SinkType /\ sink'.bytes # Null /\ sink'.overflown # Null
        BY <1>2, <1>4, <2>1
    <2>3. sink'.overflown = FALSE => sink'.bytes = bytes' /\ bytes' <= Cap
        BY <1>2, <2>1
    <2>4. FilesOK'
        BY <1>3, <2>1, <2>2 DEF FilesOK
    <2>5. Accounts'
        BY <1>3, <2>1, <2>2, <2>3 DEF Accounts
    <2>6. QED BY <2>4, <2>5
<1>8. ASSUME NEW size \in Sizes, Truncate(n, size)
      PROVE  FilesOK' /\ Accounts'
    <2>1. /\ ~ResolveState.overflown
          /\ sink' = [ResolveState EXCEPT !.overflown = TRUE]
          /\ skipped' = skipped
          /\ \/ AppendLine(n + 1, MarkerSize, TRUE) /\ UNCHANGED faults
             \/ Fault /\ UNCHANGED <<file, bytes>>
        BY <1>8 DEF Truncate
    <2>2. bytes <= Cap
        BY <1>2, <2>1
    <2>3. sink' \in State /\ sink'.overflown = TRUE
        BY <1>2, <2>1
    <2>4. sink' \in SinkType /\ sink'.bytes # Null /\ sink'.overflown # Null
        BY <1>4, <2>3
    <2>5. file' \in Seq(Line) /\ bytes' \in Nat /\ bytes' <= Cap + MarkerSize /\ faults' \in Nat
        <3>1. CASE AppendLine(n + 1, MarkerSize, TRUE) /\ UNCHANGED faults
            <4>1. [boot |-> boot, seq |-> n + 1, marker |-> TRUE] \in Line
                BY <1>3 DEF Line
            <4>2. file' \in Seq(Line) /\ bytes' \in Nat /\ bytes' = bytes + MarkerSize
                BY <1>1, <1>3, <3>1, <4>1 DEF AppendLine
            <4>3. QED BY <1>1, <1>3, <2>2, <3>1, <4>2
        <3>2. CASE Fault /\ UNCHANGED <<file, bytes>>
            BY <1>1, <1>3, <3>2 DEF Fault
        <3>3. QED BY <2>1, <3>1, <3>2
    <2>6. FilesOK'
        BY <1>3, <2>1, <2>4, <2>5 DEF FilesOK
    <2>7. Accounts'
        BY <2>3, <2>4, <2>5 DEF Accounts
    <2>8. QED BY <2>6, <2>7
<1>9. ASSUME NEW size \in Sizes, Write(n, size)
      PROVE  FilesOK' /\ Accounts'
    <2>1. /\ ~ResolveState.overflown
          /\ ResolveState.bytes + size <= Cap
          /\ skipped' = skipped
        BY <1>9 DEF Write
    <2>2. ResolveState.bytes = bytes /\ bytes <= Cap
        BY <1>2, <2>1
    <2>3. CASE AppendLine(n, size, FALSE) /\ sink' = [ResolveState EXCEPT !.bytes = @ + size] /\ UNCHANGED faults
        <3>0. [boot |-> boot, seq |-> n, marker |-> FALSE] \in Line
            BY <1>3 DEF Line
        <3>1. file' \in Seq(Line) /\ bytes' \in Nat /\ bytes' = bytes + size
            BY <1>1, <1>3, <2>3, <3>0 DEF AppendLine
        <3>2. sink' \in State /\ sink'.bytes = bytes + size /\ sink'.overflown = ResolveState.overflown
            BY <1>1, <1>2, <1>3, <2>2, <2>3
        <3>3. sink' \in SinkType /\ sink'.bytes # Null /\ sink'.overflown # Null
            BY <1>4, <3>2
        <3>4. bytes' <= Cap /\ bytes' <= Cap + MarkerSize
            BY <1>1, <2>1, <2>2, <3>1
        <3>5. FilesOK'
            BY <1>3, <2>1, <2>3, <3>1, <3>3 DEF FilesOK
        <3>6. Accounts'
            BY <2>2, <3>1, <3>2, <3>3, <3>4 DEF Accounts
        <3>7. QED BY <3>5, <3>6
    <2>4. CASE Fault /\ sink' = [ResolveState EXCEPT !.overflown = TRUE] /\ UNCHANGED <<file, bytes>>
        <3>1. sink' \in State /\ sink'.overflown = TRUE
            BY <1>2, <2>4
        <3>2. sink' \in SinkType /\ sink'.bytes # Null /\ sink'.overflown # Null
            BY <1>4, <3>1
        <3>3. FilesOK'
            BY <1>3, <2>1, <2>4, <3>2 DEF Fault, FilesOK
        <3>4. Accounts'
            BY <1>3, <2>4, <3>1, <3>2 DEF Accounts
        <3>5. QED BY <3>3, <3>4
    <2>5. QED BY <1>9, <2>3, <2>4 DEF Write
<1>10. QED BY <1>5, <1>6, <1>7, <1>8, <1>9 DEF Deliver

-----------------------------------------------------------------------------
(* The recorder and the loop.                                              *)

LoopType == [at : {"new", "idle", "turn", "step"}, turn : Nat, step : Nat,
             said : Messages \cup {Null}, parsed : SUBSET BatchIndices, done : SUBSET BatchIndices]
RecorderType == [seq : Nat, turn : Nat, step : Nat \cup {Null}, message : Messages \cup {Null},
                 calls : [BatchIndices -> Call \cup {Null}]]

LoopOK ==
    /\ loop \in LoopType
    /\ recorder \in RecorderType
    /\ last \in Turn \cup Tool \cup {Other}
    /\ InStep
    /\ CallsArePaired
    /\ MessagesBelong

\* The invariant in three parts: types of the files, the sink's account, the recorder.
LEMMA IInvParts ==
    /\ IInv <=> FilesOK /\ Accounts /\ LoopOK
    /\ IInv' <=> FilesOK' /\ Accounts' /\ LoopOK'
BY DEF IInv, TypeOK, FilesOK, SinkType, Line, LoopOK, LoopType, RecorderType

\* A pushed event keeps the files right and counts up the sequence.
LEMMA Pushed ==
    ASSUME FilesOK, Accounts, NEW rec \in RecorderType, NEW contents,
           recorder \in RecorderType, Push(rec, contents)
    PROVE  /\ FilesOK' /\ Accounts'
           /\ recorder' \in RecorderType
           /\ recorder'.turn = rec.turn /\ recorder'.step = rec.step
           /\ recorder'.message = rec.message /\ recorder'.calls = rec.calls
           /\ last' = contents
<1>1. recorder.seq \in Nat
    BY DEF RecorderType
<1>2. /\ recorder' = [rec EXCEPT !.seq = @ + 1]
      /\ last' = contents /\ Deliver(recorder.seq) /\ boot' = boot
    BY DEF Push
<1>3. FilesOK' /\ Accounts'
    BY <1>1, <1>2, Delivered
<1>4. QED BY <1>2, <1>3 DEF RecorderType

\* An event without contents of its own is none of those the properties look at.
LEMMA OtherIsOther == Other.type = "other"
BY DEF Other

\* A call's place.
LEMMA CallAtType ==
    ASSUME loop \in LoopType, NEW b \in BatchIndices
    PROVE  CallAt(b) \in Call /\ CallAt(b).turn = loop.turn /\ CallAt(b).step = loop.step
BY DEF CallAt, Call, LoopType

\* A new process has recorded nothing and knows nothing of the file.
LEMMA InitInv == Init => IInv
<1> SUFFICES ASSUME Init PROVE FilesOK /\ Accounts /\ LoopOK
    BY IInvParts
<1> USE DEF Init
<1>1. FilesOK /\ Accounts
    <2>1. sink \in SinkType /\ sink.bytes = Null /\ sink.overflown = Null
        BY DEF NewSink, SinkType
    <2>2. Null \notin BOOLEAN /\ Cap \in Nat /\ MarkerSize \in Nat
        BY TracesAssumption
    <2>3. FilesOK
        BY <2>1 DEF FilesOK
    <2>4. Accounts
        <3>1. sink.overflown # FALSE
            BY <2>1, <2>2, Zenon
        <3>2. bytes <= Cap + MarkerSize
            BY <2>2
        <3>3. QED BY <2>1, <3>1, <3>2 DEF Accounts
    <2>5. QED BY <2>3, <2>4
<1>2. loop \in LoopType /\ recorder \in RecorderType
    BY DEF LoopType, RecorderType, NewLoop, NewRecorder
<1>3. last = Other /\ last.type = "other"
    BY OtherIsOther
<1>4. InStep
    BY DEF InStep, NewLoop, NewRecorder
<1>5. QED BY <1>1, <1>2, <1>3, <1>4 DEF LoopOK, CallsArePaired, MessagesBelong

\* The steps that leave the sink alone.
LEMMA QuietStep ==
    ASSUME FilesOK, Accounts, UNCHANGED <<sink, file, bytes, skipped, boot, faults>>
    PROVE  FilesOK' /\ Accounts'
BY DEF FilesOK, Accounts

\* What a step has to show about the recorder and the loop.
LEMMA LoopStep ==
    ASSUME loop' \in LoopType, recorder' \in RecorderType, last' = Other, InStep'
    PROVE  LoopOK'
BY OtherIsOther DEF LoopOK, CallsArePaired, MessagesBelong

\* Every step preserves the invariant.
LEMMA StepInv == IInv /\ [Next]_vars => IInv'
<1> SUFFICES ASSUME FilesOK, Accounts, LoopOK, [Next]_vars
             PROVE  FilesOK' /\ Accounts' /\ LoopOK'
    BY IInvParts
<1>1. loop \in LoopType /\ recorder \in RecorderType /\ InStep
    BY DEF LoopOK
<1>2. recorder.message = loop.said /\ Null \notin Nat
    BY <1>1, TracesAssumption DEF InStep
<1>3. CASE BeginSession
    <2>1. Push(recorder, Other) /\ loop.at = "new" /\ loop' = [loop EXCEPT !.at = "idle"]
        BY <1>3 DEF BeginSession
    <2>2. loop' \in LoopType /\ loop'.at = "idle" /\ loop'.said = loop.said
        BY <1>1, <2>1 DEF LoopType
    <2>3. /\ FilesOK' /\ Accounts' /\ recorder' \in RecorderType /\ last' = Other
          /\ recorder'.message = recorder.message
        BY <1>1, <2>1, Pushed
    <2>4. InStep'
        BY <1>2, <2>2, <2>3 DEF InStep
    <2>5. QED BY <2>2, <2>3, <2>4, LoopStep
<1>4. ASSUME NEW text \in Messages, UserMessage(text)
      PROVE  FilesOK' /\ Accounts' /\ LoopOK'
    <2>1. /\ loop.at = "idle" /\ loop' = [loop EXCEPT !.said = text]
          /\ recorder' = [recorder EXCEPT !.message = text] /\ last' = Other
          /\ UNCHANGED <<sink, file, bytes, skipped, boot, faults>>
        BY <1>4 DEF UserMessage
    <2>2. loop' \in LoopType /\ loop'.at = "idle" /\ loop'.said = text
        BY <1>1, <2>1 DEF LoopType
    <2>3. recorder' \in RecorderType /\ recorder'.message = text
        BY <1>1, <2>1 DEF RecorderType
    <2>4. InStep'
        BY <2>2, <2>3 DEF InStep
    <2>5. QED BY <2>1, <2>2, <2>3, <2>4, LoopStep, QuietStep
<1>5. CASE TurnStarted
    <2> DEFINE rec == [recorder EXCEPT !.turn = loop.turn + 1, !.message = Null]
               started == [type |-> "turn_started", turn |-> loop.turn + 1,
                           message |-> recorder.message, said |-> loop.said]
    <2>1. /\ Push(rec, started)
          /\ loop' = [loop EXCEPT !.at = "turn", !.turn = @ + 1, !.step = 0, !.said = Null]
        BY <1>5 DEF TurnStarted
    <2>2. /\ loop' \in LoopType /\ loop'.at = "turn" /\ loop'.said = Null
          /\ loop'.turn = loop.turn + 1 /\ loop.turn + 1 \in Nat /\ loop.said \in Messages \cup {Null}
        <3>1. loop.turn + 1 \in Nat /\ loop.said \in Messages \cup {Null} /\ Null \in Messages \cup {Null}
            BY <1>1 DEF LoopType
        <3>2. loop' \in LoopType
            BY <1>1, <2>1, <3>1 DEF LoopType
        <3>3. loop'.at = "turn" /\ loop'.said = Null /\ loop'.turn = loop.turn + 1
            BY <1>1, <2>1 DEF LoopType
        <3>4. QED BY <3>1, <3>2, <3>3
    <2>3. rec \in RecorderType /\ rec.turn = loop.turn + 1 /\ rec.message = Null
        BY <1>1, <2>2 DEF RecorderType
    <2>4. started \in Turn /\ started.type = "turn_started" /\ started.message = started.said
        BY <1>1, <1>2, <2>2 DEF Turn
    <2> HIDE DEF rec, started
    <2>5. /\ FilesOK' /\ Accounts' /\ recorder' \in RecorderType /\ last' = started
          /\ recorder'.turn = rec.turn /\ recorder'.message = rec.message
        BY <1>1, <2>1, <2>3, Pushed
    <2>6. InStep'
        BY <2>2, <2>3, <2>5 DEF InStep
    <2>7. LoopOK'
        BY <2>2, <2>4, <2>5, <2>6 DEF LoopOK, CallsArePaired, MessagesBelong
    <2>8. QED BY <2>5, <2>7
<1>6. CASE TurnFinished
    <2>1. Push(recorder, Other) /\ loop' = [loop EXCEPT !.at = "idle"]
        BY <1>6 DEF TurnFinished
    <2>2. loop' \in LoopType /\ loop'.at = "idle" /\ loop'.said = loop.said
        BY <1>1, <2>1 DEF LoopType
    <2>3. /\ FilesOK' /\ Accounts' /\ recorder' \in RecorderType /\ last' = Other
          /\ recorder'.message = recorder.message
        BY <1>1, <2>1, Pushed
    <2>4. InStep'
        BY <1>2, <2>2, <2>3 DEF InStep
    <2>5. QED BY <2>2, <2>3, <2>4, LoopStep
<1>7. CASE StepStarted
    <2> DEFINE rec == [recorder EXCEPT !.step = loop.step + 1, !.calls = NewRecorder.calls]
    <2>1. /\ Push(rec, Other) /\ loop.at = "turn"
          /\ loop' = [loop EXCEPT !.at = "step", !.step = @ + 1, !.parsed = {}, !.done = {}]
        BY <1>7 DEF StepStarted
    <2>2. /\ loop' \in LoopType /\ loop'.at = "step" /\ loop'.said = loop.said
          /\ loop'.turn = loop.turn /\ loop'.step = loop.step + 1 /\ loop'.parsed = {}
          /\ loop.step + 1 \in Nat
        <3>1. loop.step + 1 \in Nat /\ {} \in SUBSET BatchIndices
            BY <1>1 DEF LoopType
        <3>2. loop' \in LoopType
            BY <1>1, <2>1, <3>1 DEF LoopType
        <3>3. /\ loop'.at = "step" /\ loop'.said = loop.said
              /\ loop'.turn = loop.turn /\ loop'.step = loop.step + 1 /\ loop'.parsed = {}
            BY <1>1, <2>1 DEF LoopType
        <3>4. QED BY <3>1, <3>2, <3>3
    <2>3. /\ rec \in RecorderType /\ rec.turn = recorder.turn
          /\ rec.step = loop.step + 1 /\ rec.message = recorder.message
        BY <1>1, <2>2 DEF RecorderType, NewRecorder
    <2>4. recorder.turn = loop.turn
        BY <1>1, <2>1 DEF InStep
    <2> HIDE DEF rec
    <2>5. /\ FilesOK' /\ Accounts' /\ recorder' \in RecorderType /\ last' = Other
          /\ recorder'.turn = rec.turn /\ recorder'.step = rec.step
          /\ recorder'.message = rec.message
        BY <1>1, <2>1, <2>3, Pushed
    <2>6. InStep'
        BY <1>2, <2>2, <2>3, <2>4, <2>5 DEF InStep
    <2>7. QED BY <2>2, <2>5, <2>6, LoopStep
<1>8. CASE StepEvent \/ LoopDetected \/ RecordSubCall
    <2>1. Push(recorder, Other) /\ loop' = loop
        BY <1>8 DEF StepEvent, LoopDetected, RecordSubCall
    <2>2. /\ FilesOK' /\ Accounts' /\ recorder' \in RecorderType /\ last' = Other
          /\ recorder'.turn = recorder.turn /\ recorder'.step = recorder.step
          /\ recorder'.message = recorder.message /\ recorder'.calls = recorder.calls
        BY <1>1, <2>1, Pushed
    <2>3. InStep'
        BY <1>1, <2>1, <2>2 DEF InStep, CallAt
    <2>4. QED BY <1>1, <2>1, <2>2, <2>3, LoopStep
<1>9. ASSUME NEW b \in BatchIndices, ToolCallParsed(b)
      PROVE  FilesOK' /\ Accounts' /\ LoopOK'
    <2>1. /\ loop.at = "step" /\ b \notin loop.parsed
          /\ loop' = [loop EXCEPT !.parsed = @ \cup {b}]
          /\ recorder' = [recorder EXCEPT !.calls[b] = CallAt(b)] /\ last' = Other
          /\ UNCHANGED <<sink, file, bytes, skipped, boot, faults>>
        BY <1>9 DEF ToolCallParsed
    <2>2. /\ loop' \in LoopType /\ loop'.at = "step" /\ loop'.said = loop.said
          /\ loop'.turn = loop.turn /\ loop'.step = loop.step
          /\ loop'.parsed = loop.parsed \cup {b} /\ loop'.done = loop.done
        BY <1>1, <2>1 DEF LoopType
    <2>3. CallAt(b) \in Call
        BY <1>1, CallAtType
    <2>4. /\ recorder' \in RecorderType
          /\ recorder'.turn = recorder.turn /\ recorder'.step = recorder.step
          /\ recorder'.message = recorder.message
          /\ recorder'.calls = [recorder.calls EXCEPT ![b] = CallAt(b)]
          /\ recorder.calls \in [BatchIndices -> Call \cup {Null}]
        BY <1>1, <2>1, <2>3 DEF RecorderType
    <2>5. \A k \in loop'.parsed \ loop'.done : recorder'.calls[k] = CallAt(k)'
        <3> SUFFICES ASSUME NEW k \in (loop.parsed \cup {b}) \ loop.done
                     PROVE  recorder'.calls[k] = CallAt(k)
            BY <2>2 DEF CallAt
        <3>1. k \in BatchIndices
            BY <1>1 DEF LoopType
        <3>2. CASE k = b
            BY <2>4, <3>2
        <3>3. CASE k # b
            BY <1>1, <2>1, <2>4, <3>1, <3>3 DEF InStep
        <3>4. QED BY <3>2, <3>3
    <2>6. InStep'
        BY <1>1, <2>1, <2>2, <2>4, <2>5 DEF InStep
    <2>7. QED BY <2>1, <2>2, <2>4, <2>6, LoopStep, QuietStep
<1>10. ASSUME NEW b \in BatchIndices, ToolCallExecuted(b)
      PROVE  FilesOK' /\ Accounts' /\ LoopOK'
    <2> DEFINE rec == [recorder EXCEPT !.calls[b] = Null]
               executed == [type |-> "tool_invocation", turn |-> recorder.turn,
                            step |-> recorder.step, args |-> recorder.calls[b], of |-> CallAt(b)]
    <2>1. /\ loop.at = "step" /\ recorder.step # Null /\ b \in loop.parsed \ loop.done
          /\ loop' = [loop EXCEPT !.done = @ \cup {b}]
          /\ Push(rec, executed)
        BY <1>10 DEF ToolCallExecuted
    <2>2. /\ loop' \in LoopType /\ loop'.at = "step" /\ loop'.said = loop.said
          /\ loop'.turn = loop.turn /\ loop'.step = loop.step
          /\ loop'.parsed = loop.parsed /\ loop'.done = loop.done \cup {b}
        BY <1>1, <2>1 DEF LoopType
    <2>3. /\ rec \in RecorderType
          /\ rec.turn = recorder.turn /\ rec.step = recorder.step /\ rec.message = recorder.message
          /\ \A k \in BatchIndices : k # b => rec.calls[k] = recorder.calls[k]
        BY <1>1 DEF RecorderType
    <2>4. /\ recorder.turn = loop.turn /\ recorder.step = loop.step /\ recorder.calls[b] = CallAt(b)
          /\ \A k \in loop.parsed \ loop.done : recorder.calls[k] = CallAt(k)
        BY <1>1, <2>1 DEF InStep
    <2>5. CallAt(b) \in Call /\ CallAt(b).turn = loop.turn /\ CallAt(b).step = loop.step
        BY <1>1, CallAtType
    <2>6. /\ executed.type = "tool_invocation" /\ executed.args = executed.of
          /\ executed.of.turn = executed.turn /\ executed.of.step = executed.step
        BY <2>4, <2>5
    <2>7. executed \in Tool
        BY <1>1, <2>1, <2>4, <2>5 DEF Tool, RecorderType
    <2> HIDE DEF rec, executed
    <2>8. /\ FilesOK' /\ Accounts' /\ recorder' \in RecorderType /\ last' = executed
          /\ recorder'.turn = rec.turn /\ recorder'.step = rec.step
          /\ recorder'.message = rec.message /\ recorder'.calls = rec.calls
        BY <1>1, <2>1, <2>3, Pushed
    <2>9. \A k \in loop'.parsed \ loop'.done : recorder'.calls[k] = CallAt(k)'
        <3> SUFFICES ASSUME NEW k \in loop.parsed \ (loop.done \cup {b})
                     PROVE  recorder'.calls[k] = CallAt(k)
            BY <2>2 DEF CallAt
        <3>1. k \in BatchIndices /\ k # b
            BY <1>1 DEF LoopType
        <3>2. QED BY <2>3, <2>4, <2>8, <3>1
    <2>10. InStep'
        BY <1>2, <2>2, <2>3, <2>4, <2>8, <2>9 DEF InStep
    <2>11. LoopOK'
        BY <2>2, <2>6, <2>7, <2>8, <2>10 DEF LoopOK, CallsArePaired, MessagesBelong
    <2>12. QED BY <2>8, <2>11
<1>11. CASE StepFinished
    <2> DEFINE rec == [recorder EXCEPT !.step = Null, !.calls = NewRecorder.calls]
    <2>1. Push(rec, Other) /\ loop.at = "step" /\ loop' = [loop EXCEPT !.at = "turn"]
        BY <1>11 DEF StepFinished
    <2>2. /\ loop' \in LoopType /\ loop'.at = "turn" /\ loop'.said = loop.said
          /\ loop'.turn = loop.turn
        BY <1>1, <2>1 DEF LoopType
    <2>3. rec \in RecorderType /\ rec.turn = recorder.turn /\ rec.message = recorder.message
        BY <1>1 DEF RecorderType, NewRecorder
    <2>4. recorder.turn = loop.turn
        BY <1>1, <2>1 DEF InStep
    <2> HIDE DEF rec
    <2>5. /\ FilesOK' /\ Accounts' /\ recorder' \in RecorderType /\ last' = Other
          /\ recorder'.turn = rec.turn /\ recorder'.message = rec.message
        BY <1>1, <2>1, <2>3, Pushed
    <2>6. InStep'
        BY <1>2, <2>2, <2>3, <2>4, <2>5 DEF InStep
    <2>7. QED BY <2>2, <2>5, <2>6, LoopStep
<1>12. CASE LoopFailed
    <2>1. Push(recorder, Other) /\ loop' = [loop EXCEPT !.at = "idle"]
        BY <1>12 DEF LoopFailed
    <2>2. loop' \in LoopType /\ loop'.at = "idle" /\ loop'.said = loop.said
        BY <1>1, <2>1 DEF LoopType
    <2>3. /\ FilesOK' /\ Accounts' /\ recorder' \in RecorderType /\ last' = Other
          /\ recorder'.message = recorder.message
        BY <1>1, <2>1, Pushed
    <2>4. InStep'
        BY <1>2, <2>2, <2>3 DEF InStep
    <2>5. QED BY <2>2, <2>3, <2>4, LoopStep
<1>13. CASE Restart
    <2>1. /\ boot' = boot + 1 /\ loop' = NewLoop /\ recorder' = NewRecorder /\ last' = Other
          /\ sink' = NewSink /\ skipped' = {} /\ UNCHANGED <<file, bytes, faults>>
        BY <1>13 DEF Restart
    <2>2. /\ loop' \in LoopType /\ loop'.at = "new" /\ loop'.said = Null
          /\ recorder' \in RecorderType /\ recorder'.message = Null
        BY <2>1 DEF LoopType, RecorderType, NewLoop, NewRecorder
    <2>3. sink' \in SinkType /\ sink'.bytes = Null /\ sink'.overflown = Null
        BY <2>1 DEF NewSink, SinkType
    <2>4. FilesOK'
        BY <2>1, <2>3 DEF FilesOK
    <2>5. Accounts'
        BY <2>1, <2>3, TracesAssumption DEF Accounts
    <2>6. InStep'
        BY <2>2 DEF InStep
    <2>7. QED BY <2>1, <2>2, <2>4, <2>5, <2>6, LoopStep
<1>14. CASE UNCHANGED vars
    <2>1. FilesOK' /\ Accounts'
        BY <1>14, QuietStep DEF vars
    <2>2. LoopOK'
        BY <1>14 DEF vars, LoopOK, InStep, CallsArePaired, MessagesBelong, CallAt
    <2>3. QED BY <2>1, <2>2
<1>15. QED
    BY <1>3, <1>4, <1>5, <1>6, <1>7, <1>8, <1>9, <1>10, <1>11, <1>12, <1>13, <1>14 DEF Next

-----------------------------------------------------------------------------
(* Theorems.                                                               *)

\* Every variable keeps its type: the recorder, the sink and the file.
THEOREM TypeCorrect == Spec => []TypeOK
<1>1. IInv => TypeOK
    BY DEF IInv
<1>2. QED BY <1>1, InitInv, StepInv, PTL DEF Spec

\* The trace file exceeds its cap by one marker at most, over any number of restarts
\* and failed writes.
THEOREM CapIsKept == Spec => []CapBounded
<1>1. IInv => CapBounded
    BY DEF IInv, Accounts, CapBounded
<1>2. QED BY <1>1, InitInv, StepInv, PTL DEF Spec

\* Every tool_invocation is paired with its own call, in batches of any size.
THEOREM ToolCallsArePaired == Spec => []CallsArePaired
<1>1. IInv => CallsArePaired
    BY DEF IInv
<1>2. QED BY <1>1, InitInv, StepInv, PTL DEF Spec

\* Every turn carries what was said to it.
THEOREM TurnsCarryTheirMessage == Spec => []MessagesBelong
<1>1. IInv => MessagesBelong
    BY DEF IInv
<1>2. QED BY <1>1, InitInv, StepInv, PTL DEF Spec

-----------------------------------------------------------------------------
(* Nothing is skipped silently.                                            *)

\* The events before stop are accounted for, and none after it is in the file.
UpTo(stop) ==
    /\ \A n \in 0 .. stop - 1 : Accounted(n)
    /\ \A i \in Own : ~file[i].marker => file[i].seq < stop

\* The lines of a process are in order, and end with its marker.
InOrder == \A i, j \in Own : i < j => file[i].seq < file[j].seq /\ ~file[i].marker

\* As long as the sink has not stopped, everything recorded is accounted for.
GapInv ==
    /\ \A i \in DOMAIN file : file[i].boot <= boot
    /\ InOrder
    /\ \E stop \in 0 .. recorder.seq : UpTo(stop)
    /\ sink.overflown # TRUE => UpTo(recorder.seq) /\ \A i \in Own : ~file[i].marker

\* That is the property.
LEMMA GapsExcluded ==
    ASSUME recorder.seq \in Nat, GapInv PROVE NoGaps
<1>1. InOrder
    BY DEF GapInv
<1>2. \E stop \in 0 .. recorder.seq : UpTo(stop) /\ (stop < recorder.seq => sink.overflown = TRUE)
    <2>1. CASE sink.overflown = TRUE
        BY <2>1 DEF GapInv
    <2>2. CASE sink.overflown # TRUE
        <3>1. UpTo(recorder.seq) /\ recorder.seq \in 0 .. recorder.seq /\ ~(recorder.seq < recorder.seq)
            BY <2>2 DEF GapInv
        <3>2. QED BY <3>1
    <2>3. QED BY <2>1, <2>2
<1>3. QED BY <1>1, <1>2 DEF NoGaps, InOrder, UpTo

\* The fields of a line.
LEMMA Lines ==
    ASSUME file \in Seq(Line)
    PROVE  /\ Len(file) \in Nat /\ DOMAIN file = 1 .. Len(file)
           /\ \A i \in DOMAIN file : file[i].seq \in Nat /\ file[i].boot \in Nat
<1>1. \A i \in DOMAIN file : file[i] \in Line
    OBVIOUS
<1>2. \A i \in DOMAIN file : file[i].seq \in Nat /\ file[i].boot \in Nat
    BY <1>1 DEF Line
<1>3. QED BY <1>2

\* A line that is added belongs to this process and comes last.
LEMMA Added ==
    ASSUME file \in Seq(Line), boot \in Nat, boot' = boot,
           NEW n \in Nat, NEW size, NEW marker \in BOOLEAN, AppendLine(n, size, marker)
    PROVE  /\ Len(file) + 1 \notin Own
           /\ DOMAIN file' = DOMAIN file \cup {Len(file) + 1}
           /\ Own' = Own \cup {Len(file) + 1}
           /\ Own \subseteq 1 .. Len(file)
           /\ \A i \in DOMAIN file : file'[i] = file[i]
           /\ file'[Len(file) + 1].boot = boot /\ file'[Len(file) + 1].seq = n
           /\ file'[Len(file) + 1].marker = marker
<1> DEFINE line == [boot |-> boot, seq |-> n, marker |-> marker]
<1>1. file' = Append(file, line) /\ line \in Line
    BY DEF AppendLine, Line
<1>2. line.boot = boot /\ line.seq = n /\ line.marker = marker
    OBVIOUS
<1> HIDE DEF line
<1>3. Len(file) \in Nat /\ DOMAIN file = 1 .. Len(file)
    OBVIOUS
<1>4. DOMAIN file' = 1 .. Len(file) + 1
    BY <1>1
<1>5. \A i \in 1 .. Len(file) : file'[i] = file[i]
    BY <1>1
<1>6. file'[Len(file) + 1] = line
    BY <1>1
<1>7. DOMAIN file' = DOMAIN file \cup {Len(file) + 1} /\ Len(file) + 1 \notin DOMAIN file
    BY <1>3, <1>4
<1>8. Own' = Own \cup {Len(file) + 1}
    BY <1>2, <1>3, <1>5, <1>6, <1>7 DEF Own
<1>9. QED BY <1>2, <1>3, <1>5, <1>6, <1>7, <1>8 DEF Own

\* What is accounted for stays so when a line is added.
LEMMA StillAccounted ==
    ASSUME file \in Seq(Line), boot \in Nat, boot' = boot, skipped' = skipped,
           NEW n \in Nat, NEW size, NEW marker \in BOOLEAN, AppendLine(n, size, marker)
    PROVE  /\ \A m : Accounted(m) => Accounted(m)'
           /\ ~marker => Accounted(n)'
<1>1. /\ Own' = Own \cup {Len(file) + 1} /\ Own \subseteq DOMAIN file
      /\ \A i \in DOMAIN file : file'[i] = file[i]
      /\ file'[Len(file) + 1].seq = n /\ file'[Len(file) + 1].marker = marker
    BY Added DEF Own
<1>2. ASSUME NEW m, Accounted(m) PROVE Accounted(m)'
    <2>1. CASE m \in skipped
        BY <2>1 DEF Accounted
    <2>2. CASE \E i \in Own : file[i].seq = m /\ ~file[i].marker
        BY <1>1, <2>2 DEF Accounted
    <2>3. QED BY <1>2, <2>1, <2>2 DEF Accounted
<1>3. ~marker => Accounted(n)'
    BY <1>1 DEF Accounted
<1>4. QED BY <1>2, <1>3

\* An event that leaves no line: passed over, or after the end.
LEMMA NoLine ==
    ASSUME FilesOK, GapInv, NEW seq \in Nat, recorder.seq = seq, recorder'.seq = seq + 1,
           boot' = boot, file' = file, skipped \subseteq skipped',
           sink'.overflown = TRUE
               \/ (sink.overflown # TRUE /\ seq \in skipped')
    PROVE  GapInv'
<1>1. Own' = Own
    BY DEF Own
<1>2. \A m : Accounted(m) => Accounted(m)'
    BY <1>1 DEF Accounted
<1>3. \A stop \in Nat : UpTo(stop) => UpTo(stop)'
    BY <1>1, <1>2 DEF UpTo
<1>4. \E stop \in 0 .. seq + 1 : UpTo(stop)'
    <2>1. PICK stop \in 0 .. seq : UpTo(stop)
        BY DEF GapInv
    <2>2. stop \in Nat /\ stop \in 0 .. seq + 1
        OBVIOUS
    <2>3. QED BY <1>3, <2>1, <2>2
<1>5. (\A i \in DOMAIN file : file[i].boot <= boot)' /\ InOrder'
    BY <1>1 DEF GapInv, InOrder
<1>6. ASSUME sink'.overflown # TRUE
      PROVE  UpTo(seq + 1)' /\ (\A i \in Own : ~file[i].marker)'
    <2>1. UpTo(seq) /\ (\A i \in Own : ~file[i].marker) /\ seq \in skipped'
        BY <1>6 DEF GapInv
    <2>2. UpTo(seq)' /\ Accounted(seq)'
        BY <1>3, <2>1 DEF Accounted
    <2>3. \A m \in 0 .. (seq + 1) - 1 : m \in 0 .. seq - 1 \/ m = seq
        OBVIOUS
    <2>4. \A m \in 0 .. (seq + 1) - 1 : Accounted(m)'
        BY <2>2, <2>3 DEF UpTo
    <2>5. \A i \in Own' : ~file'[i].marker => file'[i].seq < seq + 1
        <3> SUFFICES ASSUME NEW i \in Own' PROVE ~file'[i].marker => file'[i].seq < seq + 1
            OBVIOUS
        <3>1. ~file'[i].marker => file'[i].seq < seq
            BY <2>2 DEF UpTo
        <3>2. i \in DOMAIN file /\ file'[i] = file[i] /\ file[i].seq \in Nat
            BY <1>1, Lines DEF Own, FilesOK
        <3>3. QED BY <3>1, <3>2
    <2>6. UpTo(seq + 1)'
        BY <2>4, <2>5 DEF UpTo
    <2>7. QED BY <1>1, <2>1, <2>6
<1>7. sink'.overflown # TRUE => UpTo(seq + 1)' /\ (\A i \in Own : ~file[i].marker)'
    BY <1>6
<1>8. QED BY <1>4, <1>5, <1>7 DEF GapInv

\* An event that leaves a line while the sink has not stopped: its own, or the marker.
LEMMA OneLine ==
    ASSUME FilesOK, GapInv, NEW seq \in Nat, recorder.seq = seq, recorder'.seq = seq + 1,
           boot' = boot, skipped' = skipped, sink.overflown # TRUE,
           NEW n \in Nat, NEW size, NEW marker \in BOOLEAN, AppendLine(n, size, marker),
           marker => n = seq + 1 /\ sink'.overflown = TRUE,
           ~marker => n = seq
    PROVE  GapInv'
<1>1. UpTo(seq) /\ (\A i \in Own : ~file[i].marker) /\ InOrder
      /\ \A i \in DOMAIN file : file[i].boot <= boot
    BY DEF GapInv
<1> DEFINE k == Len(file) + 1
<1>2. /\ Own' = Own \cup {k} /\ Own \subseteq 1 .. Len(file) /\ k \notin Own
      /\ DOMAIN file' = DOMAIN file \cup {k}
      /\ \A i \in DOMAIN file : file'[i] = file[i]
      /\ file'[k].boot = boot /\ file'[k].seq = n /\ file'[k].marker = marker
    BY Added DEF FilesOK
<1>3. Len(file) \in Nat /\ \A i \in Own : file[i].seq \in Nat /\ i \in DOMAIN file /\ i \in 1 .. Len(file)
    BY Lines DEF FilesOK, Own
<1>4. \A i \in Own : file'[i] = file[i] /\ i < k /\ file[i].seq \in Nat /\ file[i].seq < seq
    BY <1>1, <1>2, <1>3 DEF UpTo
<1>5. (\A m : Accounted(m) => Accounted(m)') /\ (~marker => Accounted(n)')
    BY StillAccounted DEF FilesOK
<1>6. boot \in Nat
    BY DEF FilesOK
<1> HIDE DEF k
<1>7. (\A i \in DOMAIN file : file[i].boot <= boot)'
    BY <1>1, <1>2, <1>6
<1>8. InOrder'
    <2> SUFFICES ASSUME NEW i \in Own \cup {k}, NEW j \in Own \cup {k}, i < j
                 PROVE  file'[i].seq < file'[j].seq /\ ~file'[i].marker
        BY <1>2 DEF InOrder
    <2>1. i \in Own
        <3>1. k \in Nat /\ \A m \in Own : m < k
            BY <1>3, <1>4 DEF k
        <3>2. QED BY <3>1, <1>2
    <2>2. ~file'[i].marker /\ file'[i].seq = file[i].seq /\ file[i].seq < seq /\ file[i].seq \in Nat
        BY <1>1, <1>4, <2>1
    <2>3. CASE j = k
        <3>1. seq <= n
            OBVIOUS
        <3>2. QED BY <1>2, <2>2, <2>3, <3>1
    <2>4. CASE j \in Own
        BY <1>1, <1>4, <2>1, <2>2, <2>4 DEF InOrder
    <2>5. QED BY <2>3, <2>4
<1>9. CASE marker
    <2>1. UpTo(seq)'
        BY <1>1, <1>2, <1>3, <1>4, <1>5, <1>9 DEF UpTo
    <2>2. seq \in 0 .. seq + 1
        OBVIOUS
    <2>3. \E stop \in 0 .. seq + 1 : UpTo(stop)'
        BY <2>1, <2>2
    <2>4. sink'.overflown = TRUE
        BY <1>9
    <2>5. QED BY <1>7, <1>8, <2>3, <2>4 DEF GapInv
<1>10. CASE ~marker
    <2>1. \A m \in 0 .. (seq + 1) - 1 : m \in 0 .. seq - 1 \/ m = seq
        OBVIOUS
    <2>2. \A m \in 0 .. (seq + 1) - 1 : Accounted(m)'
        BY <1>1, <1>5, <1>10, <2>1 DEF UpTo
    <2>3. \A i \in Own' : ~file'[i].marker /\ file'[i].seq < seq + 1
        BY <1>1, <1>2, <1>3, <1>4, <1>10
    <2>4. UpTo(seq + 1)'
        BY <2>2, <2>3 DEF UpTo
    <2>5. UpTo(seq + 1)' /\ seq + 1 \in 0 .. seq + 1
        BY <2>4
    <2>6. QED BY <1>7, <1>8, <2>3, <2>5 DEF GapInv
<1>11. QED BY <1>9, <1>10

\* What the sink does with an event leaves nothing out.
LEMMA NothingLeftOut ==
    ASSUME FilesOK, Accounts, GapInv, recorder.seq \in Nat,
           recorder'.seq = recorder.seq + 1, boot' = boot, Deliver(recorder.seq)
    PROVE  GapInv'
<1> DEFINE n == recorder.seq
<1>1. /\ ResolveState \in [dir : BOOLEAN, bytes : Nat, overflown : BOOLEAN]
      /\ sink.overflown # TRUE \/ ResolveState.overflown = TRUE
    <2>1. ResolveState \in [dir : BOOLEAN, bytes : Nat, overflown : BOOLEAN]
        BY Resolved
    <2>2. CASE sink.bytes = Null
        <3>1. sink.overflown = Null
            BY <2>2 DEF Accounts
        <3>2. QED BY <2>1, <3>1, TracesAssumption, Zenon
    <2>3. CASE sink.bytes # Null
        BY <2>1, <2>3 DEF ResolveState
    <2>4. QED BY <2>1, <2>2, <2>3
<1>2. CASE DirFails(n)
    <2>1. skipped' = skipped \cup {n} /\ UNCHANGED <<sink, file>>
        BY <1>2 DEF DirFails
    <2>2. CASE sink.overflown = TRUE
        <3>1. sink'.overflown = TRUE
            BY <2>1, <2>2
        <3>2. QED BY <2>1, <3>1, NoLine
    <2>3. CASE sink.overflown # TRUE
        BY <2>1, <2>3, NoLine
    <2>4. QED BY <2>2, <2>3
<1>3. CASE Ignore
    <2>1. sink'.overflown = TRUE /\ file' = file /\ skipped' = skipped
        BY <1>1, <1>3 DEF Ignore
    <2>2. QED BY <2>1, NoLine
<1>4. CASE SerializeFails(n)
    <2>1. skipped' = skipped \cup {n} /\ file' = file /\ ~ResolveState.overflown
        BY <1>4 DEF SerializeFails
    <2>2. sink.overflown # TRUE
        BY <1>1, <2>1
    <2>3. QED BY <2>1, <2>2, NoLine
<1>5. ASSUME NEW size \in Sizes, Truncate(n, size) PROVE GapInv'
    <2>1. ~ResolveState.overflown /\ skipped' = skipped /\ sink' = [ResolveState EXCEPT !.overflown = TRUE]
        BY <1>5 DEF Truncate
    <2>2. sink.overflown # TRUE /\ sink'.overflown = TRUE
        BY <1>1, <2>1
    <2>3. CASE AppendLine(n + 1, MarkerSize, TRUE)
        <3>1. n + 1 \in Nat
            OBVIOUS
        <3>2. QED BY <2>1, <2>2, <2>3, <3>1, OneLine
    <2>4. CASE file' = file
        BY <2>1, <2>2, <2>4, NoLine
    <2>5. QED BY <1>5, <2>3, <2>4 DEF Truncate
<1>6. ASSUME NEW size \in Sizes, Write(n, size) PROVE GapInv'
    <2>1. ~ResolveState.overflown /\ skipped' = skipped
        BY <1>6 DEF Write
    <2>2. sink.overflown # TRUE
        BY <1>1, <2>1
    <2>3. CASE AppendLine(n, size, FALSE)
        BY <2>1, <2>2, <2>3, OneLine
    <2>4. CASE file' = file /\ sink' = [ResolveState EXCEPT !.overflown = TRUE]
        <3>1. sink'.overflown = TRUE
            BY <1>1, <2>4
        <3>2. QED BY <2>1, <2>4, <3>1, NoLine
    <2>5. QED BY <1>6, <2>3, <2>4 DEF Write
<1>7. QED BY <1>2, <1>3, <1>4, <1>5, <1>6 DEF Deliver

\* A step that records nothing.
LEMMA NothingRecorded ==
    ASSUME GapInv, recorder'.seq = recorder.seq, UNCHANGED <<sink, file, skipped, boot>>
    PROVE  GapInv'
BY DEF GapInv, InOrder, UpTo, Own, Accounted

\* A push counts one event.
LEMMA PushedGap ==
    ASSUME FilesOK, Accounts, GapInv, recorder.seq \in Nat,
           NEW rec \in RecorderType, rec.seq = recorder.seq, NEW contents, Push(rec, contents)
    PROVE  GapInv'
<1>1. recorder'.seq = recorder.seq + 1 /\ boot' = boot /\ Deliver(recorder.seq)
    BY DEF Push, RecorderType
<1>2. QED BY <1>1, NothingLeftOut

\* Nothing is there, nothing is recorded.
LEMMA InitGap == Init => GapInv
<1> SUFFICES ASSUME Init PROVE GapInv
    OBVIOUS
<1>1. file = <<>> /\ recorder.seq = 0
    BY DEF Init, NewRecorder
<1>2. DOMAIN file = {} /\ Own = {} /\ 0 \in 0 .. recorder.seq /\ 0 .. 0 - 1 = {}
    BY <1>1 DEF Own
<1>3. UpTo(0)
    BY <1>2 DEF UpTo
<1>4. QED BY <1>1, <1>2, <1>3 DEF GapInv, InOrder

\* Every step keeps the invariant.
LEMMA StepGap == IInv /\ GapInv /\ [Next]_vars => GapInv'
<1> SUFFICES ASSUME FilesOK, Accounts, LoopOK, GapInv, [Next]_vars PROVE GapInv'
    BY IInvParts
<1>1. recorder \in RecorderType /\ loop \in LoopType /\ recorder.seq \in Nat
    BY DEF LoopOK, RecorderType
<1>2. CASE BeginSession \/ TurnFinished \/ StepEvent \/ LoopDetected \/ LoopFailed \/ RecordSubCall
    <2>1. Push(recorder, Other)
        BY <1>2 DEF BeginSession, TurnFinished, StepEvent, LoopDetected, LoopFailed, RecordSubCall
    <2>2. QED BY <1>1, <2>1, PushedGap
<1>3. ASSUME NEW text \in Messages, UserMessage(text) PROVE GapInv'
    BY <1>1, <1>3, NothingRecorded DEF UserMessage, RecorderType
<1>4. CASE TurnStarted
    <2> DEFINE rec == [recorder EXCEPT !.turn = loop.turn + 1, !.message = Null]
    <2>1. loop.turn + 1 \in Nat
        BY <1>1 DEF LoopType
    <2>4. rec \in RecorderType /\ rec.seq = recorder.seq
        BY <1>1, <2>1 DEF RecorderType
    <2> HIDE DEF rec
    <2>2. \E contents : Push(rec, contents)
        BY <1>4 DEF TurnStarted, rec
    <2>3. QED BY <1>1, <2>4, <2>2, PushedGap
<1>5. CASE StepStarted
    <2> DEFINE rec == [recorder EXCEPT !.step = loop.step + 1, !.calls = NewRecorder.calls]
    <2>1. loop.step + 1 \in Nat
        BY <1>1 DEF LoopType
    <2>2. rec \in RecorderType /\ rec.seq = recorder.seq
        BY <1>1, <2>1 DEF RecorderType, NewRecorder
    <2>3. Push(rec, Other)
        BY <1>5 DEF StepStarted
    <2> HIDE DEF rec
    <2>4. QED BY <1>1, <2>2, <2>3, PushedGap
<1>6. ASSUME NEW b \in BatchIndices, ToolCallParsed(b) PROVE GapInv'
    BY <1>1, <1>6, NothingRecorded DEF ToolCallParsed, RecorderType
<1>7. ASSUME NEW b \in BatchIndices, ToolCallExecuted(b) PROVE GapInv'
    <2> DEFINE rec == [recorder EXCEPT !.calls[b] = Null]
    <2>1. rec \in RecorderType /\ rec.seq = recorder.seq
        BY <1>1 DEF RecorderType
    <2> HIDE DEF rec
    <2>2. \E contents : Push(rec, contents)
        BY <1>7 DEF ToolCallExecuted, rec
    <2>3. QED BY <1>1, <2>1, <2>2, PushedGap
<1>8. CASE StepFinished
    <2> DEFINE rec == [recorder EXCEPT !.step = Null, !.calls = NewRecorder.calls]
    <2>1. rec \in RecorderType /\ rec.seq = recorder.seq
        BY <1>1 DEF RecorderType, NewRecorder
    <2>2. Push(rec, Other)
        BY <1>8 DEF StepFinished
    <2> HIDE DEF rec
    <2>3. QED BY <1>1, <2>1, <2>2, PushedGap
<1>9. CASE Restart
    <2>1. boot' = boot + 1 /\ recorder'.seq = 0 /\ file' = file /\ boot \in Nat
        BY <1>9 DEF Restart, NewRecorder, FilesOK
    <2>2. \A i \in DOMAIN file : file[i].boot <= boot /\ file[i].boot \in Nat
        BY Lines DEF GapInv, FilesOK
    <2>3. Own' = {} /\ (\A i \in DOMAIN file : file[i].boot <= boot)'
        BY <2>1, <2>2 DEF Own
    <2>4. UpTo(0)' /\ 0 \in 0 .. recorder'.seq
        BY <2>1, <2>3 DEF UpTo
    <2>5. QED BY <2>1, <2>3, <2>4 DEF GapInv, InOrder
<1>10. CASE UNCHANGED vars
    BY <1>10, NothingRecorded DEF vars
<1>11. QED
    BY <1>2, <1>3, <1>4, <1>5, <1>6, <1>7, <1>8, <1>9, <1>10 DEF Next

\* What a process recorded is in the file, in order, or was passed over, or came
\* after the sink's end: for any number of events, restarts and failures.
THEOREM NothingIsSkippedSilently == Spec => []NoGaps
<1>1. IInv /\ GapInv => NoGaps
    <2>1. IInv => recorder.seq \in Nat
        BY DEF IInv, TypeOK
    <2>2. QED BY <2>1, GapsExcluded
<1>2. Init => IInv /\ GapInv
    BY InitInv, InitGap
<1>3. IInv /\ GapInv /\ [Next]_vars => IInv' /\ GapInv'
    BY StepInv, StepGap
<1>4. QED BY <1>1, <1>2, <1>3, PTL DEF Spec

-----------------------------------------------------------------------------
(* What is emitted: at most four emissions by a call.                      *)

\* What is emitted as a histogram or a gauge, which no counter is called.
Observed ==
    {"stepTokens", "stepDuration", "llmLatency", "llmPromptTokens", "llmCompletionTokens",
     "kvCacheHit", "memoryReflectionLatency", "memoryLinkGeneratorDuration",
     "memoryConsolidationDistillLatency", "memoryVotingRunnerLatency",
     "memoryRetrieveRewriterDuration", "memoryRetrieveRewriterGateCosineScore",
     "tasksAttempts", "tasksDuration", "schedulerBatchSize", "schedulerTickDuration"}

\* An emission is of a counter or of something observed, by its name; none is of the log.
Agreed(e) ==
    /\ e.delta \in Nat
    /\ IF e.counter THEN e.counter = TRUE /\ e.name \notin Observed \cup {"log"}
       ELSE e.counter = FALSE /\ e.name \in Observed
Emissions(list) == Len(list) <= 4 /\ \E E : list \in Seq(E) /\ \A e \in E : Agreed(e)

LogKey == <<"log", <<>>>>

\* A sink that did not throw on the last emission of a counter has its value, and one
\* that never threw on a record of the log has them all.
TookAll(s) ==
    /\ \A key \in DOMAIN counters : key \notin missed[s] => ValueOf(seen[s], key) = counters[key]
    /\ LogKey \notin missed[s] => log[s] = Kept(logged, Enabled)

SinksInv ==
    /\ Emissions(pending)
    /\ \A key \in DOMAIN counters : key[1] \notin Observed
    /\ logged \in Seq(DOMAIN LEVEL_ORDER)
    /\ \A s \in Sinks : TookAll(s)

\* The rest of a list of emissions is one.
LEMMA EmissionsAre ==
    /\ Emissions(<<>>)
    /\ \A list : Emissions(list) /\ list # <<>> => Agreed(Head(list)) /\ Emissions(Tail(list))
    /\ \A a : Agreed(a) => Emissions(<<a>>)
    /\ \A a, b : Agreed(a) /\ Agreed(b) => Emissions(<<a, b>>)
    /\ \A a, b, c : Agreed(a) /\ Agreed(b) /\ Agreed(c) => Emissions(<<a, b, c>>)
    /\ \A a, b, c, d : Agreed(a) /\ Agreed(b) /\ Agreed(c) /\ Agreed(d) => Emissions(<<a, b, c, d>>)
<1> HIDE DEF Agreed
<1>0. \A E, list : Len(list) <= 4 /\ list \in Seq(E) /\ (\A e \in E : Agreed(e)) => Emissions(list)
  BY Zenon DEF Emissions
<1>1. Emissions(<<>>)
  <2> DEFINE E == {}
             list == <<>>
  <2>1. Len(list) <= 4 /\ list \in Seq(E) /\ \A e \in E : Agreed(e) OBVIOUS
  <2> SUFFICES Emissions(list) OBVIOUS
  <2> HIDE DEF E, list
  <2>2. QED BY <1>0, <2>1, Zenon
<1>2. ASSUME NEW list, Emissions(list), list # <<>> PROVE Agreed(Head(list)) /\ Emissions(Tail(list))
  <2>1. PICK E : list \in Seq(E) /\ \A e \in E : Agreed(e) BY <1>2 DEF Emissions
  <2>2. Head(list) \in E /\ Tail(list) \in Seq(E) /\ Len(Tail(list)) <= 4 BY <1>2, <2>1 DEF Emissions
  <2>3. QED BY <2>1, <2>2 DEF Emissions
<1>4. ASSUME NEW a, Agreed(a) PROVE Emissions(<<a>>)
  <2> DEFINE E == {a}
             list == <<a>>
  <2>1. Len(list) <= 4 /\ list \in Seq(E) /\ \A e \in E : Agreed(e) BY <1>4
  <2> SUFFICES Emissions(list) OBVIOUS
  <2> HIDE DEF E, list
  <2>2. QED BY <1>0, <2>1, Zenon
<1>5. ASSUME NEW a, NEW b, Agreed(a), Agreed(b) PROVE Emissions(<<a, b>>)
  <2> DEFINE E == {a, b}
             list == <<a, b>>
  <2>1. Len(list) <= 4 /\ list \in Seq(E) /\ \A e \in E : Agreed(e) BY <1>5
  <2> SUFFICES Emissions(list) OBVIOUS
  <2> HIDE DEF E, list
  <2>2. QED BY <1>0, <2>1, Zenon
<1>6. ASSUME NEW a, NEW b, NEW c, Agreed(a), Agreed(b), Agreed(c) PROVE Emissions(<<a, b, c>>)
  <2> DEFINE E == {a, b, c}
             list == <<a, b, c>>
  <2>1. Len(list) <= 4 /\ list \in Seq(E) /\ \A e \in E : Agreed(e) BY <1>6
  <2> SUFFICES Emissions(list) OBVIOUS
  <2> HIDE DEF E, list
  <2>2. QED BY <1>0, <2>1, Zenon
<1>7. ASSUME NEW a, NEW b, NEW c, NEW d, Agreed(a), Agreed(b), Agreed(c), Agreed(d)
      PROVE  Emissions(<<a, b, c, d>>)
  <2> DEFINE E == {a, b, c, d}
             list == <<a, b, c, d>>
  <2>1. Len(list) <= 4 /\ list \in Seq(E) /\ \A e \in E : Agreed(e) BY <1>7
  <2> SUFFICES Emissions(list) OBVIOUS
  <2> HIDE DEF E, list
  <2>2. QED BY <1>0, <2>1, Zenon
<1>8. QED BY <1>1, <1>2, <1>4, <1>5, <1>6, <1>7

\* What is counted and what is observed, by name.
LEMMA Named ==
    /\ \A name, tags : \A delta \in Nat :
          name \notin Observed \cup {"log"} => Agreed(Counter(name, delta, tags))
    /\ \A name, tags : name \in Observed => Agreed(Observe(name, tags))
BY DEF Agreed, Counter, Observe

\* What an emission adds to counters or observations of some names, with any tags if none
\* are given, and what the emissions of a list do.
Weight(e, N, T) ==
    IF e.name \in N /\ (T = {} \/ e.tags \in T) THEN IF e.counter THEN e.delta ELSE 1 ELSE 0
Nth(list, i, N, T) == IF i <= Len(list) THEN Weight(list[i], N, T) ELSE 0
Due(list, N, T) ==
    Nth(list, 1, N, T) + (Nth(list, 2, N, T) + (Nth(list, 3, N, T) + Nth(list, 4, N, T)))

Adds(name, tags, delta, N, T) == IF name \in N /\ (T = {} \/ tags \in T) THEN delta ELSE 0

LEMMA Weights ==
    /\ \A name, delta, tags, N, T :
          Weight(Counter(name, delta, tags), N, T) = Adds(name, tags, delta, N, T)
    /\ \A name, tags, N, T : Weight(Observe(name, tags), N, T) = Adds(name, tags, 1, N, T)
BY DEF Weight, Counter, Observe, Adds

LEMMA DueIs ==
    /\ \A N, T : Due(<<>>, N, T) = 0
    /\ \A a, N, T : Agreed(a) => Due(<<a>>, N, T) = Weight(a, N, T)
    /\ \A a, b, N, T : Agreed(a) /\ Agreed(b) => Due(<<a, b>>, N, T) = Weight(a, N, T) + Weight(b, N, T)
    /\ \A a, b, c, N, T : Agreed(a) /\ Agreed(b) /\ Agreed(c) =>
          Due(<<a, b, c>>, N, T) = Weight(a, N, T) + (Weight(b, N, T) + Weight(c, N, T))
    /\ \A a, b, c, d, N, T : Agreed(a) /\ Agreed(b) /\ Agreed(c) /\ Agreed(d) =>
          Due(<<a, b, c, d>>, N, T)
              = Weight(a, N, T) + (Weight(b, N, T) + (Weight(c, N, T) + Weight(d, N, T)))
    /\ \A list, N, T : Emissions(list) => Due(list, N, T) \in Nat
    /\ \A list, N, T : Emissions(list) /\ list # <<>> =>
          Due(list, N, T) = Weight(Head(list), N, T) + Due(Tail(list), N, T)
<1>1. \A e, N, T : Agreed(e) => Weight(e, N, T) \in Nat BY DEF Agreed, Weight
<1> HIDE DEF Agreed, Weight
<1>2. \A N, T : Due(<<>>, N, T) = 0 BY DEF Due, Nth
<1>3. \A a, N, T : Agreed(a) => Due(<<a>>, N, T) = Weight(a, N, T) BY <1>1 DEF Due, Nth
<1>4. \A a, b, N, T : Agreed(a) /\ Agreed(b) => Due(<<a, b>>, N, T) = Weight(a, N, T) + Weight(b, N, T)
  BY <1>1 DEF Due, Nth
<1>5. \A a, b, c, N, T : Agreed(a) /\ Agreed(b) /\ Agreed(c) =>
          Due(<<a, b, c>>, N, T) = Weight(a, N, T) + (Weight(b, N, T) + Weight(c, N, T))
  BY <1>1 DEF Due, Nth
<1>6. \A a, b, c, d, N, T : Agreed(a) /\ Agreed(b) /\ Agreed(c) /\ Agreed(d) =>
          Due(<<a, b, c, d>>, N, T)
              = Weight(a, N, T) + (Weight(b, N, T) + (Weight(c, N, T) + Weight(d, N, T)))
  BY <1>1 DEF Due, Nth
<1>7. ASSUME NEW list, NEW N, NEW T, Emissions(list)
      PROVE  /\ Due(list, N, T) \in Nat
             /\ list # <<>> => Due(list, N, T) = Weight(Head(list), N, T) + Due(Tail(list), N, T)
  <2>1. PICK E : list \in Seq(E) /\ \A e \in E : Agreed(e) BY <1>7 DEF Emissions
  <2>2. Len(list) \in Nat /\ Len(list) <= 4 /\ \A i \in 1 .. Len(list) : list[i] \in E BY <1>7, <2>1 DEF Emissions
  <2>3. \A i \in 1 .. 4 : Nth(list, i, N, T) \in Nat BY <1>1, <2>1, <2>2 DEF Nth
  <2>4. Due(list, N, T) \in Nat BY <2>3 DEF Due
  <2>5. ASSUME list # <<>> PROVE Due(list, N, T) = Weight(Head(list), N, T) + Due(Tail(list), N, T)
    <3>1. /\ Head(list) = list[1] /\ Len(list) >= 1 /\ Len(Tail(list)) = Len(list) - 1
          /\ \A i \in 1 .. Len(list) - 1 : Tail(list)[i] = list[i + 1]
      BY <2>1, <2>5
    <3>2. Nth(list, 1, N, T) = Weight(Head(list), N, T) BY <3>1 DEF Nth
    <3>3. \A i \in 1 .. 3 : Nth(Tail(list), i, N, T) = Nth(list, i + 1, N, T)
      <4> TAKE i \in 1 .. 3
      <4>1. CASE i <= Len(list) - 1
        <5>1. i \in 1 .. Len(list) - 1 /\ i + 1 <= Len(list) BY <2>2, <4>1
        <5>2. QED BY <3>1, <4>1, <5>1 DEF Nth
      <4>2. CASE ~ (i <= Len(list) - 1)
        <5>1. ~ (i + 1 <= Len(list)) BY <2>2, <4>2
        <5>2. QED BY <3>1, <4>2, <5>1 DEF Nth
      <4>3. QED BY <4>1, <4>2
    <3>4. Nth(Tail(list), 4, N, T) = 0 BY <2>2, <3>1 DEF Nth
    <3>5. 1 + 1 = 2 /\ 2 + 1 = 3 /\ 3 + 1 = 4 OBVIOUS
    <3>6. /\ Nth(Tail(list), 1, N, T) = Nth(list, 2, N, T) /\ Nth(Tail(list), 2, N, T) = Nth(list, 3, N, T)
          /\ Nth(Tail(list), 3, N, T) = Nth(list, 4, N, T)
      BY <3>3, <3>5
    <3>7. QED BY <2>3, <3>2, <3>4, <3>6 DEF Due
  <2>6. QED BY <2>4, <2>5
<1>8. QED BY <1>2, <1>3, <1>4, <1>5, <1>6, <1>7

\* Lists put together.
LEMMA Joined ==
    /\ \A a, b : <<a, b>> \o <<>> = <<a, b>>
    /\ \A a, b, c : <<a, b>> \o <<c>> = <<a, b, c>>
    /\ \A a, c, d : <<a>> \o <<>> \o <<c, d>> = <<a, c, d>>
    /\ \A a, b, c, d : <<a>> \o <<b>> \o <<c, d>> = <<a, b, c, d>>
<1>1. ASSUME NEW S, NEW l \in Seq(S) PROVE l \o <<>> = l BY <1>1, ConcatEmptySeq
<1>2. ASSUME NEW S, NEW l \in Seq(S), NEW m \in Seq(S), NEW w \in Seq(S), Len(w) = Len(l) + Len(m),
             \A i \in 1 .. Len(l) : w[i] = l[i], \A i \in 1 .. Len(m) : w[Len(l) + i] = m[i]
      PROVE  l \o m = w
  <2>1. /\ l \o m \in Seq(S) /\ Len(l \o m) = Len(l) + Len(m) /\ Len(l) \in Nat /\ Len(m) \in Nat
        /\ \A i \in 1 .. Len(l) + Len(m) : (l \o m)[i] = IF i <= Len(l) THEN l[i] ELSE m[i - Len(l)]
    BY <1>2, ConcatProperties
  <2> DEFINE v == l \o m
  <2>2. ASSUME NEW i \in 1 .. Len(l) + Len(m) PROVE v[i] = w[i]
    <3>1. CASE i <= Len(l)
      <4>1. i \in 1 .. Len(l) BY <2>1, <3>1
      <4>2. QED BY <1>2, <2>1, <3>1, <4>1
    <3>2. CASE ~ (i <= Len(l))
      <4>1. i - Len(l) \in 1 .. Len(m) /\ Len(l) + (i - Len(l)) = i BY <2>1, <3>2
      <4>2. v[i] = m[i - Len(l)] BY <2>1, <3>2
      <4> HIDE DEF v
      <4>3. QED BY <1>2, <4>1, <4>2
    <3>3. QED BY <3>1, <3>2
  <2> HIDE DEF v
  <2>3. v \in Seq(S) /\ Len(v) = Len(w) BY <1>2, <2>1 DEF v
  <2>4. \A i \in 1 .. Len(v) : v[i] = w[i] BY <1>2, <2>2, <2>3
  <2>5. v = w BY <2>3, <2>4, SeqEqual
  <2>6. QED BY <2>5 DEF v
<1>3. ASSUME NEW a, NEW b, NEW c PROVE <<a, b>> \o <<c>> = <<a, b, c>>
  <2> DEFINE S == {a, b, c}
             l == <<a, b>>
             m == <<c>>
             w == <<a, b, c>>
  <2>1. l \in Seq(S) /\ m \in Seq(S) /\ w \in Seq(S) OBVIOUS
  <2>2. Len(l) = 2 /\ Len(m) = 1 /\ Len(w) = 3 /\ l[1] = a /\ l[2] = b /\ m[1] = c /\ w[1] = a /\ w[2] = b /\ w[3] = c
    OBVIOUS
  <2> SUFFICES l \o m = w OBVIOUS
  <2> HIDE DEF S, l, m, w
  <2>3. Len(w) = Len(l) + Len(m) /\ (\A i \in 1 .. Len(l) : w[i] = l[i]) /\ \A i \in 1 .. Len(m) : w[Len(l) + i] = m[i]
    BY <2>2
  <2>4. QED BY <1>2, <2>1, <2>3
<1>4. ASSUME NEW a, NEW c, NEW d PROVE <<a>> \o <<c, d>> = <<a, c, d>>
  <2> DEFINE S == {a, c, d}
             l == <<a>>
             m == <<c, d>>
             w == <<a, c, d>>
  <2>1. l \in Seq(S) /\ m \in Seq(S) /\ w \in Seq(S) OBVIOUS
  <2>2. Len(l) = 1 /\ Len(m) = 2 /\ Len(w) = 3 /\ l[1] = a /\ m[1] = c /\ m[2] = d /\ w[1] = a /\ w[2] = c /\ w[3] = d
    OBVIOUS
  <2> SUFFICES l \o m = w OBVIOUS
  <2> HIDE DEF S, l, m, w
  <2>3. Len(w) = Len(l) + Len(m) /\ (\A i \in 1 .. Len(l) : w[i] = l[i]) /\ \A i \in 1 .. Len(m) : w[Len(l) + i] = m[i]
    BY <2>2
  <2>4. QED BY <1>2, <2>1, <2>3
<1>5. ASSUME NEW a, NEW b PROVE <<a>> \o <<b>> = <<a, b>>
  <2> DEFINE S == {a, b}
             l == <<a>>
             m == <<b>>
             w == <<a, b>>
  <2>1. l \in Seq(S) /\ m \in Seq(S) /\ w \in Seq(S) OBVIOUS
  <2>2. Len(l) = 1 /\ Len(m) = 1 /\ Len(w) = 2 /\ l[1] = a /\ m[1] = b /\ w[1] = a /\ w[2] = b OBVIOUS
  <2> SUFFICES l \o m = w OBVIOUS
  <2> HIDE DEF S, l, m, w
  <2>3. Len(w) = Len(l) + Len(m) /\ (\A i \in 1 .. Len(l) : w[i] = l[i]) /\ \A i \in 1 .. Len(m) : w[Len(l) + i] = m[i]
    BY <2>2
  <2>4. QED BY <1>2, <2>1, <2>3
<1>6. ASSUME NEW a, NEW b, NEW c, NEW d PROVE <<a, b>> \o <<c, d>> = <<a, b, c, d>>
  <2> DEFINE S == {a, b, c, d}
             l == <<a, b>>
             m == <<c, d>>
             w == <<a, b, c, d>>
  <2>1. l \in Seq(S) /\ m \in Seq(S) /\ w \in Seq(S) OBVIOUS
  <2>2. /\ Len(l) = 2 /\ Len(m) = 2 /\ Len(w) = 4 /\ l[1] = a /\ l[2] = b /\ m[1] = c /\ m[2] = d
        /\ w[1] = a /\ w[2] = b /\ w[3] = c /\ w[4] = d
    OBVIOUS
  <2> SUFFICES l \o m = w OBVIOUS
  <2> HIDE DEF S, l, m, w
  <2>3. Len(w) = Len(l) + Len(m) /\ (\A i \in 1 .. Len(l) : w[i] = l[i]) /\ \A i \in 1 .. Len(m) : w[Len(l) + i] = m[i]
    BY <2>2
  <2>4. QED BY <1>2, <2>1, <2>3
<1>7. \A a, b : <<a, b>> \o <<>> = <<a, b>>
  <2> TAKE a, b
  <2>1. <<a, b>> \in Seq({a, b}) OBVIOUS
  <2>2. QED BY <1>1, <2>1
<1>8. \A a : <<a>> \o <<>> = <<a>>
  <2> TAKE a
  <2>1. <<a>> \in Seq({a}) OBVIOUS
  <2>2. QED BY <1>1, <2>1
<1>9. ASSUME NEW a, NEW c, NEW d PROVE <<a>> \o <<>> \o <<c, d>> = <<a, c, d>>
  <2>1. <<a>> \o <<>> = <<a>> BY <1>8, Zenon
  <2>2. <<a>> \o <<c, d>> = <<a, c, d>> BY <1>4, Zenon
  <2>3. QED BY <2>1, <2>2, Zenon
<1>10. ASSUME NEW a, NEW b, NEW c, NEW d PROVE <<a>> \o <<b>> \o <<c, d>> = <<a, b, c, d>>
  <2>1. <<a>> \o <<b>> = <<a, b>> BY <1>5, Zenon
  <2>2. <<a, b>> \o <<c, d>> = <<a, b, c, d>> BY <1>6, Zenon
  <2>3. QED BY <2>1, <2>2, Zenon
<1>11. QED BY <1>3, <1>7, <1>9, <1>10, Zenon

-----------------------------------------------------------------------------
(* The sinks of the metrics.                                               *)

\* A delivery leaves every sink with the counters it did not throw on.
LEMMA EmitFollows ==
    ASSUME SinksInv, Emit
    PROVE  SinksInv'
<1> USE DEF SinksInv
<1> DEFINE e == Head(pending)
           key == <<e.name, e.tags>>
           next == ValueOf(counters, key) + e.delta
           Shown(s) == IF e.counter THEN next ELSE ValueOf(seen[s], key) + 1
<1>1. /\ pending # <<>> /\ pending' = Tail(pending) /\ UNCHANGED <<log, logged>>
      /\ counters' = IF e.counter THEN With(counters, key, next) ELSE counters
  BY DEF Emit
<1>2. PICK throwing \in SUBSET Sinks :
          /\ seen' = [s \in Sinks |-> IF s \in Reached(throwing)
                                      THEN With(seen[s], key, Shown(s)) ELSE seen[s]]
          /\ missed' = [s \in Sinks |-> IF s \in throwing THEN missed[s] \cup {key}
                                        ELSE IF e.counter THEN missed[s] \ {key} ELSE missed[s]]
  BY DEF Emit
<1>3. Agreed(e) /\ Emissions(Tail(pending))
  <2> HIDE DEF e
  <2>1. QED BY <1>1, EmissionsAre DEF e
<1>4. key[1] = e.name /\ (e.counter => e.name \notin Observed \cup {"log"})
      /\ (~e.counter => e.name \in Observed) /\ e.counter \in BOOLEAN
  BY <1>3 DEF Agreed
<1> HIDE DEF e, next, Agreed
<1>5. (\A k \in DOMAIN counters : k[1] \notin Observed)'
  <2>1. CASE e.counter
    <3>1. DOMAIN counters' = DOMAIN counters \cup {key} BY <1>1, <2>1 DEF With
    <3> HIDE DEF key
    <3>2. QED BY <1>4, <2>1, <3>1
  <2>2. CASE ~e.counter BY <1>1, <2>2
  <2>3. QED BY <2>1, <2>2
<1>6. e.counter => key # LogKey
  <2>1. LogKey[1] = "log" BY DEF LogKey
  <2> HIDE DEF key
  <2>2. QED BY <1>4, <2>1
<1>7. \A k \in DOMAIN counters : ~e.counter => k # key
  <2> HIDE DEF key
  <2>1. QED BY <1>4
<1> HIDE DEF key
<1>8. ASSUME NEW s \in Sinks PROVE TookAll(s)'
  <2>1. TookAll(s) OBVIOUS
  <2>2. ASSUME NEW k \in DOMAIN counters', k \notin missed'[s]
        PROVE  ValueOf(seen'[s], k) = counters'[k]
    <3>1. s \notin throwing \/ k # key BY <1>2, <2>2
    <3>2. CASE k = key
      <4>1. e.counter /\ s \in Reached(throwing)
        BY <1>1, <1>7, <2>2, <3>1, <3>2 DEF Reached
      <4>2. seen'[s] = With(seen[s], key, next) /\ counters' = With(counters, key, next)
        BY <1>1, <1>2, <4>1
      <4>3. QED BY <3>2, <4>2 DEF With, ValueOf
    <3>3. CASE k # key
      <4>1. k \in DOMAIN counters /\ counters'[k] = counters[k]
        <5>1. CASE e.counter
          <6>1. counters' = With(counters, key, next) BY <1>1, <5>1
          <6>2. k \in DOMAIN counters BY <2>2, <3>3, <6>1 DEF With
          <6>3. QED BY <3>3, <6>1, <6>2 DEF With
        <5>2. CASE ~e.counter BY <1>1, <2>2, <5>2
        <5>3. QED BY <5>1, <5>2
      <4>2. k \notin missed[s] BY <1>2, <2>2, <3>3
      <4>3. ValueOf(seen'[s], k) = ValueOf(seen[s], k)
        <5> DEFINE shown == Shown(s)
        <5>1. seen'[s] = With(seen[s], key, shown) \/ seen'[s] = seen[s] BY <1>2
        <5> HIDE DEF shown
        <5>2. QED BY <3>3, <5>1 DEF With, ValueOf
      <4>4. QED BY <2>1, <4>1, <4>2, <4>3 DEF TookAll
    <3>4. QED BY <3>2, <3>3
  <2>3. ASSUME LogKey \notin missed'[s] PROVE LogKey \notin missed[s]
    BY <1>2, <1>6, <2>3
  <2>4. log'[s] = log[s] /\ logged' = logged BY <1>1
  <2>5. (LogKey \notin missed[s] => log[s] = Kept(logged, Enabled))'
    BY <2>1, <2>3, <2>4 DEF TookAll, Enabled
  <2>6. QED BY <2>2, <2>5 DEF TookAll
<1>9. Emissions(pending)'
  BY <1>1, <1>3 DEF Emissions, Agreed
<1>10. QED BY <1>1, <1>5, <1>8, <1>9

\* A record of the log is given to every sink that does not throw on it.
LEMMA LogFollows ==
    ASSUME SinksInv, Log
    PROVE  SinksInv'
<1> USE DEF SinksInv
<1>1. UNCHANGED <<counters, pending, seen>> BY DEF Log
<1>2. PICK level \in DOMAIN LEVEL_ORDER, throwing \in SUBSET Sinks :
          /\ logged' = Append(logged, level)
          /\ log' = [s \in Sinks |-> IF level \in Enabled /\ s \in Reached(throwing)
                                     THEN Append(log[s], level) ELSE log[s]]
          /\ missed' = [s \in Sinks |-> IF s \in throwing THEN missed[s] \cup {<<"log", <<>>>>}
                                        ELSE missed[s]]
  BY DEF Log
<1>3. logged' \in Seq(DOMAIN LEVEL_ORDER) BY <1>2
<1>4. Kept(logged', Enabled) =
          IF level \in Enabled THEN Append(Kept(logged, Enabled), level) ELSE Kept(logged, Enabled)
  <2> DEFINE All == DOMAIN LEVEL_ORDER
  <2>1. logged \in Seq(All) /\ level \in All OBVIOUS
  <2> HIDE DEF All
  <2>2. QED BY <1>2, <2>1, KeptAppend
<1>5. ASSUME NEW s \in Sinks PROVE TookAll(s)'
  <2>1. TookAll(s) OBVIOUS
  <2>2. ASSUME NEW k \in DOMAIN counters', k \notin missed'[s] PROVE ValueOf(seen'[s], k) = counters'[k]
    <3>1. k \in DOMAIN counters /\ k \notin missed[s] BY <1>1, <1>2, <2>2
    <3>2. QED BY <1>1, <2>1, <3>1 DEF TookAll
  <2>3. ASSUME LogKey \notin missed'[s] PROVE log'[s] = Kept(logged', Enabled)
    <3>1. s \notin throwing /\ LogKey \notin missed[s] BY <1>2, <2>3 DEF LogKey
    <3>2. log[s] = Kept(logged, Enabled) BY <2>1, <3>1 DEF TookAll
    <3>3. s \in Reached(throwing) BY <3>1 DEF Reached
    <3>4. log'[s] = IF level \in Enabled THEN Append(log[s], level) ELSE log[s] BY <1>2, <3>3
    <3>5. QED BY <1>4, <3>2, <3>4
  <2>4. QED BY <2>2, <2>3 DEF TookAll, Enabled
<1>6. QED BY <1>1, <1>3, <1>5 DEF Emissions, Agreed

\* A call begins when all of the last one is delivered.
LEMMA RecordFollows ==
    ASSUME SinksInv, NEW m, NEW s, NEW list, Emissions(list), Record(m, s, list)
    PROVE  SinksInv'
<1>1. UNCHANGED <<counters, seen, missed, log, logged>> /\ pending' = list BY DEF Record
<1>2. Emissions(pending)' BY <1>1 DEF Emissions, Agreed
<1>3. QED BY <1>1, <1>2 DEF SinksInv, TookAll

-----------------------------------------------------------------------------
(* What the counters add up to.                                            *)

TotalOf(c, N) == SumOver(c, {key \in DOMAIN c : key[1] \in N})

LEMMA TotalMoves ==
    ASSUME NEW c, IsFiniteSet(DOMAIN c), \A k \in DOMAIN c : c[k] \in Nat, NEW key, NEW d \in Nat,
           NEW m, m = With(c, key, ValueOf(c, key) + d)
    PROVE  /\ IsFiniteSet(DOMAIN m) /\ \A k \in DOMAIN m : m[k] \in Nat
           /\ \A N : /\ TotalOf(c, N) \in Nat
                     /\ TotalOf(m, N) = TotalOf(c, N) + IF key[1] \in N THEN d ELSE 0
<1> DEFINE v == ValueOf(c, key)
<1>1. v \in Nat /\ (key \in DOMAIN c => v = c[key]) /\ (key \notin DOMAIN c => v = 0) BY DEF ValueOf
<1> HIDE DEF v
<1>2. DOMAIN m = DOMAIN c \cup {key} /\ m[key] = v + d /\ \A k \in DOMAIN c : k # key => m[k] = c[k]
  BY DEF With, v
<1>3. IsFiniteSet(DOMAIN m) BY <1>2, FS_AddElement
<1>4. \A k \in DOMAIN m : m[k] \in Nat BY <1>1, <1>2
<1>5. ASSUME NEW N
      PROVE  TotalOf(c, N) \in Nat /\ TotalOf(m, N) = TotalOf(c, N) + IF key[1] \in N THEN d ELSE 0
  <2> DEFINE K == {k \in DOMAIN c : k[1] \in N}
             M == {k \in DOMAIN m : k[1] \in N}
             L == K \ {key}
  <2>1. IsFiniteSet(K) /\ IsFiniteSet(L)
    <3>1. K \subseteq DOMAIN c /\ L \subseteq DOMAIN c OBVIOUS
    <3> HIDE DEF K, L
    <3>2. QED BY <3>1, FS_Subset
  <2>2. (\A k \in K : c[k] \in Nat) /\ \A k \in L : c[k] \in Nat /\ c[k] = m[k] BY <1>2
  <2>3. TotalOf(c, N) = SumOver(c, K) /\ TotalOf(m, N) = SumOver(m, M) BY DEF TotalOf
  <2>4. SumOver(c, K) \in Nat
    <3> HIDE DEF K
    <3>1. QED BY <2>1, <2>2, SumSame
  <2>5. CASE key[1] \notin N
    <3>1. M = K /\ \A k \in K : c[k] \in Nat /\ c[k] = m[k] BY <1>2, <2>5
    <3> HIDE DEF K, M
    <3>2. SumOver(c, K) = SumOver(m, K) BY <2>1, <3>1, SumSame
    <3>3. QED BY <2>3, <2>4, <2>5, <3>1, <3>2
  <2>6. CASE key[1] \in N
    <3>1. M = L \cup {key} /\ key \notin L BY <1>2, <2>6
    <3>2. \A k \in L \cup {key} : m[k] \in Nat BY <1>2, <1>4
    <3>3. SumOver(c, L) = SumOver(m, L) /\ SumOver(c, L) \in Nat
      <4> HIDE DEF L
      <4>1. QED BY <2>1, <2>2, SumSame
    <3>4. SumOver(m, M) = SumOver(m, L) + (v + d)
      <4> HIDE DEF L, M
      <4>1. SumOver(m, L \cup {key}) = SumOver(m, L) + m[key] BY <2>1, <3>1, <3>2, SumMore
      <4>2. QED BY <1>2, <3>1, <4>1
    <3>5. SumOver(c, K) = SumOver(c, L) + v
      <4>1. CASE key \in DOMAIN c
        <5>1. K = L \cup {key} BY <2>6, <4>1
        <5>2. \A k \in L \cup {key} : c[k] \in Nat BY <4>1
        <5> HIDE DEF K, L
        <5>3. SumOver(c, L \cup {key}) = SumOver(c, L) + c[key] BY <2>1, <3>1, <5>2, SumMore
        <5>4. QED BY <1>1, <4>1, <5>1, <5>3
      <4>2. CASE key \notin DOMAIN c
        <5>1. K = L BY <4>2
        <5> HIDE DEF K, L
        <5>2. QED BY <1>1, <3>3, <4>2, <5>1
      <4>3. QED BY <4>1, <4>2
    <3> HIDE DEF K, L, M
    <3>6. QED BY <1>1, <2>3, <2>4, <2>6, <3>3, <3>4, <3>5
  <2>7. QED BY <2>5, <2>6
<1>6. QED BY <1>3, <1>4, <1>5

\* The calls of a method and the rows reported as evicted, with one call more.
Grows(h, g, call) ==
    /\ \E D : g \in Seq(D)
    /\ \A i \in DOMAIN g : EvictedBy(g[i]) \in Nat
    /\ \A method :
          Cardinality({i \in DOMAIN g : g[i].method = method})
              = Cardinality({i \in DOMAIN h : h[i].method = method})
                + IF call.method = method THEN 1 ELSE 0
    /\ SumOver([i \in DOMAIN g |-> EvictedBy(g[i])], DOMAIN g)
           = SumOver([i \in DOMAIN h |-> EvictedBy(h[i])], DOMAIN h) + EvictedBy(call)

LEMMA HistoryGrows ==
    ASSUME NEW C, NEW h \in Seq(C), NEW call, NEW g, g = Append(h, call),
           \A i \in DOMAIN h : EvictedBy(h[i]) \in Nat, EvictedBy(call) \in Nat
    PROVE  Grows(h, g, call)
<1> DEFINE n == Len(h)
           D == C \cup {call}
<1>1. n \in Nat /\ DOMAIN h = 1 .. n /\ IsFiniteSet(1 .. n) BY FS_Interval
<1>2. h \in Seq(D) /\ call \in D OBVIOUS
<1>3. g \in Seq(D) /\ Len(g) = n + 1 /\ g[n + 1] = call /\ \A i \in 1 .. n : g[i] = h[i]
  <2> HIDE DEF D
  <2>1. QED BY <1>2, AppendProperties
<1>4. DOMAIN g = 1 .. n + 1 BY <1>3
<1> HIDE DEF n
<1>5. 1 .. n + 1 = (1 .. n) \cup {n + 1} /\ n + 1 \notin 1 .. n BY <1>1
<1>6. DOMAIN g = DOMAIN h \cup {n + 1} /\ n + 1 \notin DOMAIN h /\ IsFiniteSet(DOMAIN h)
      /\ \A i \in DOMAIN h : g[i] = h[i]
  BY <1>1, <1>3, <1>4, <1>5
<1>7. \A i \in DOMAIN g : EvictedBy(g[i]) \in Nat BY <1>3, <1>6
<1>8. ASSUME NEW method
      PROVE  Cardinality({i \in DOMAIN g : g[i].method = method})
                 = Cardinality({i \in DOMAIN h : h[i].method = method})
                   + IF call.method = method THEN 1 ELSE 0
  <2> DEFINE H == {i \in DOMAIN h : h[i].method = method}
             G == {i \in DOMAIN g : g[i].method = method}
  <2>1. IsFiniteSet(H) /\ n + 1 \notin H
    <3>1. H \subseteq DOMAIN h OBVIOUS
    <3> HIDE DEF H
    <3>2. QED BY <1>6, <3>1, FS_Subset
  <2>2. Cardinality(H) \in Nat
    <3> HIDE DEF H
    <3>1. QED BY <2>1, FS_CardinalityType
  <2>3. G = IF call.method = method THEN H \cup {n + 1} ELSE H BY <1>3, <1>6
  <2> HIDE DEF G, H
  <2>4. Cardinality(H \cup {n + 1}) = Cardinality(H) + 1 BY <2>1, FS_AddElement
  <2>5. Cardinality(G) = Cardinality(H) + IF call.method = method THEN 1 ELSE 0 BY <2>2, <2>3, <2>4
  <2>6. QED BY <2>5 DEF G, H
<1>9. SumOver([i \in DOMAIN g |-> EvictedBy(g[i])], DOMAIN g)
          = SumOver([i \in DOMAIN h |-> EvictedBy(h[i])], DOMAIN h) + EvictedBy(call)
  <2> DEFINE H == DOMAIN h
             e == [i \in DOMAIN h |-> EvictedBy(h[i])]
             f == [i \in DOMAIN g |-> EvictedBy(g[i])]
  <2>1. \A i \in H : e[i] \in Nat /\ e[i] = f[i] BY <1>6
  <2>2. (\A i \in H \cup {n + 1} : f[i] \in Nat) /\ f[n + 1] = EvictedBy(call)
    BY <1>3, <1>6, <1>7
  <2>3. IsFiniteSet(H) /\ n + 1 \notin H /\ DOMAIN g = H \cup {n + 1} BY <1>6
  <2> HIDE DEF H, e, f
  <2>4. SumOver(e, H) = SumOver(f, H) BY <2>1, <2>3, SumSame
  <2>5. SumOver(f, H \cup {n + 1}) = SumOver(f, H) + f[n + 1] BY <2>2, <2>3, SumMore
  <2>6. SumOver(f, DOMAIN g) = SumOver(e, H) + EvictedBy(call) BY <2>2, <2>3, <2>4, <2>5
  <2>7. QED BY <2>6 DEF H, e, f
<1>10. QED BY <1>3, <1>7, <1>8, <1>9 DEF Grows

\* What will have been counted when the emissions of the call in progress are delivered.
Expected(N) == TotalOf(counters, N) + Due(pending, N, {})

\* What ReportsAddUp says between two calls, of what is expected.
Balances ==
    /\ \A method \in DOMAIN Split : Expected(Split[method]) = Calls(method)
    /\ Expected({"toolCall"}) = Expected({"toolSuccess", "toolFailure"})
    /\ Expected({"approvalRequested"}) = Expected({"approvalGranted", "approvalDenied"})
    /\ Expected({"schedulerTickErrors"}) <= Expected({"schedulerTicks"})
    /\ Expected({"memoryEvictionEvicted"}) = SumOver(Evicted, DOMAIN history)

\* A sink that took every observation of some tags will have as many as are counted.
Matches(s, pair, t) ==
    <<pair[2], t>> \notin missed[s] =>
        ValueOf(seen[s], <<pair[2], t>>) + Due(pending, {pair[2]}, {t})
            = ValueOf(counters, <<pair[1], t>>) + Due(pending, {pair[1]}, {t})

CountersOK ==
    /\ IsFiniteSet(DOMAIN counters)
    /\ \A key \in DOMAIN counters : counters[key] \in Nat /\ key = <<key[1], key[2]>>
    /\ \A s \in Sinks : \A key \in DOMAIN seen[s] : seen[s][key] \in Nat

HistoryOK ==
    /\ \E C : history \in Seq(C)
    /\ \A i \in DOMAIN history : EvictedBy(history[i]) \in Nat

SumsInv ==
    /\ SinksInv
    /\ CountersOK
    /\ HistoryOK
    /\ Balances
    /\ \A s \in Sinks, pair \in Paired : \A t : Matches(s, pair, t)

\* The names by which counters are added up are of no observation.
LEMMA Names ==
    /\ DOMAIN Split = {"recordTool", "recordApproval", "recordMemoryDedup", "recordMemoryEvolution",
                       "recordTaskTerminal", "recordTelegramMessage"}
    /\ \A method \in DOMAIN Split : Split[method] \cap Observed = {}
    /\ {"toolCall", "toolSuccess", "toolFailure", "approvalRequested", "approvalGranted",
        "approvalDenied", "schedulerTickErrors", "schedulerTicks", "memoryEvictionEvicted"}
           \cap Observed = {}
    /\ \A pair \in Paired : pair[1] \notin Observed /\ pair[2] \in Observed
<1>1. DOMAIN Split = {"recordTool", "recordApproval", "recordMemoryDedup", "recordMemoryEvolution",
                      "recordTaskTerminal", "recordTelegramMessage"}
  BY DEF Split
<1>2. \A method \in DOMAIN Split : Split[method] \cap Observed = {} BY <1>1 DEF Split, Observed
<1>3. QED BY <1>1, <1>2 DEF Observed, Paired

\* A delivery changes nothing of what is expected.
LEMMA EmitBalances ==
    ASSUME SumsInv, Emit
    PROVE  SumsInv'
<1> DEFINE e == Head(pending)
           key == <<e.name, e.tags>>
           next == ValueOf(counters, key) + e.delta
           Shown(s) == IF e.counter THEN next ELSE ValueOf(seen[s], key) + 1
<1>1. SinksInv' /\ Emissions(pending) /\ Emissions(pending') /\ (\A k \in DOMAIN counters : k[1] \notin Observed)
  BY EmitFollows DEF SumsInv, SinksInv
<1>2. /\ pending # <<>> /\ pending' = Tail(pending) /\ UNCHANGED history
      /\ counters' = IF e.counter THEN With(counters, key, next) ELSE counters
  BY DEF Emit
<1>3. PICK throwing \in SUBSET Sinks :
          /\ seen' = [s \in Sinks |-> IF s \in Reached(throwing)
                                      THEN With(seen[s], key, Shown(s)) ELSE seen[s]]
          /\ missed' = [s \in Sinks |-> IF s \in throwing THEN missed[s] \cup {key}
                                        ELSE IF e.counter THEN missed[s] \ {key} ELSE missed[s]]
  BY DEF Emit
<1>4. Agreed(e)
  <2> HIDE DEF e
  <2>1. QED BY <1>1, <1>2, EmissionsAre DEF e
<1>5. /\ \A N, T : Due(pending, N, T) = Weight(e, N, T) + Due(pending', N, T)
      /\ \A N, T : Due(pending', N, T) \in Nat /\ Weight(e, N, T) \in Nat
  <2>1. \A N, T : Due(pending, N, T) = Weight(e, N, T) + Due(pending', N, T) BY <1>1, <1>2, DueIs
  <2>2. \A N, T : Due(pending', N, T) \in Nat BY <1>1, DueIs
  <2> HIDE DEF e
  <2>3. \A N, T : Weight(e, N, T) \in Nat BY <1>4 DEF Agreed, Weight
  <2>4. QED BY <2>1, <2>2, <2>3
<1>6. /\ e.delta \in Nat /\ e.counter \in BOOLEAN
      /\ (e.counter => e.name \notin Observed) /\ (~ e.counter => e.name \in Observed)
  BY <1>4 DEF Agreed
<1>7. key[1] = e.name /\ key = <<key[1], key[2]>> /\ key[2] = e.tags OBVIOUS
<1> HIDE DEF e
<1>8. CountersOK'
  <2>1. CountersOK /\ ValueOf(counters, key) \in Nat /\ next \in Nat BY <1>6 DEF SumsInv, CountersOK, ValueOf
  <2> HIDE DEF next, key
  <2>2. IsFiniteSet(DOMAIN counters') /\ \A k \in DOMAIN counters' : counters'[k] \in Nat /\ k = <<k[1], k[2]>>
    <3>1. CASE e.counter
      <4>1. DOMAIN counters' = DOMAIN counters \cup {key} BY <1>2, <3>1 DEF With
      <4>2. IsFiniteSet(DOMAIN counters') BY <2>1, <4>1, FS_AddElement DEF CountersOK
      <4>3. \A k \in DOMAIN counters' : counters'[k] \in Nat BY <1>2, <2>1, <3>1, <4>1 DEF With, CountersOK
      <4>4. \A k \in DOMAIN counters' : k = <<k[1], k[2]>>
        <5> TAKE k \in DOMAIN counters'
        <5>1. k \in DOMAIN counters \/ k = key BY <4>1
        <5>2. k \in DOMAIN counters => k = <<k[1], k[2]>> BY <2>1, Zenon DEF CountersOK
        <5>3. QED BY <1>7, <5>1, <5>2, Zenon
      <4>5. QED BY <4>2, <4>3, <4>4
    <3>2. CASE ~ e.counter BY <1>2, <2>1, <3>2, Zenon DEF CountersOK
    <3>3. QED BY <3>1, <3>2
  <2>3. ASSUME NEW s \in Sinks, NEW k \in DOMAIN seen'[s] PROVE seen'[s][k] \in Nat
    <3> DEFINE shown == Shown(s)
    <3>1. shown \in Nat BY <2>1 DEF CountersOK, ValueOf
    <3>2. seen'[s] = With(seen[s], key, shown) \/ seen'[s] = seen[s] BY <1>3
    <3> HIDE DEF shown
    <3>3. QED BY <2>1, <2>3, <3>1, <3>2 DEF With, CountersOK
  <2>4. QED BY <2>2, <2>3 DEF CountersOK
<1>9. ASSUME NEW N, N \cap Observed = {} PROVE Expected(N)' = Expected(N)
  <2>1. /\ TotalOf(counters, N) \in Nat
        /\ TotalOf(counters', N) = TotalOf(counters, N) + Weight(e, N, {})
    <3>1. IsFiniteSet(DOMAIN counters) /\ \A k \in DOMAIN counters : counters[k] \in Nat BY DEF SumsInv, CountersOK
    <3> DEFINE m == With(counters, key, next)
    <3>2. TotalOf(counters, N) \in Nat
          /\ TotalOf(m, N) = TotalOf(counters, N) + IF key[1] \in N THEN e.delta ELSE 0
      <4> HIDE DEF m, key
      <4>1. m = With(counters, key, ValueOf(counters, key) + e.delta) BY DEF m
      <4>2. QED BY <1>6, <3>1, <4>1, TotalMoves
    <3> HIDE DEF m
    <3>3. CASE e.counter
      <4>1. counters' = m BY <1>2, <3>3 DEF m
      <4>2. Weight(e, N, {}) = IF e.name \in N THEN e.delta ELSE 0 BY <3>3 DEF Weight
      <4>3. QED BY <1>7, <3>2, <4>1, <4>2
    <3>4. CASE ~ e.counter
      <4>1. counters' = counters BY <1>2, <3>4
      <4>2. e.name \notin N BY <1>6, <1>9, <3>4
      <4>3. Weight(e, N, {}) = 0 BY <4>2 DEF Weight
      <4>4. QED BY <3>2, <4>1, <4>3
    <3>5. QED BY <3>3, <3>4
  <2>2. Due(pending, N, {}) = Weight(e, N, {}) + Due(pending', N, {}) BY <1>5
  <2>3. Due(pending', N, {}) \in Nat /\ Weight(e, N, {}) \in Nat BY <1>5
  <2>4. TotalOf(counters', N) + Due(pending', N, {}) = TotalOf(counters, N) + Due(pending, N, {})
    BY <2>1, <2>2, <2>3
  <2>5. QED BY <2>4 DEF Expected
<1>10. Balances'
  <2>1. \A method \in DOMAIN Split : Expected(Split[method])' = Expected(Split[method]) BY <1>9, Names
  <2>2. /\ Expected({"toolCall"})' = Expected({"toolCall"})
        /\ Expected({"toolSuccess", "toolFailure"})' = Expected({"toolSuccess", "toolFailure"})
        /\ Expected({"approvalRequested"})' = Expected({"approvalRequested"})
        /\ Expected({"approvalGranted", "approvalDenied"})' = Expected({"approvalGranted", "approvalDenied"})
        /\ Expected({"schedulerTickErrors"})' = Expected({"schedulerTickErrors"})
        /\ Expected({"schedulerTicks"})' = Expected({"schedulerTicks"})
        /\ Expected({"memoryEvictionEvicted"})' = Expected({"memoryEvictionEvicted"})
    BY <1>9 DEF Observed
  <2>3. (\A method : Calls(method)' = Calls(method)) /\ SumOver(Evicted, DOMAIN history)' = SumOver(Evicted, DOMAIN history)
    BY <1>2 DEF Calls, Evicted
  <2>4. Balances BY DEF SumsInv
  <2> HIDE DEF Expected, Calls, Evicted
  <2>5. QED BY <2>1, <2>2, <2>3, <2>4 DEF Balances
<1>11. ASSUME NEW s \in Sinks, NEW pair \in Paired, NEW t PROVE Matches(s, pair, t)'
  <2> DEFINE p == pair[1]
             q == pair[2]
             kp == <<p, t>>
             kq == <<q, t>>
  <2>1. p \notin Observed /\ q \in Observed BY Names
  <2>2. kp[1] = p /\ kq[1] = q /\ (key = kp => e.name = p /\ e.tags = t) /\ (key = kq => e.name = q /\ e.tags = t)
        /\ (e.name = p /\ e.tags = t => key = kp) /\ (e.name = q /\ e.tags = t => key = kq)
    OBVIOUS
  <2>3. SUFFICES ASSUME kq \notin missed'[s]
                 PROVE  ValueOf(seen'[s], kq) + Due(pending', {q}, {t}) = ValueOf(counters', kp) + Due(pending', {p}, {t})
    BY DEF Matches
  <2>4. Matches(s, pair, t) BY DEF SumsInv
  <2>5. kq \notin missed[s] => ValueOf(seen[s], kq) + Due(pending, {q}, {t}) = ValueOf(counters, kp) + Due(pending, {p}, {t})
    BY <2>4 DEF Matches
  <2>6. ValueOf(seen[s], kq) \in Nat /\ ValueOf(counters, kp) \in Nat BY DEF SumsInv, CountersOK, ValueOf
  <2> HIDE DEF p, q, kp, kq
  <2>7. /\ Weight(e, {q}, {t}) = IF key = kq THEN IF e.counter THEN e.delta ELSE 1 ELSE 0
        /\ Weight(e, {p}, {t}) = IF key = kp THEN IF e.counter THEN e.delta ELSE 1 ELSE 0
    BY <2>2 DEF Weight
  <2> HIDE DEF key
  <2>8. kq \notin missed[s] /\ (key = kq => ~ e.counter /\ s \notin throwing) /\ (key = kp => e.counter)
    <3>1. key = kq => ~ e.counter BY <1>6, <2>1, <2>2
    <3>2. key = kp => e.counter BY <1>6, <2>1, <2>2
    <3>3. QED BY <1>3, <2>3, <3>1, <3>2
  <2>9. ValueOf(seen'[s], kq) = ValueOf(seen[s], kq) + Weight(e, {q}, {t})
    <3> DEFINE shown == Shown(s)
    <3>1. CASE key = kq
      <4>1. s \in Reached(throwing) /\ shown = ValueOf(seen[s], kq) + 1 BY <2>8, <3>1 DEF Reached
      <4>2. seen'[s] = With(seen[s], key, shown) BY <1>3, <4>1
      <4> HIDE DEF shown
      <4>3. ValueOf(seen'[s], kq) = shown BY <3>1, <4>2 DEF With, ValueOf
      <4>4. QED BY <2>7, <2>8, <3>1, <4>1, <4>3
    <3>2. CASE key # kq
      <4>1. seen'[s] = With(seen[s], key, shown) \/ seen'[s] = seen[s] BY <1>3
      <4> HIDE DEF shown
      <4>2. ValueOf(seen'[s], kq) = ValueOf(seen[s], kq) BY <3>2, <4>1 DEF With, ValueOf
      <4>3. QED BY <2>6, <2>7, <3>2, <4>2
    <3>3. QED BY <3>1, <3>2
  <2>10. ValueOf(counters', kp) = ValueOf(counters, kp) + Weight(e, {p}, {t})
    <3>1. CASE key = kp
      <4>1. counters' = With(counters, key, next) BY <1>2, <2>8, <3>1
      <4> HIDE DEF next
      <4>2. ValueOf(counters', kp) = next BY <3>1, <4>1 DEF With, ValueOf
      <4>3. QED BY <2>7, <2>8, <3>1, <4>2 DEF next
    <3>2. CASE key # kp
      <4>1. counters' = With(counters, key, next) \/ counters' = counters BY <1>2
      <4> HIDE DEF next
      <4>2. ValueOf(counters', kp) = ValueOf(counters, kp) BY <3>2, <4>1 DEF With, ValueOf
      <4>3. QED BY <2>6, <2>7, <3>2, <4>2
    <3>3. QED BY <3>1, <3>2
  <2>11. /\ Due(pending, {q}, {t}) = Weight(e, {q}, {t}) + Due(pending', {q}, {t})
         /\ Due(pending, {p}, {t}) = Weight(e, {p}, {t}) + Due(pending', {p}, {t})
         /\ Due(pending', {q}, {t}) \in Nat /\ Due(pending', {p}, {t}) \in Nat
         /\ Weight(e, {q}, {t}) \in Nat /\ Weight(e, {p}, {t}) \in Nat
    BY <1>5
  <2>12. QED BY <2>5, <2>6, <2>8, <2>9, <2>10, <2>11
<1>12. HistoryOK' BY <1>2 DEF SumsInv, HistoryOK
<1>13. QED BY <1>1, <1>8, <1>10, <1>11, <1>12 DEF SumsInv

\* What a call of a method emits moves what is expected as its sample says.
Balanced(m, s, list) ==
    /\ \A method \in DOMAIN Split : Due(list, Split[method], {}) = IF m = method THEN 1 ELSE 0
    /\ Due(list, {"toolCall"}, {}) = Due(list, {"toolSuccess", "toolFailure"}, {})
    /\ Due(list, {"approvalRequested"}, {}) = Due(list, {"approvalGranted", "approvalDenied"}, {})
    /\ Due(list, {"schedulerTickErrors"}, {}) <= Due(list, {"schedulerTicks"}, {})
    /\ Due(list, {"memoryEvictionEvicted"}, {}) = IF m = "recordMemoryEviction" THEN s.evicted ELSE 0
    /\ \A pair \in Paired : \A t : Due(list, {pair[2]}, {t}) = Due(list, {pair[1]}, {t})

LEMMA RecordBalances ==
    ASSUME SumsInv, NEW m, NEW s, NEW list, Emissions(list), Balanced(m, s, list), Record(m, s, list)
    PROVE  SumsInv'
<1> DEFINE call == [method |-> m, sample |-> s]
<1>1. /\ UNCHANGED <<counters, seen, missed, log, logged>> /\ pending' = list /\ pending = <<>>
      /\ history' = Append(history, call)
  BY DEF Record, MayCall
<1>2. SinksInv' BY RecordFollows DEF SumsInv
<1>3. CountersOK' BY <1>1 DEF SumsInv, CountersOK
<1>4. call.method = m OBVIOUS
<1>5. EvictedBy(call) \in Nat /\ Due(list, {"memoryEvictionEvicted"}, {}) = EvictedBy(call)
  <2>1. Due(list, {"memoryEvictionEvicted"}, {}) \in Nat BY DueIs
  <2>2. Due(list, {"memoryEvictionEvicted"}, {}) = EvictedBy(call) BY DEF Balanced, EvictedBy
  <2>3. QED BY <2>1, <2>2, Zenon
<1> HIDE DEF call
<1>6. /\ HistoryOK' /\ \A method : Calls(method)' = Calls(method) + IF m = method THEN 1 ELSE 0
      /\ SumOver(Evicted, DOMAIN history)' = SumOver(Evicted, DOMAIN history) + EvictedBy(call)
  <2>1. PICK C : history \in Seq(C) BY DEF SumsInv, HistoryOK
  <2>2. \A i \in DOMAIN history : EvictedBy(history[i]) \in Nat BY DEF SumsInv, HistoryOK
  <2> DEFINE g == history'
  <2>3. g = Append(history, call) BY <1>1
  <2> HIDE DEF g
  <2>4. Grows(history, g, call) BY <1>5, <2>1, <2>2, <2>3, HistoryGrows
  <2>5. HistoryOK' BY <2>4 DEF HistoryOK, g, EvictedBy, Grows
  <2>6. \A method : Calls(method)' = Calls(method) + IF m = method THEN 1 ELSE 0
    BY <1>4, <2>4 DEF Calls, g, Grows
  <2>7. SumOver(Evicted, DOMAIN history)' = SumOver(Evicted, DOMAIN history) + EvictedBy(call)
    BY <2>4 DEF Evicted, g, EvictedBy, Grows
  <2>8. QED BY <2>5, <2>6, <2>7
<1>7. \A N : /\ Expected(N) = TotalOf(counters, N) /\ Expected(N) \in Nat
            /\ Expected(N)' = Expected(N) + Due(list, N, {}) /\ Due(list, N, {}) \in Nat
  <2> TAKE N
  <2>1. TotalOf(counters, N) \in Nat
    <3>1. IsFiniteSet(DOMAIN counters) /\ \A k \in DOMAIN counters : counters[k] \in Nat BY DEF SumsInv, CountersOK
    <3>2. PICK c : c = With(counters, 0, ValueOf(counters, 0) + 0) OBVIOUS
    <3>3. 0 \in Nat OBVIOUS
    <3>4. QED BY <3>1, <3>2, <3>3, TotalMoves
  <2>2. Due(pending, N, {}) = 0 /\ Due(list, N, {}) \in Nat BY <1>1, DueIs
  <2>3. Expected(N) = TotalOf(counters, N) BY <2>1, <2>2 DEF Expected
  <2>4. Expected(N)' = TotalOf(counters, N) + Due(list, N, {}) BY <1>1 DEF Expected
  <2>5. QED BY <2>1, <2>2, <2>3, <2>4
<1>8. Balances'
  <2>1. \A method \in DOMAIN Split : (Expected(Split[method]) = Calls(method))'
    <3> TAKE method \in DOMAIN Split
    <3>1. Expected(Split[method]) = Calls(method) BY DEF SumsInv, Balances
    <3>2. Due(list, Split[method], {}) = IF m = method THEN 1 ELSE 0 BY DEF Balanced
    <3>3. Calls(method)' = Calls(method) + IF m = method THEN 1 ELSE 0 BY <1>6
    <3>4. Expected(Split[method])' = Expected(Split[method]) + Due(list, Split[method], {}) BY <1>7
    <3>5. QED BY <3>1, <3>2, <3>3, <3>4
  <2>2. /\ (Expected({"toolCall"}) = Expected({"toolSuccess", "toolFailure"}))'
        /\ (Expected({"approvalRequested"}) = Expected({"approvalGranted", "approvalDenied"}))'
    BY <1>7 DEF SumsInv, Balances, Balanced
  <2>3. (Expected({"schedulerTickErrors"}) <= Expected({"schedulerTicks"}))'
    <3> DEFINE x == Expected({"schedulerTickErrors"})
               y == Expected({"schedulerTicks"})
               a == Due(list, {"schedulerTickErrors"}, {})
               b == Due(list, {"schedulerTicks"}, {})
    <3>1. x <= y /\ a <= b BY DEF SumsInv, Balances, Balanced
    <3>2. x \in Nat /\ y \in Nat /\ a \in Nat /\ b \in Nat BY <1>7
    <3>3. x' = x + a /\ y' = y + b BY <1>7
    <3> SUFFICES x' <= y' OBVIOUS
    <3> HIDE DEF x, y, a, b
    <3>4. QED BY <3>1, <3>2, <3>3
  <2>4. (Expected({"memoryEvictionEvicted"}) = SumOver(Evicted, DOMAIN history))'
    <3>1. Expected({"memoryEvictionEvicted"}) = SumOver(Evicted, DOMAIN history) BY DEF SumsInv, Balances
    <3>2. Expected({"memoryEvictionEvicted"})' = Expected({"memoryEvictionEvicted"}) + EvictedBy(call) BY <1>5, <1>7
    <3>3. QED BY <1>6, <3>1, <3>2
  <2>5. QED BY <2>1, <2>2, <2>3, <2>4 DEF Balances
<1>9. ASSUME NEW z \in Sinks, NEW pair \in Paired, NEW t PROVE Matches(z, pair, t)'
  <2>1. Matches(z, pair, t) BY DEF SumsInv
  <2>2. /\ Due(pending, {pair[2]}, {t}) = 0 /\ Due(pending, {pair[1]}, {t}) = 0
        /\ Due(list, {pair[2]}, {t}) = Due(list, {pair[1]}, {t})
    BY <1>1, DueIs DEF Balanced
  <2>3. ValueOf(seen[z], <<pair[2], t>>) \in Nat /\ ValueOf(counters, <<pair[1], t>>) \in Nat
    BY DEF SumsInv, CountersOK, ValueOf
  <2>4. QED BY <1>1, <2>1, <2>2, <2>3 DEF Matches
<1>10. QED BY <1>2, <1>3, <1>6, <1>8, <1>9 DEF SumsInv

-----------------------------------------------------------------------------
(* The reports.                                                            *)

\* The methods that the sums are about, and the counters.
Summed ==
    {"recordTool", "recordApproval", "recordMemoryDedup", "recordMemoryEvolution",
     "recordTaskTerminal", "recordTelegramMessage", "recordMemoryEviction"}
Related ==
    {"toolCall", "toolSuccess", "toolFailure", "approvalRequested", "approvalGranted",
     "approvalDenied", "memoryDedupMerged", "memoryDedupSkipped", "memoryEvolutionApplied",
     "memoryEvolutionSkipped", "tasksCompleted", "tasksFailed", "tasksBlocked", "tasksCancelled",
     "telegramMessagesReceived", "telegramMessagesSent", "schedulerTickErrors", "schedulerTicks",
     "memoryEvictionEvicted", "memoryReflection", "memoryLinkGenerator", "memoryVotingRunner",
     "memoryRetrieveRewriter", "stepOutcome"}

\* A report of some emissions, which balance.
Fits(m, s, list) == Emissions(list) /\ Balanced(m, s, list)
Reports == \E m, s, list : Fits(m, s, list) /\ Record(m, s, list)

\* Most are of one counter that no sum is about.
Plain(name) == name \notin Observed \cup {"log"} \cup Related
Counts ==
    \E m, s, name, t : \E n \in Nat :
        Plain(name) /\ m \notin Summed /\ Record(m, s, <<Counter(name, n, t)>>)

LEMMA CountsReport ==
    ASSUME Counts
    PROVE  Reports
<1>1. PICK m, s, name, t : \E n \in Nat :
          Plain(name) /\ m \notin Summed /\ Record(m, s, <<Counter(name, n, t)>>)
  BY DEF Counts
<1>2. PICK n \in Nat : Plain(name) /\ m \notin Summed /\ Record(m, s, <<Counter(name, n, t)>>)
  BY <1>1
<1> DEFINE a == Counter(name, n, t)
           list == <<a>>
<1>3. Agreed(a) BY <1>2, Named DEF Plain
<1>4. Emissions(list) BY <1>3, EmissionsAre
<1>5. \A N, T : Due(list, N, T) = Adds(name, t, n, N, T)
  <2> HIDE DEF Agreed
  <2>1. QED BY <1>3, DueIs, Weights
<1> HIDE DEF list
<1>6. Balanced(m, s, list)
  <2>1. \A method \in DOMAIN Split : m # method /\ name \notin Split[method]
    BY <1>2, Names DEF Plain, Related, Summed, Split
  <2>2. \A pair \in Paired : name # pair[1] /\ name # pair[2]
    BY <1>2, Names DEF Plain, Related, Paired
  <2>3. m # "recordMemoryEviction" BY <1>2 DEF Summed
  <2>4. QED BY <1>2, <1>5, <2>1, <2>2, <2>3 DEF Balanced, Adds, Plain, Related
<1>7. QED BY <1>2, <1>4, <1>6 DEF Reports, Fits, list

LEMMA OneCounter ==
    ASSUME  \/ RecordLlmFailure \/ RecordBatchTrimmed
            \/ RecordMemoryClockSkew \/ RecordMemoryEmbeddingsGenerated
            \/ RecordMemoryEmbeddingsFallback \/ RecordMemoryEmbeddingsBruteForceOverflow
            \/ RecordMemoryEmbeddingsDaemonHealth \/ RecordMemoryLinkExpansion
            \/ RecordLessonCreated \/ RecordLessonDeprecated
            \/ RecordLessonsRecalled \/ RecordProcedureCreated \/ RecordProcedureDeprecated
            \/ RecordProceduresRecalled \/ RecordProcedureUsed \/ RecordProfileSuperseded
            \/ RecordVotingApplied \/ RecordVotingRejected \/ RecordVotingDecayed
            \/ RecordRetrieveRewriterGateFired \/ RecordRetrieveRewriterGateSkipped
            \/ RecordTaskCreated \/ RecordTaskStarted \/ RecordTaskRetry \/ RecordTaskScheduled
            \/ RecordTaskRecurringRequeued \/ RecordTaskSessionRecreated
            \/ RecordTaskSessionAutoCreated \/ RecordWebhookReceived \/ RecordTelegramUp
            \/ RecordTelegramDown \/ RecordTelegramApprovalResolved
    PROVE  Counts
<1> USE DEF Counts, Plain, Observed, Related, Summed
<1>1. CASE RecordLlmFailure \/ RecordBatchTrimmed
  BY <1>1 DEF RecordLlmFailure, RecordBatchTrimmed
<1>2. CASE RecordMemoryClockSkew \/ RecordMemoryEmbeddingsGenerated \/
         RecordMemoryEmbeddingsFallback \/ RecordMemoryEmbeddingsBruteForceOverflow \/
         RecordMemoryEmbeddingsDaemonHealth \/ RecordMemoryLinkExpansion
  BY <1>2 DEF RecordMemoryClockSkew, RecordMemoryEmbeddingsGenerated,
              RecordMemoryEmbeddingsFallback, RecordMemoryEmbeddingsBruteForceOverflow,
              RecordMemoryEmbeddingsDaemonHealth, RecordMemoryLinkExpansion
<1>3. CASE RecordLessonCreated \/ RecordLessonDeprecated \/ RecordProcedureCreated \/
         RecordProcedureDeprecated \/ RecordProcedureUsed \/ RecordProfileSuperseded
  BY <1>3 DEF RecordLessonCreated, RecordLessonDeprecated, RecordProcedureCreated,
              RecordProcedureDeprecated, RecordProcedureUsed, RecordProfileSuperseded
<1>4. CASE RecordVotingApplied \/ RecordVotingRejected \/ RecordRetrieveRewriterGateFired \/
         RecordRetrieveRewriterGateSkipped
  BY <1>4 DEF RecordVotingApplied, RecordVotingRejected, RecordRetrieveRewriterGateFired,
              RecordRetrieveRewriterGateSkipped
<1>5. CASE RecordTaskCreated \/ RecordTaskStarted \/ RecordTaskRetry \/ RecordTaskScheduled \/
         RecordTaskRecurringRequeued \/ RecordTaskSessionRecreated \/ RecordTaskSessionAutoCreated
         \/ RecordWebhookReceived
  BY <1>5 DEF RecordTaskCreated, RecordTaskStarted, RecordTaskRetry, RecordTaskScheduled,
              RecordTaskRecurringRequeued, RecordTaskSessionRecreated, RecordTaskSessionAutoCreated,
              RecordWebhookReceived
<1>6. CASE RecordTelegramUp \/ RecordTelegramDown \/ RecordTelegramApprovalResolved
  BY <1>6 DEF RecordTelegramUp, RecordTelegramDown, RecordTelegramApprovalResolved
\* Of these the number is an amount.
<1>7. CASE RecordLessonsRecalled
  <2>1. PICK s \in MemoryLessonRecalledSample :
            Record("recordLessonsRecalled", s,
                <<Counter("memoryLessonsRecalled", s.hits, Tags(s, {"sessionId"}))>>)
    BY <1>7 DEF RecordLessonsRecalled
  <2>2. s.hits \in Nat BY MetricsAssumption DEF MemoryLessonRecalledSample
  <2>3. QED BY <2>1, <2>2
<1>8. CASE RecordProceduresRecalled
  <2>1. PICK s \in MemoryProcedureRecalledSample :
            Record("recordProceduresRecalled", s,
                <<Counter("memoryProceduresRecalled", s.hits, Tags(s, {"sessionId"}))>>)
    BY <1>8 DEF RecordProceduresRecalled
  <2>2. s.hits \in Nat BY MetricsAssumption DEF MemoryProcedureRecalledSample
  <2>3. QED BY <2>1, <2>2
<1>9. CASE RecordVotingDecayed
  <2>1. PICK s \in MemoryVotingDecayedSample : Record("recordVotingDecayed", s,
            <<Counter("memoryVotingDecayed", s.rows, [kind |-> s.kind, factor |-> ToFixed(s.factor)])>>)
    BY <1>9 DEF RecordVotingDecayed
  <2>2. s.rows \in Nat BY MetricsAssumption DEF MemoryVotingDecayedSample
  <2>3. QED BY <2>1, <2>2
<1>10. QED BY <1>1, <1>2, <1>3, <1>4, <1>5, <1>6, <1>7, <1>8, <1>9

\* The reports of several, or of something observed.
LEMMA SeveralReport ==
    ASSUME \/ RecordStep \/ RecordLlmCall \/ RecordTool \/ RecordApproval
           \/ RecordReflection \/ RecordVotingRunner \/ RecordRetrieveRewriter
           \/ RecordConsolidationRun \/ RecordConsolidationDistillLatency
           \/ RecordRetrieveRewriterGateCosine \/ RecordTaskTerminal \/ RecordMemoryDedup
           \/ RecordTelegramMessage
    PROVE  Reports
<1> HIDE DEF Agreed
<1>1. CASE RecordStep
  <2>1. PICK s \in StepMetricSample : Record("recordStep", s,
            <<Observe("stepTokens", s), Observe("stepDuration", s), Counter("stepOutcome", 1, s)>>)
    BY <1>1 DEF RecordStep
  <2> DEFINE a == Observe("stepTokens", s)
             b == Observe("stepDuration", s)
             c == Counter("stepOutcome", 1, s)
  <2>2. Agreed(a) /\ Agreed(b) /\ Agreed(c) BY Named DEF Observed
  <2>3. \A N, T : Due(<<a, b, c>>, N, T)
                      = Adds("stepTokens", s, 1, N, T)
                        + (Adds("stepDuration", s, 1, N, T)
                        + Adds("stepOutcome", s, 1, N, T))
    BY <2>2, DueIs, Weights
  <2>4. Balanced("recordStep", s, <<a, b, c>>)
    BY <2>3, Names DEF Balanced, Adds, Split, Paired
  <2>5. Emissions(<<a, b, c>>) BY <2>2, EmissionsAre
  <2>6. QED BY <2>1, <2>4, <2>5 DEF Reports, Fits
<1>2. CASE RecordLlmCall
  <2>1. PICK s \in LlmMetricSample : Record("recordLlmCall", s,
            <<Observe("llmLatency", s), Observe("llmPromptTokens", s), Observe("llmCompletionTokens", s), Observe("kvCacheHit", Tags(s, {"sessionId"}))>>)
    BY <1>2 DEF RecordLlmCall
  <2> DEFINE a == Observe("llmLatency", s)
             b == Observe("llmPromptTokens", s)
             c == Observe("llmCompletionTokens", s)
             d == Observe("kvCacheHit", Tags(s, {"sessionId"}))
  <2>2. Agreed(a) /\ Agreed(b) /\ Agreed(c) /\ Agreed(d) BY Named DEF Observed
  <2>3. \A N, T : Due(<<a, b, c, d>>, N, T)
                      = Adds("llmLatency", s, 1, N, T)
                        + (Adds("llmPromptTokens", s, 1, N, T)
                        + (Adds("llmCompletionTokens", s, 1, N, T)
                        + Adds("kvCacheHit", Tags(s, {"sessionId"}), 1, N, T)))
    BY <2>2, DueIs, Weights
  <2>4. Balanced("recordLlmCall", s, <<a, b, c, d>>)
    BY <2>3, Names DEF Balanced, Adds, Split, Paired
  <2>5. Emissions(<<a, b, c, d>>) BY <2>2, EmissionsAre
  <2>6. QED BY <2>1, <2>4, <2>5 DEF Reports, Fits
<1>3. CASE RecordTool
  <2>1. PICK s \in ToolMetricSample : Record("recordTool", s,
            <<Counter("toolCall", 1, Tags(s, {"sessionId", "tool"})),
              Counter(IF s.status = "ok" THEN "toolSuccess" ELSE "toolFailure", 1, Tags(s, {"sessionId", "tool"}))>>)
    BY <1>3 DEF RecordTool
  <2> DEFINE t == Tags(s, {"sessionId", "tool"})
             n == IF s.status = "ok" THEN "toolSuccess" ELSE "toolFailure"
             a == Counter("toolCall", 1, t)
             b == Counter(n, 1, t)
  <2>2. n \in {"toolSuccess", "toolFailure"} BY Zenon
  <2> HIDE DEF n
  <2>3. Agreed(a) /\ Agreed(b) BY <2>2, Named DEF Observed
  <2>4. \A N, T : Due(<<a, b>>, N, T)
                      = Adds("toolCall", t, 1, N, T) + Adds(n, t, 1, N, T)
    BY <2>3, DueIs, Weights
  <2>5. Balanced("recordTool", s, <<a, b>>)
    BY <2>2, <2>4, Names DEF Balanced, Adds, Split, Paired
  <2>6. Emissions(<<a, b>>) BY <2>3, EmissionsAre
  <2>7. QED BY <2>1, <2>5, <2>6 DEF Reports, Fits, n
<1>4. CASE RecordApproval
  <2>1. PICK s \in [sessionId : Sessions, tool : Tools, approved : BOOLEAN] : Record("recordApproval", s,
            <<Counter("approvalRequested", 1, Tags(s, {"sessionId", "tool"})),
              Counter(IF s.approved THEN "approvalGranted" ELSE "approvalDenied", 1, Tags(s, {"sessionId", "tool"}))>>)
    BY <1>4 DEF RecordApproval
  <2> DEFINE t == Tags(s, {"sessionId", "tool"})
             n == IF s.approved THEN "approvalGranted" ELSE "approvalDenied"
             a == Counter("approvalRequested", 1, t)
             b == Counter(n, 1, t)
  <2>2. n \in {"approvalGranted", "approvalDenied"} BY Zenon
  <2> HIDE DEF n
  <2>3. Agreed(a) /\ Agreed(b) BY <2>2, Named DEF Observed
  <2>4. \A N, T : Due(<<a, b>>, N, T)
                      = Adds("approvalRequested", t, 1, N, T) + Adds(n, t, 1, N, T)
    BY <2>3, DueIs, Weights
  <2>5. Balanced("recordApproval", s, <<a, b>>)
    BY <2>2, <2>4, Names DEF Balanced, Adds, Split, Paired
  <2>6. Emissions(<<a, b>>) BY <2>3, EmissionsAre
  <2>7. QED BY <2>1, <2>5, <2>6 DEF Reports, Fits, n
<1>5. CASE RecordReflection
  <2>1. PICK s \in ReflectionMetricSample : Record("recordReflection", s,
            <<Counter("memoryReflection", 1, s), Observe("memoryReflectionLatency", s)>>)
    BY <1>5 DEF RecordReflection
  <2> DEFINE a == Counter("memoryReflection", 1, s)
             b == Observe("memoryReflectionLatency", s)
  <2>2. Agreed(a) /\ Agreed(b) BY Named DEF Observed
  <2>3. \A N, T : Due(<<a, b>>, N, T)
                      = Adds("memoryReflection", s, 1, N, T)
                        + Adds("memoryReflectionLatency", s, 1, N, T)
    BY <2>2, DueIs, Weights
  <2>4. Balanced("recordReflection", s, <<a, b>>)
    BY <2>3, Names DEF Balanced, Adds, Split, Paired
  <2>5. Emissions(<<a, b>>) BY <2>2, EmissionsAre
  <2>6. QED BY <2>1, <2>4, <2>5 DEF Reports, Fits
<1>6. CASE RecordVotingRunner
  <2>1. PICK s \in MemoryVotingRunnerSample : Record("recordVotingRunner", s,
            <<Counter("memoryVotingRunner", 1, s), Observe("memoryVotingRunnerLatency", s)>>)
    BY <1>6 DEF RecordVotingRunner
  <2> DEFINE a == Counter("memoryVotingRunner", 1, s)
             b == Observe("memoryVotingRunnerLatency", s)
  <2>2. Agreed(a) /\ Agreed(b) BY Named DEF Observed
  <2>3. \A N, T : Due(<<a, b>>, N, T)
                      = Adds("memoryVotingRunner", s, 1, N, T)
                        + Adds("memoryVotingRunnerLatency", s, 1, N, T)
    BY <2>2, DueIs, Weights
  <2>4. Balanced("recordVotingRunner", s, <<a, b>>)
    BY <2>3, Names DEF Balanced, Adds, Split, Paired
  <2>5. Emissions(<<a, b>>) BY <2>2, EmissionsAre
  <2>6. QED BY <2>1, <2>4, <2>5 DEF Reports, Fits
<1>7. CASE RecordRetrieveRewriter
  <2>1. PICK s \in RetrieveRewriterMetricSample : Record("recordRetrieveRewriter", s,
            <<Counter("memoryRetrieveRewriter", 1, s), Observe("memoryRetrieveRewriterDuration", s)>>)
    BY <1>7 DEF RecordRetrieveRewriter
  <2> DEFINE a == Counter("memoryRetrieveRewriter", 1, s)
             b == Observe("memoryRetrieveRewriterDuration", s)
  <2>2. Agreed(a) /\ Agreed(b) BY Named DEF Observed
  <2>3. \A N, T : Due(<<a, b>>, N, T)
                      = Adds("memoryRetrieveRewriter", s, 1, N, T)
                        + Adds("memoryRetrieveRewriterDuration", s, 1, N, T)
    BY <2>2, DueIs, Weights
  <2>4. Balanced("recordRetrieveRewriter", s, <<a, b>>)
    BY <2>3, Names DEF Balanced, Adds, Split, Paired
  <2>5. Emissions(<<a, b>>) BY <2>2, EmissionsAre
  <2>6. QED BY <2>1, <2>4, <2>5 DEF Reports, Fits
<1>8. CASE RecordConsolidationRun
  <2>1. PICK s \in MemoryConsolidationRunSample : Record("recordConsolidationRun", s,
            <<Counter("memoryConsolidationRun", 1, Tags(s, {"outcome", "lessonsCreated"})),
              Counter("memoryConsolidationClusters", s.clustersConsidered, Tags(s, {"outcome"}))>>)
    BY <1>8 DEF RecordConsolidationRun
  <2> DEFINE a == Counter("memoryConsolidationRun", 1, Tags(s, {"outcome", "lessonsCreated"}))
             b == Counter("memoryConsolidationClusters", s.clustersConsidered, Tags(s, {"outcome"}))
  <2>2. s.clustersConsidered \in Nat BY MetricsAssumption DEF MemoryConsolidationRunSample
  <2>3. Agreed(a) /\ Agreed(b) BY <2>2, Named DEF Observed
  <2>4. \A N, T : Due(<<a, b>>, N, T)
                      = Adds("memoryConsolidationRun", Tags(s, {"outcome", "lessonsCreated"}), 1, N, T)
                        + Adds("memoryConsolidationClusters", Tags(s, {"outcome"}), s.clustersConsidered, N, T)
    BY <2>3, DueIs, Weights
  <2>5. Balanced("recordConsolidationRun", s, <<a, b>>)
    BY <2>2, <2>4, Names DEF Balanced, Adds, Split, Paired
  <2>6. Emissions(<<a, b>>) BY <2>3, EmissionsAre
  <2>7. QED BY <2>1, <2>5, <2>6 DEF Reports, Fits
<1>9. CASE RecordConsolidationDistillLatency
  <2> DEFINE a == Observe("memoryConsolidationDistillLatency", <<>>)
  <2>1. Agreed(a) BY Named DEF Observed
  <2>2. \A N, T : Due(<<a>>, N, T)
                      = Adds("memoryConsolidationDistillLatency", <<>>, 1, N, T)
    BY <2>1, DueIs, Weights
  <2>3. Balanced("recordConsolidationDistillLatency", NoValue, <<a>>)
    BY <2>2, Names DEF Balanced, Adds, Split, Paired
  <2>4. Emissions(<<a>>) BY <2>1, EmissionsAre
  <2>5. QED BY <1>9, <2>3, <2>4 DEF Reports, Fits, RecordConsolidationDistillLatency
<1>10. CASE RecordRetrieveRewriterGateCosine
  <2> DEFINE a == Observe("memoryRetrieveRewriterGateCosineScore", [gate_mode |-> "embedding"])
  <2>1. Agreed(a) BY Named DEF Observed
  <2>2. \A N, T : Due(<<a>>, N, T)
                      = Adds("memoryRetrieveRewriterGateCosineScore", [gate_mode |-> "embedding"], 1, N, T)
    BY <2>1, DueIs, Weights
  <2>3. Balanced("recordRetrieveRewriterGateCosine", NoValue, <<a>>)
    BY <2>2, Names DEF Balanced, Adds, Split, Paired
  <2>4. Emissions(<<a>>) BY <2>1, EmissionsAre
  <2>5. QED BY <1>10, <2>3, <2>4 DEF Reports, Fits, RecordRetrieveRewriterGateCosine
<1>11. CASE RecordTaskTerminal
  <2>1. PICK s \in TaskTerminalSample : Record("recordTaskTerminal", s,
            <<Counter(TASK_STATUS_COUNTER[s.status], 1, s), Observe("tasksAttempts", s),
              Observe("tasksDuration", s)>>)
    BY <1>11 DEF RecordTaskTerminal
  <2> DEFINE n == TASK_STATUS_COUNTER[s.status]
             a == Counter(n, 1, s)
             b == Observe("tasksAttempts", s)
             c == Observe("tasksDuration", s)
  <2>2. n \in {"tasksCompleted", "tasksFailed", "tasksBlocked", "tasksCancelled"}
    BY DEF TaskTerminalSample, TASK_STATUS_COUNTER
  <2> HIDE DEF n
  <2>3. Agreed(a) /\ Agreed(b) /\ Agreed(c) BY <2>2, Named DEF Observed
  <2>4. \A N, T : Due(<<a, b, c>>, N, T)
                      = Adds(n, s, 1, N, T)
                        + (Adds("tasksAttempts", s, 1, N, T)
                        + Adds("tasksDuration", s, 1, N, T))
    BY <2>3, DueIs, Weights
  <2>5. Balanced("recordTaskTerminal", s, <<a, b, c>>)
    BY <2>2, <2>4, Names DEF Balanced, Adds, Split, Paired
  <2>6. Emissions(<<a, b, c>>) BY <2>3, EmissionsAre
  <2>7. QED BY <2>1, <2>5, <2>6 DEF Reports, Fits, n
<1>12. CASE RecordMemoryDedup
  <2>1. PICK s \in MemoryDedupMetricSample : Record("recordMemoryDedup", s,
            <<Counter(IF s.outcome = "merged" THEN "memoryDedupMerged" ELSE "memoryDedupSkipped", 1,
                      DedupTags(s))>>)
    BY <1>12 DEF RecordMemoryDedup
  <2> DEFINE n == IF s.outcome = "merged" THEN "memoryDedupMerged" ELSE "memoryDedupSkipped"
             a == Counter(n, 1, DedupTags(s))
  <2>2. n \in {"memoryDedupMerged", "memoryDedupSkipped"} BY Zenon
  <2> HIDE DEF n
  <2>3. Agreed(a) BY <2>2, Named DEF Observed
  <2>4. \A N, T : Due(<<a>>, N, T)
                      = Adds(n, DedupTags(s), 1, N, T)
    BY <2>3, DueIs, Weights
  <2>5. Balanced("recordMemoryDedup", s, <<a>>)
    BY <2>2, <2>4, Names DEF Balanced, Adds, Split, Paired
  <2>6. Emissions(<<a>>) BY <2>3, EmissionsAre
  <2>7. QED BY <2>1, <2>5, <2>6 DEF Reports, Fits, n
<1>13. CASE RecordTelegramMessage
  <2>1. PICK s \in TelegramMessageSample : Record("recordTelegramMessage", s,
            <<Counter(IF s.direction = "in" THEN "telegramMessagesReceived" ELSE "telegramMessagesSent",
                      1, s)>>)
    BY <1>13 DEF RecordTelegramMessage
  <2> DEFINE n == IF s.direction = "in" THEN "telegramMessagesReceived" ELSE "telegramMessagesSent"
             a == Counter(n, 1, s)
  <2>2. n \in {"telegramMessagesReceived", "telegramMessagesSent"} BY Zenon
  <2> HIDE DEF n
  <2>3. Agreed(a) BY <2>2, Named DEF Observed
  <2>4. \A N, T : Due(<<a>>, N, T)
                      = Adds(n, s, 1, N, T)
    BY <2>3, DueIs, Weights
  <2>5. Balanced("recordTelegramMessage", s, <<a>>)
    BY <2>2, <2>4, Names DEF Balanced, Adds, Split, Paired
  <2>6. Emissions(<<a>>) BY <2>3, EmissionsAre
  <2>7. QED BY <2>1, <2>5, <2>6 DEF Reports, Fits, n
<1>14. QED BY <1>1, <1>2, <1>3, <1>4, <1>5, <1>6, <1>7, <1>8, <1>9, <1>10, <1>11, <1>12, <1>13

\* The reports whose emissions depend on the sample.
LEMMA SomeReport ==
    ASSUME RecordMemoryEviction \/ RecordLinkGenerator \/ RecordMemoryEvolution \/ RecordSchedulerTick
    PROVE  Reports
<1> HIDE DEF Agreed
<1>1. CASE RecordMemoryEviction
  <2> DEFINE tags(s) == Tags(s, {"reason", "utilityWeighted"})
             a(s) == Counter("memoryEvictionEvicted", s.evicted, tags(s))
  <2>1. PICK s \in MemoryEvictionMetricSample :
            Record("recordMemoryEviction", s, IF s.evicted <= 0 THEN <<>> ELSE <<a(s)>>)
    BY <1>1 DEF RecordMemoryEviction
  <2>2. s.evicted \in Nat BY MetricsAssumption DEF MemoryEvictionMetricSample
  <2>3. CASE s.evicted <= 0
    <3>1. Record("recordMemoryEviction", s, <<>>) /\ s.evicted = 0 BY <2>1, <2>2, <2>3
    <3>2. \A N, T : Due(<<>>, N, T) = 0 BY DueIs
    <3>3. Balanced("recordMemoryEviction", s, <<>>) BY <3>1, <3>2, Names DEF Balanced
    <3>4. Emissions(<<>>) BY EmissionsAre
    <3>5. QED BY <3>1, <3>3, <3>4 DEF Reports, Fits
  <2>4. CASE ~ (s.evicted <= 0)
    <3>1. Record("recordMemoryEviction", s, <<a(s)>>) BY <2>1, <2>4
    <3>2. Agreed(a(s)) BY <2>2, Named DEF Observed
    <3>3. \A N, T : Due(<<a(s)>>, N, T) = Adds("memoryEvictionEvicted", tags(s), s.evicted, N, T)
      BY <3>2, DueIs, Weights
    <3>4. Balanced("recordMemoryEviction", s, <<a(s)>>)
      BY <2>2, <3>3, Names DEF Balanced, Adds, Split, Paired
    <3>5. Emissions(<<a(s)>>) BY <3>2, EmissionsAre
    <3>6. QED BY <3>1, <3>4, <3>5 DEF Reports, Fits
  <2>5. QED BY <2>3, <2>4
<1>2. CASE RecordLinkGenerator
  <2> DEFINE tags(s) == Tags(s, {"sessionId", "outcome"})
             kind == [source |-> "link_generator", kind |-> "any"]
             a(s) == Counter("memoryLinkGenerator", 1, tags(s))
             b(s) == Observe("memoryLinkGeneratorDuration", tags(s))
             c(s) == Counter("memoryLinksWritten", s.linksWritten, kind)
  <2>1. PICK s \in MemoryLinkGeneratorSample :
            Record("recordLinkGenerator", s,
                <<a(s), b(s)>> \o IF s.linksWritten = NoValue THEN <<>> ELSE <<c(s)>>)
    BY <1>2 DEF RecordLinkGenerator
  <2>2. Agreed(a(s)) /\ Agreed(b(s)) BY Named DEF Observed
  <2> DEFINE x == a(s)
             y == b(s)
             z == c(s)
  <2>3. CASE s.linksWritten = NoValue
    <3>1. Record("recordLinkGenerator", s, <<x, y>>)
      <4>1. Record("recordLinkGenerator", s, <<x, y>> \o <<>>) BY <2>1, <2>3
      <4> HIDE DEF x, y
      <4>2. <<x, y>> \o <<>> = <<x, y>> BY Joined, Zenon
      <4>3. QED BY <4>1, <4>2, Zenon
    <3>2. \A N, T : Due(<<x, y>>, N, T) = Adds("memoryLinkGenerator", tags(s), 1, N, T)
                                           + Adds("memoryLinkGeneratorDuration", tags(s), 1, N, T)
      BY <2>2, DueIs, Weights
    <3>3. Balanced("recordLinkGenerator", s, <<x, y>>) BY <3>2, Names DEF Balanced, Adds, Split, Paired
    <3>4. Emissions(<<x, y>>) BY <2>2, EmissionsAre
    <3>5. QED BY <3>1, <3>3, <3>4 DEF Reports, Fits
  <2>4. CASE s.linksWritten # NoValue
    <3>1. Record("recordLinkGenerator", s, <<x, y, z>>)
      <4>1. Record("recordLinkGenerator", s, <<x, y>> \o <<z>>) BY <2>1, <2>4
      <4> HIDE DEF x, y, z
      <4>2. <<x, y>> \o <<z>> = <<x, y, z>> BY Joined, Zenon
      <4>3. QED BY <4>1, <4>2, Zenon
    <3>2. s.linksWritten \in Nat BY <2>4, MetricsAssumption DEF MemoryLinkGeneratorSample
    <3>3. Agreed(z) BY <3>2, Named DEF Observed
    <3>4. \A N, T : Due(<<x, y, z>>, N, T) = Adds("memoryLinkGenerator", tags(s), 1, N, T)
                                              + (Adds("memoryLinkGeneratorDuration", tags(s), 1, N, T)
                                                 + Adds("memoryLinksWritten", kind, s.linksWritten, N, T))
      BY <2>2, <3>3, DueIs, Weights
    <3>5. Balanced("recordLinkGenerator", s, <<x, y, z>>)
      BY <3>2, <3>4, Names DEF Balanced, Adds, Split, Paired
    <3>6. Emissions(<<x, y, z>>) BY <2>2, <3>3, EmissionsAre
    <3>7. QED BY <3>1, <3>5, <3>6 DEF Reports, Fits
  <2>5. QED BY <2>3, <2>4
<1>3. CASE RecordMemoryEvolution
  <2> DEFINE t(s) == Tags(s, {"sessionId"})
             u(s) == [sessionId |-> s.sessionId, reason |-> s.outcome]
             a(s) == Counter("memoryEvolutionApplied", 1, t(s))
             b(s) == Counter("memoryEvolutionSkipped", 1, u(s))
  <2>1. PICK s \in MemoryEvolutionSample :
            Record("recordMemoryEvolution", s, IF s.outcome = "applied" THEN <<a(s)>> ELSE <<b(s)>>)
    BY <1>3 DEF RecordMemoryEvolution
  <2>2. Agreed(a(s)) /\ Agreed(b(s)) BY Named DEF Observed
  <2>3. \A N, T : /\ Due(<<a(s)>>, N, T) = Adds("memoryEvolutionApplied", t(s), 1, N, T)
                 /\ Due(<<b(s)>>, N, T) = Adds("memoryEvolutionSkipped", u(s), 1, N, T)
    BY <2>2, DueIs, Weights
  <2>4. Balanced("recordMemoryEvolution", s, <<a(s)>>) BY <2>3, Names DEF Balanced, Adds, Split, Paired
  <2>5. Balanced("recordMemoryEvolution", s, <<b(s)>>) BY <2>3, Names DEF Balanced, Adds, Split, Paired
  <2>6. Emissions(<<a(s)>>) /\ Emissions(<<b(s)>>) BY <2>2, EmissionsAre
  <2>7. QED BY <2>1, <2>4, <2>5, <2>6 DEF Reports, Fits
<1>4. CASE RecordSchedulerTick
  <2> DEFINE a(s) == Counter("schedulerTicks", 1, s)
             b(s) == Counter("schedulerTickErrors", 1, s)
             c(s) == Observe("schedulerBatchSize", s)
             d(s) == Observe("schedulerTickDuration", s)
  <2>1. PICK s \in SchedulerTickSample : Record("recordSchedulerTick", s,
            <<a(s)>> \o (IF s.outcome = "error" THEN <<b(s)>> ELSE <<>>) \o <<c(s), d(s)>>)
    BY <1>4 DEF RecordSchedulerTick
  <2>2. Agreed(a(s)) /\ Agreed(b(s)) /\ Agreed(c(s)) /\ Agreed(d(s)) BY Named DEF Observed
  <2> DEFINE w == a(s)
             x == b(s)
             y == c(s)
             z == d(s)
  <2>3. CASE s.outcome = "error"
    <3>1. Record("recordSchedulerTick", s, <<w, x, y, z>>)
      <4>1. Record("recordSchedulerTick", s, <<w>> \o <<x>> \o <<y, z>>) BY <2>1, <2>3
      <4> HIDE DEF w, x, y, z
      <4>2. <<w>> \o <<x>> \o <<y, z>> = <<w, x, y, z>> BY Joined
      <4>3. QED BY <4>1, <4>2, Zenon
    <3>2. \A N, T : Due(<<w, x, y, z>>, N, T)
                        = Adds("schedulerTicks", s, 1, N, T)
                          + (Adds("schedulerTickErrors", s, 1, N, T)
                             + (Adds("schedulerBatchSize", s, 1, N, T) + Adds("schedulerTickDuration", s, 1, N, T)))
      BY <2>2, DueIs, Weights
    <3>3. Balanced("recordSchedulerTick", s, <<w, x, y, z>>) BY <3>2, Names DEF Balanced, Adds, Split, Paired
    <3>4. Emissions(<<w, x, y, z>>) BY <2>2, EmissionsAre
    <3>5. QED BY <3>1, <3>3, <3>4 DEF Reports, Fits
  <2>4. CASE s.outcome # "error"
    <3>1. Record("recordSchedulerTick", s, <<w, y, z>>)
      <4>1. Record("recordSchedulerTick", s, <<w>> \o <<>> \o <<y, z>>) BY <2>1, <2>4
      <4> HIDE DEF w, y, z
      <4>2. <<w>> \o <<>> \o <<y, z>> = <<w, y, z>> BY Joined, Zenon
      <4>3. QED BY <4>1, <4>2, Zenon
    <3>2. \A N, T : Due(<<w, y, z>>, N, T)
                        = Adds("schedulerTicks", s, 1, N, T)
                          + (Adds("schedulerBatchSize", s, 1, N, T) + Adds("schedulerTickDuration", s, 1, N, T))
      BY <2>2, DueIs, Weights
    <3>3. Balanced("recordSchedulerTick", s, <<w, y, z>>) BY <3>2, Names DEF Balanced, Adds, Split, Paired
    <3>4. Emissions(<<w, y, z>>) BY <2>2, EmissionsAre
    <3>5. QED BY <3>1, <3>3, <3>4 DEF Reports, Fits
  <2>5. QED BY <2>3, <2>4
<1>5. QED BY <1>1, <1>2, <1>3, <1>4

\* Every call of AgentMetrics is such a report.
LEMMA AllReport == RunReports \/ MemoryReports \/ ServiceReports => Reports
<1>1. RunReports => Reports BY CountsReport, OneCounter, SeveralReport, SomeReport, Zenon DEF RunReports
<1>2. MemoryReports => Reports BY CountsReport, OneCounter, SeveralReport, SomeReport, Zenon DEF MemoryReports
<1>3. ServiceReports => Reports BY CountsReport, OneCounter, SeveralReport, SomeReport, Zenon DEF ServiceReports
<1>4. QED BY <1>1, <1>2, <1>3

\* At first nothing is counted.
LEMMA SumsBegin == MetricsInit => SumsInv
<1> SUFFICES ASSUME MetricsInit PROVE SumsInv OBVIOUS
<1>1. /\ counters = <<>> /\ pending = <<>> /\ history = <<>> /\ logged = <<>>
      /\ seen = [s \in Sinks |-> <<>>] /\ log = [s \in Sinks |-> <<>>]
  BY DEF MetricsInit
<1>2. DOMAIN counters = {} /\ DOMAIN history = {} /\ \A s \in Sinks : DOMAIN seen[s] = {} BY <1>1
<1>3. SinksInv
  <2>1. Kept(logged, Enabled) = <<>> BY <1>1, KeptEmpty
  <2>2. QED BY <1>1, <2>1, EmissionsAre DEF SinksInv, TookAll
<1>4. CountersOK BY <1>2, FS_EmptySet DEF CountersOK
<1>5. HistoryOK
  <2>1. history \in Seq({}) BY <1>1
  <2>2. QED BY <1>2, <2>1 DEF HistoryOK
<1>6. \A N, T : Due(pending, N, T) = 0 BY <1>1, DueIs
<1>7. IsFiniteSet({}) /\ Cardinality({}) = 0 BY FS_EmptySet
<1>8. \A f : SumOver(f, {}) = 0
  <2> TAKE f
  <2>1. \A x \in {} : f[x] \in Nat /\ f[x] = f[x] OBVIOUS
  <2>2. QED BY <1>7, <2>1, SumSame
<1>9. \A N : Expected(N) = 0
  <2> TAKE N
  <2>1. {key \in DOMAIN counters : key[1] \in N} = {} BY <1>2
  <2>2. TotalOf(counters, N) = 0 BY <1>8, <2>1 DEF TotalOf
  <2>3. QED BY <1>6, <2>2 DEF Expected
<1>10. \A method : Calls(method) = 0
  <2> TAKE method
  <2>1. {i \in DOMAIN history : history[i].method = method} = {} BY <1>2
  <2>2. QED BY <1>7, <2>1 DEF Calls
<1>11. Balances
  <2>1. SumOver(Evicted, DOMAIN history) = 0 BY <1>2, <1>8
  <2> HIDE DEF Expected, Calls, Evicted
  <2>2. QED BY <1>9, <1>10, <2>1 DEF Balances
<1>12. \A s \in Sinks, pair \in Paired : \A t : Matches(s, pair, t)
  BY <1>2, <1>6 DEF Matches, ValueOf
<1>13. QED BY <1>3, <1>4, <1>5, <1>11, <1>12 DEF SumsInv

\* Every step keeps the sums.
LEMMA SumsStay == SumsInv /\ [MetricsNext]_metricsVars => SumsInv'
<1> SUFFICES ASSUME SumsInv, [MetricsNext]_metricsVars PROVE SumsInv' OBVIOUS
<1>1. CASE Reports
  <2>1. PICK m, s, list : Fits(m, s, list) /\ Record(m, s, list) BY <1>1 DEF Reports
  <2>2. QED BY <2>1, RecordBalances DEF Fits
<1>2. CASE Log
  <2>1. UNCHANGED <<counters, pending, seen, history>> BY <1>2 DEF Log
  <2>2. SinksInv' BY <1>2, LogFollows DEF SumsInv
  <2>3. CountersOK' /\ HistoryOK' BY <2>1 DEF SumsInv, CountersOK, HistoryOK
  <2>4. Balances' BY <2>1 DEF SumsInv, Balances, Expected, Calls, Evicted
  <2>5. PICK throwing \in SUBSET Sinks :
            missed' = [s \in Sinks |-> IF s \in throwing THEN missed[s] \cup {<<"log", <<>>>>} ELSE missed[s]]
    BY <1>2 DEF Log
  <2>6. ASSUME NEW s \in Sinks, NEW pair \in Paired, NEW t PROVE Matches(s, pair, t)'
    <3>1. Matches(s, pair, t) BY DEF SumsInv
    <3>2. missed[s] \subseteq missed'[s] BY <2>5
    <3>3. QED BY <2>1, <3>1, <3>2 DEF Matches
  <2>7. QED BY <2>2, <2>3, <2>4, <2>6 DEF SumsInv
<1>3. CASE UNCHANGED metricsVars
  <2>1. SinksInv' BY <1>3 DEF SumsInv, metricsVars, SinksInv, TookAll, Emissions, Agreed
  <2>2. CountersOK' /\ HistoryOK' BY <1>3 DEF SumsInv, metricsVars, CountersOK, HistoryOK
  <2>3. Balances' BY <1>3 DEF SumsInv, metricsVars, Balances, Expected, Calls, Evicted
  <2>4. \A s \in Sinks, pair \in Paired : \A t : Matches(s, pair, t)'
    BY <1>3 DEF SumsInv, metricsVars, Matches
  <2>5. QED BY <2>1, <2>2, <2>3, <2>4 DEF SumsInv
<1>4. QED BY <1>1, <1>2, <1>3, AllReport, EmitBalances DEF MetricsNext

\* Whatever a sink throws on and whatever is reported, a sink has the collector's value of
\* every counter whose last emission it took, and the records of the log it did not throw on.
THEOREM SinksKeepUp == MetricsSpec => []SinksFollow
<1>1. SumsInv => SinksFollow BY DEF SumsInv, SinksInv, TookAll, SinksFollow, LogKey
<1>2. QED BY <1>1, SumsBegin, SumsStay, PTL DEF MetricsSpec

\* Between two calls the counters add up: those of a split to the calls of its method, the
\* rows evicted to what the calls reported, and at every sink the latencies to the outcomes.
THEOREM ReportsBalance == MetricsSpec => []ReportsAddUp
<1>1. SumsInv => ReportsAddUp
  <2> SUFFICES ASSUME SumsInv, pending = <<>> PROVE ReportsAddUp BY DEF ReportsAddUp
  <2>1. \A N, T : Due(pending, N, T) = 0 BY DueIs
  <2>2. \A N : TotalOf(counters, N) \in Nat
    <3>1. IsFiniteSet(DOMAIN counters) /\ \A k \in DOMAIN counters : counters[k] \in Nat BY DEF SumsInv, CountersOK
    <3>2. PICK c : c = With(counters, 0, ValueOf(counters, 0) + 0) OBVIOUS
    <3>3. 0 \in Nat OBVIOUS
    <3>4. QED BY <3>1, <3>2, <3>3, TotalMoves
  <2>3. \A N : Expected(N) = Total(N)
    <3> TAKE N
    <3>1. Expected(N) = TotalOf(counters, N) BY <2>1, <2>2 DEF Expected
    <3>2. QED BY <3>1, Zenon DEF Total, TotalOf
  <2>4. ASSUME NEW s \in Sinks, NEW key \in DOMAIN counters, NEW pair \in Paired,
               key[1] = pair[1], <<pair[2], key[2]>> \notin missed[s]
        PROVE  ValueOf(seen[s], <<pair[2], key[2]>>) = counters[key]
    <3>1. Matches(s, pair, key[2]) BY DEF SumsInv
    <3>2. key = <<pair[1], key[2]>> BY <2>4 DEF SumsInv, CountersOK
    <3>3. ValueOf(counters, <<pair[1], key[2]>>) = counters[key] BY <3>2 DEF ValueOf
    <3>4. ValueOf(seen[s], <<pair[2], key[2]>>) \in Nat /\ counters[key] \in Nat
      BY DEF SumsInv, CountersOK, ValueOf
    <3>5. QED BY <2>1, <2>4, <3>1, <3>3, <3>4 DEF Matches
  <2>5. Balances BY DEF SumsInv
  <2> HIDE DEF Total, Expected, Calls, Evicted, SumsInv
  <2>6. QED BY <2>3, <2>4, <2>5 DEF Balances, ReportsAddUp
<1>2. QED BY <1>1, SumsBegin, SumsStay, PTL DEF MetricsSpec
=============================================================================
