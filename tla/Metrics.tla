------------------------------ MODULE Metrics -------------------------------
(***************************************************************************)
(* The metrics and the log of packages/traces: AgentMetrics, which turns   *)
(* what a caller reports into emissions under agreed names and tags        *)
(* (agent-metrics.ts), the collector that keeps the counters and hands     *)
(* every emission to all sinks (metrics-collector.ts), the logger          *)
(* (structured-logger.ts), and the sinks that pass on to a sidecar what    *)
(* they get (ndjson-sinks.ts).                                             *)
(*                                                                         *)
(* Nothing in the repository calls AgentMetrics: the samples come in any   *)
(* order.  A call is synchronous, so the next one starts when all the      *)
(* emissions of this one are delivered.  A sink may throw on any of them.  *)
(*                                                                         *)
(* A counter is emitted with its running total.  Of a histogram and of a   *)
(* gauge only that they were emitted, and with which tags, is modelled.    *)
(* A tag keeps the name of the field it comes from.                        *)
(***************************************************************************)
EXTENDS Integers, Sequences, FiniteSets, Selection, TLC

CONSTANTS
    Sessions, Tools, \* sessionId, tool
    Ids,             \* of rows, tasks and models, also the free texts
    Amounts,         \* rows, hits and clusters reported, from 0
    Scores,          \* what toFixed rounds, in units a tenth of the last digit it keeps
    Sinks,           \* the sinks of the collector and of the logger
    LogLevel,        \* the logger's level
    NoValue,         \* null and undefined
    MaxSamples, MaxSinkFaults  \* bounds: calls, deliveries that throw

ASSUME MetricsAssumption ==
    Amounts \cup Scores \cup {MaxSamples, MaxSinkFaults} \subseteq Nat

VARIABLES
    counters,    \* the collector's counters: value of <<name, tags>>
    pending,     \* the emissions of the call in progress
    seen,        \* by sink: the counter's last value, how often a histogram or gauge came
    missed,      \* by sink: the keys whose last emission it threw on
    log,         \* by sink: the levels of the records it was given
    history,     \* the calls of AgentMetrics so far
    logged,      \* the levels of the calls of the logger so far
    sinkFaults   \* the deliveries that threw

metricsVars == <<counters, pending, seen, missed, log, history, logged, sinkFaults>>

MetricsInit ==
    /\ counters = <<>> /\ pending = <<>> /\ history = <<>> /\ logged = <<>> /\ sinkFaults = 0
    /\ seen = [s \in Sinks |-> <<>>] /\ missed = [s \in Sinks |-> {}]
    /\ log = [s \in Sinks |-> <<>>]

-----------------------------------------------------------------------------
(* The collector and the logger.                                           *)

ValueOf(f, key) == IF key \in DOMAIN f THEN f[key] ELSE 0
With(f, key, value) == [k \in DOMAIN f \cup {key} |-> IF k = key THEN value ELSE f[k]]

\* Fault: the first that throws ends the delivery.
ReachedUntilThrow(throwing) == IF throwing = {} THEN Sinks ELSE {}

\* A throwing sink is skipped, the ones after it are not.
Reached(throwing) == Sinks \ throwing

Throwing(throwing) ==
    /\ sinkFaults' = IF throwing = {} THEN sinkFaults ELSE sinkFaults + 1
    /\ sinkFaults' <= MaxSinkFaults

\* One emission: the counter moves, and every sink is given its new value.
Emit ==
    /\ pending # <<>>
    /\ LET e == Head(pending)
           key == <<e.name, e.tags>>
           next == ValueOf(counters, key) + e.delta
           Shown(s) == IF e.counter THEN next ELSE ValueOf(seen[s], key) + 1
       IN /\ counters' = IF e.counter THEN With(counters, key, next) ELSE counters
          /\ \E throwing \in SUBSET Sinks :
                /\ Throwing(throwing)
                /\ seen' = [s \in Sinks |-> IF s \in Reached(throwing)
                                            THEN With(seen[s], key, Shown(s)) ELSE seen[s]]
                /\ missed' = [s \in Sinks |->
                      IF s \in throwing THEN missed[s] \cup {key}
                      ELSE IF e.counter THEN missed[s] \ {key} ELSE missed[s]]
    /\ pending' = Tail(pending)
    /\ UNCHANGED <<log, history, logged>>

LEVEL_ORDER == [debug |-> 10, info |-> 20, warn |-> 30, error |-> 40]

\* The levels a logger does not drop.
Enabled == {level \in DOMAIN LEVEL_ORDER : LEVEL_ORDER[level] >= LEVEL_ORDER[LogLevel]}

\* The bound: one call more.
MayCall == pending = <<>> /\ Len(history) + Len(logged) < MaxSamples

\* A call of the logger, which below its level does nothing.
Log ==
    /\ MayCall
    /\ \E level \in DOMAIN LEVEL_ORDER, throwing \in SUBSET Sinks :
          /\ level \notin Enabled => throwing = {}
          /\ Throwing(throwing)
          /\ logged' = Append(logged, level)
          /\ log' = [s \in Sinks |-> IF level \in Enabled /\ s \in Reached(throwing)
                                     THEN Append(log[s], level) ELSE log[s]]
          /\ missed' = [s \in Sinks |-> IF s \in throwing THEN missed[s] \cup {<<"log", <<>>>>}
                                        ELSE missed[s]]
    /\ UNCHANGED <<counters, pending, seen, history>>

-----------------------------------------------------------------------------
(* AgentMetrics: what each method emits.                                   *)

Counter(name, delta, tags) == [counter |-> TRUE, name |-> name, delta |-> delta, tags |-> tags]
Observe(name, tags) == [counter |-> FALSE, name |-> name, delta |-> 0, tags |-> tags]

Record(method, sample, emissions) ==
    /\ MayCall
    /\ pending' = emissions
    /\ history' = Append(history, [method |-> method, sample |-> sample])
    /\ UNCHANGED <<counters, seen, missed, log, logged, sinkFaults>>

\* The fields of a sample that are tags as they are.
Tags(sample, names) == [n \in names |-> sample[n]]
\* An optional tag is left out where there is no value for it.
Optional(name, value) == IF value = NoValue THEN <<>> ELSE name :> value
\* toFixed, to the nearest.
ToFixed(score) == (score + 5) \div 10

LlmFailureCategory == {"transport", "grammar", "model", "tool", "cancelled"}

StepMetricSample == [sessionId : Sessions, outcome : {"ok", "error"}]
RecordStep == \E s \in StepMetricSample : Record("recordStep", s,
    <<Observe("stepTokens", s), Observe("stepDuration", s), Counter("stepOutcome", 1, s)>>)

LlmMetricSample == [sessionId : Sessions, cacheReused : BOOLEAN]
RecordLlmCall == \E s \in LlmMetricSample : Record("recordLlmCall", s,
    <<Observe("llmLatency", s), Observe("llmPromptTokens", s), Observe("llmCompletionTokens", s),
      Observe("kvCacheHit", Tags(s, {"sessionId"}))>>)

ToolMetricSample == [sessionId : Sessions, tool : Tools, status : {"ok", "error"}]
RecordTool == \E s \in ToolMetricSample : LET tags == Tags(s, {"sessionId", "tool"}) IN
    Record("recordTool", s,
        <<Counter("toolCall", 1, tags),
          Counter(IF s.status = "ok" THEN "toolSuccess" ELSE "toolFailure", 1, tags)>>)

LlmFailureMetricSample == [sessionId : Sessions, category : LlmFailureCategory]
RecordLlmFailure == \E s \in LlmFailureMetricSample :
    Record("recordLlmFailure", s, <<Counter("llmFailure", 1, s)>>)

BatchTrimmedMetricSample ==
    {[sessionId |-> i, reason |-> "approval-gated-batched", originalSize |-> n + 2,
      droppedCount |-> n + 1] : i \in Sessions, n \in Amounts}
RecordBatchTrimmed == \E s \in BatchTrimmedMetricSample : Record("recordBatchTrimmed", s,
    <<Counter("batchTrimmed", 1, Tags(s, {"sessionId", "reason", "originalSize"}))>>)

RecordApproval == \E s \in [sessionId : Sessions, tool : Tools, approved : BOOLEAN] :
    LET tags == Tags(s, {"sessionId", "tool"}) IN
    Record("recordApproval", s,
        <<Counter("approvalRequested", 1, tags),
          Counter(IF s.approved THEN "approvalGranted" ELSE "approvalDenied", 1, tags)>>)

-----------------------------------------------------------------------------
(* What the memory reports: writes, recalls, links, lessons, procedures.   *)

ReflectionMetricSample ==
    [sessionId : Sessions, outcome : {"ok", "none", "aborted", "timeout", "failed"}]
RecordReflection == \E s \in ReflectionMetricSample : Record("recordReflection", s,
    <<Counter("memoryReflection", 1, s), Observe("memoryReflectionLatency", s)>>)

MemoryDedupMetricSample ==
    [outcome : {"merged", "skipped", "disabled"}, bestScore : Scores, candidateId : Ids \cup {NoValue}]
DedupTags(s) == [outcome |-> s.outcome, bestScore |-> ToFixed(s.bestScore)]
                @@ Optional("candidateId", s.candidateId)
\* Fault: a write with the deduplication disabled is not counted.
RecordMemoryDedupEnabled == \E s \in MemoryDedupMetricSample : Record("recordMemoryDedup", s,
    IF s.outcome = "disabled" THEN <<>>
    ELSE <<Counter(IF s.outcome = "merged" THEN "memoryDedupMerged" ELSE "memoryDedupSkipped", 1,
                   DedupTags(s))>>)
RecordMemoryDedup == \E s \in MemoryDedupMetricSample : Record("recordMemoryDedup", s,
    <<Counter(IF s.outcome = "merged" THEN "memoryDedupMerged" ELSE "memoryDedupSkipped", 1,
              DedupTags(s))>>)

MemoryEvictionMetricSample ==
    [reason : {"overflow", "age"}, evicted : Amounts, utilityWeighted : BOOLEAN]
RecordMemoryEviction == \E s \in MemoryEvictionMetricSample : Record("recordMemoryEviction", s,
    IF s.evicted <= 0 THEN <<>>
    ELSE <<Counter("memoryEvictionEvicted", s.evicted, Tags(s, {"reason", "utilityWeighted"}))>>)

MemoryClockSkewMetricSample ==
    [site : {"memory_store_recall", "memory_store_dedup", "memory_store_eviction"},
     deltaMs : {0 - n : n \in Amounts \ {0}}]
RecordMemoryClockSkew == \E s \in MemoryClockSkewMetricSample :
    Record("recordMemoryClockSkew", s, <<Counter("memoryClockSkewDetected", 1, s)>>)

MemoryEmbeddingsGeneratedSample == [model : Ids]
RecordMemoryEmbeddingsGenerated == \E s \in MemoryEmbeddingsGeneratedSample :
    Record("recordMemoryEmbeddingsGenerated", s, <<Counter("memoryEmbeddingsGenerated", 1, s)>>)

MemoryEmbeddingsFallbackSample ==
    [reason : {"embed_failed", "client_missing", "store_missing", "feature_disabled"}]
RecordMemoryEmbeddingsFallback == \E s \in MemoryEmbeddingsFallbackSample :
    Record("recordMemoryEmbeddingsFallback", s, <<Counter("memoryEmbeddingsFallback", 1, s)>>)

MemoryEmbeddingsBruteForceOverflowSample == [rows : Amounts, ceiling : {1}]
RecordMemoryEmbeddingsBruteForceOverflow == \E s \in MemoryEmbeddingsBruteForceOverflowSample :
    Record("recordMemoryEmbeddingsBruteForceOverflow", s,
        <<Counter("memoryEmbeddingsBruteForceOverflow", 1, s)>>)

MemoryEmbeddingsDaemonHealthSample ==
    [outcome : {"ok", "unreachable", "disabled"}, model : Ids \cup {NoValue}]
RecordMemoryEmbeddingsDaemonHealth == \E s \in MemoryEmbeddingsDaemonHealthSample :
    Record("recordMemoryEmbeddingsDaemonHealth", s,
        <<Counter("memoryEmbeddingsDaemonHealth", 1,
                  [outcome |-> s.outcome] @@ Optional("model", s.model))>>)

MemoryLinkGeneratorSample ==
    [sessionId : Sessions, outcome : {"ok", "none", "skipped", "aborted", "timeout", "failed"},
     linksWritten : Amounts \cup {NoValue}]
RecordLinkGenerator == \E s \in MemoryLinkGeneratorSample :
    LET tags == Tags(s, {"sessionId", "outcome"}) IN
    Record("recordLinkGenerator", s,
        <<Counter("memoryLinkGenerator", 1, tags), Observe("memoryLinkGeneratorDuration", tags)>>
        \o IF s.linksWritten = NoValue THEN <<>>
           ELSE <<Counter("memoryLinksWritten", s.linksWritten,
                          [source |-> "link_generator", kind |-> "any"])>>)

MemoryLinkExpansionHitsSample == [expanded : Amounts \ {0}, depth : {1}]
RecordMemoryLinkExpansion == \E s \in MemoryLinkExpansionHitsSample :
    Record("recordMemoryLinkExpansion", s, <<Counter("memoryLinkExpansionHits", 1, s)>>)

\* The outcomes but for the first begin with skipped_, which the tag drops.
MemoryEvolutionSample ==
    [sessionId : Sessions,
     outcome : {"applied", "lease_held", "no_change", "not_in_allowlist", "cap_hit", "missing",
                "invalid"}]
RecordMemoryEvolution == \E s \in MemoryEvolutionSample : Record("recordMemoryEvolution", s,
    IF s.outcome = "applied"
    THEN <<Counter("memoryEvolutionApplied", 1, Tags(s, {"sessionId"}))>>
    ELSE <<Counter("memoryEvolutionSkipped", 1, [sessionId |-> s.sessionId, reason |-> s.outcome])>>)

MemoryLessonCreatedSample == [lessonId : Ids, parentCount : Amounts]
RecordLessonCreated == \E s \in MemoryLessonCreatedSample :
    Record("recordLessonCreated", s, <<Counter("memoryLessonsCreated", 1, s)>>)

MemoryLessonDeprecatedSample == [lessonId : Ids, reason : Ids]
RecordLessonDeprecated == \E s \in MemoryLessonDeprecatedSample :
    Record("recordLessonDeprecated", s, <<Counter("memoryLessonsDeprecated", 1, s)>>)

MemoryLessonRecalledSample == [sessionId : Sessions, hits : Amounts]
RecordLessonsRecalled == \E s \in MemoryLessonRecalledSample : Record("recordLessonsRecalled", s,
    <<Counter("memoryLessonsRecalled", s.hits, Tags(s, {"sessionId"}))>>)

MemoryProcedureCreatedSample ==
    [procedureId : Ids, source : {"consolidator", "manual"}, parentLessonCount : Amounts,
     parentMemoryCount : {1}]
RecordProcedureCreated == \E s \in MemoryProcedureCreatedSample :
    Record("recordProcedureCreated", s, <<Counter("memoryProceduresCreated", 1, s)>>)

MemoryProcedureDeprecatedSample == [procedureId : Ids, reason : Ids]
RecordProcedureDeprecated == \E s \in MemoryProcedureDeprecatedSample :
    Record("recordProcedureDeprecated", s, <<Counter("memoryProceduresDeprecated", 1, s)>>)

MemoryProcedureRecalledSample == [sessionId : Sessions, hits : Amounts]
RecordProceduresRecalled == \E s \in MemoryProcedureRecalledSample :
    Record("recordProceduresRecalled", s,
        <<Counter("memoryProceduresRecalled", s.hits, Tags(s, {"sessionId"}))>>)

MemoryProcedureUsedSample == [sessionId : Sessions, procedureId : Ids]
RecordProcedureUsed == \E s \in MemoryProcedureUsedSample :
    Record("recordProcedureUsed", s, <<Counter("memoryProceduresUsed", 1, s)>>)

MemoryConsolidationRunSample ==
    [outcome : {"ok", "none", "failed"}, clustersConsidered : Amounts, lessonsCreated : Amounts]
RecordConsolidationRun == \E s \in MemoryConsolidationRunSample :
    Record("recordConsolidationRun", s,
        <<Counter("memoryConsolidationRun", 1, Tags(s, {"outcome", "lessonsCreated"})),
          Counter("memoryConsolidationClusters", s.clustersConsidered, Tags(s, {"outcome"}))>>)

RecordConsolidationDistillLatency == Record("recordConsolidationDistillLatency", NoValue,
    <<Observe("memoryConsolidationDistillLatency", <<>>)>>)

MemoryProfileSupersededSample == [key : Ids, previousId : {1}, nextId : {2}]
RecordProfileSuperseded == \E s \in MemoryProfileSupersededSample :
    Record("recordProfileSuperseded", s, <<Counter("memoryProfileSuperseded", 1, s)>>)

-----------------------------------------------------------------------------
(* Votes and the rewriting of queries.                                     *)

VotingKindTag == {"memory", "lesson", "profile", "procedure"}

MemoryVotingRunnerSample ==
    [sessionId : Sessions, outcome : {"ok", "none", "skipped", "aborted", "timeout", "failed"}]
RecordVotingRunner == \E s \in MemoryVotingRunnerSample : Record("recordVotingRunner", s,
    <<Counter("memoryVotingRunner", 1, s), Observe("memoryVotingRunnerLatency", s)>>)

MemoryVotingAppliedSample == [sessionId : Sessions, kind : VotingKindTag, direction : {1, -1}]
RecordVotingApplied == \E s \in MemoryVotingAppliedSample : Record("recordVotingApplied", s,
    <<Counter("memoryVotingApplied", 1,
              [s EXCEPT !.direction = IF @ = 1 THEN "up" ELSE "down"])>>)

MemoryVotingRejectedSample ==
    [sessionId : Sessions, kind : {"memory", NoValue},
     reason : {"malformed", "not_surfaced", "duplicate", "cap_exceeded", "clamp_hit", "target_missing"}]
RecordVotingRejected == \E s \in MemoryVotingRejectedSample : Record("recordVotingRejected", s,
    <<Counter("memoryVotingRejected", 1,
              Tags(s, {"sessionId", "reason"}) @@ Optional("kind", s.kind))>>)

MemoryVotingDecayedSample == [kind : VotingKindTag, rows : Amounts, factor : Scores]
RecordVotingDecayed == \E s \in MemoryVotingDecayedSample : Record("recordVotingDecayed", s,
    <<Counter("memoryVotingDecayed", s.rows, [kind |-> s.kind, factor |-> ToFixed(s.factor)])>>)

RetrieveRewriterMetricSample ==
    [outcome : {"ok", "skipped_not_referential", "skipped_no_history", "aborted", "timeout", "failed"}]
RecordRetrieveRewriter == \E s \in RetrieveRewriterMetricSample :
    Record("recordRetrieveRewriter", s,
        <<Counter("memoryRetrieveRewriter", 1, s), Observe("memoryRetrieveRewriterDuration", s)>>)

RetrieveRewriterGateModeTag == {"heuristic", "embedding", "always"}
RecordRetrieveRewriterGateFired == \E mode \in RetrieveRewriterGateModeTag :
    Record("recordRetrieveRewriterGateFired", mode,
        <<Counter("memoryRetrieveRewriterGateFired", 1, [gate_mode |-> mode])>>)

RetrieveRewriterGateSkippedSample ==
    [gateMode : RetrieveRewriterGateModeTag,
     reason : {"below_threshold", "no_history", "unavailable", "empty_message"}]
RecordRetrieveRewriterGateSkipped == \E s \in RetrieveRewriterGateSkippedSample :
    Record("recordRetrieveRewriterGateSkipped", s,
        <<Counter("memoryRetrieveRewriterGateSkipped", 1, s)>>)

RecordRetrieveRewriterGateCosine == Record("recordRetrieveRewriterGateCosine", NoValue,
    <<Observe("memoryRetrieveRewriterGateCosineScore", [gate_mode |-> "embedding"])>>)

-----------------------------------------------------------------------------
(* Tasks, the scheduler, webhooks and the Telegram channel.                *)

TaskOriginTag == {"cli", "tui", "http", "sidecar", "scheduler", "agent"}

TaskCreatedSample == [sessionId : Sessions, origin : TaskOriginTag]
RecordTaskCreated == \E s \in TaskCreatedSample :
    Record("recordTaskCreated", s, <<Counter("tasksCreated", 1, s)>>)

TaskStartedSample == [sessionId : Sessions, origin : {"cli"}, attempt : {1, 2}]
RecordTaskStarted == \E s \in TaskStartedSample :
    Record("recordTaskStarted", s, <<Counter("tasksStarted", 1, s)>>)

TaskRetrySample == [sessionId : Sessions, category : LlmFailureCategory, attempt : {1}]
RecordTaskRetry == \E s \in TaskRetrySample :
    Record("recordTaskRetry", s, <<Counter("tasksRetried", 1, s)>>)

TASK_STATUS_COUNTER ==
    [completed |-> "tasksCompleted", failed |-> "tasksFailed", blocked |-> "tasksBlocked",
     cancelled |-> "tasksCancelled"]
TaskTerminalSample ==
    [sessionId : Sessions, origin : {"cli", "scheduler"}, status : DOMAIN TASK_STATUS_COUNTER]
RecordTaskTerminal == \E s \in TaskTerminalSample : Record("recordTaskTerminal", s,
    <<Counter(TASK_STATUS_COUNTER[s.status], 1, s), Observe("tasksAttempts", s),
      Observe("tasksDuration", s)>>)

TaskScheduledSample == [taskId : Ids, kind : {"at", "cron", "interval"}, recurring : BOOLEAN]
RecordTaskScheduled == \E s \in TaskScheduledSample :
    Record("recordTaskScheduled", s, <<Counter("tasksScheduled", 1, s)>>)

TaskRecurringRequeuedSample == [taskId : Ids, sessionId : Sessions]
RecordTaskRecurringRequeued == \E s \in TaskRecurringRequeuedSample :
    Record("recordTaskRecurringRequeued", s, <<Counter("tasksRecurringRequeued", 1, s)>>)

TaskSessionRecreatedSample ==
    [taskId : Ids, previousSessionId : Sessions, newSessionId : Sessions]
RecordTaskSessionRecreated == \E s \in TaskSessionRecreatedSample :
    Record("recordTaskSessionRecreated", s, <<Counter("tasksSessionRecreated", 1, s)>>)

TaskSessionAutoCreatedSample ==
    [sessionId : Sessions, reason : {"one_shot_lazy", "recurring_create", "webhook_persistent"}]
RecordTaskSessionAutoCreated == \E s \in TaskSessionAutoCreatedSample :
    Record("recordTaskSessionAutoCreated", s, <<Counter("tasksSessionAutoCreated", 1, s)>>)

SchedulerTickSample == [outcome : {"ok", "error"}]
RecordSchedulerTick == \E s \in SchedulerTickSample : Record("recordSchedulerTick", s,
    <<Counter("schedulerTicks", 1, s)>>
    \o (IF s.outcome = "error" THEN <<Counter("schedulerTickErrors", 1, s)>> ELSE <<>>)
    \o <<Observe("schedulerBatchSize", s), Observe("schedulerTickDuration", s)>>)

WebhookReceivedSample == [webhookName : Ids, status : {"accepted", "rejected"}]
RecordWebhookReceived == \E s \in WebhookReceivedSample :
    Record("recordWebhookReceived", s, <<Counter("webhooksReceived", 1, s)>>)

RecordTelegramUp == Record("recordTelegramUp", NoValue, <<Counter("telegramUp", 1, <<>>)>>)

TelegramLifecycleSample == [outcome : {"ok", "error"}, reason : Ids \cup {NoValue}]
RecordTelegramDown == \E s \in TelegramLifecycleSample : Record("recordTelegramDown", s,
    <<Counter("telegramDown", 1, [outcome |-> s.outcome] @@ Optional("reason", s.reason))>>)

TelegramMessageSample == [direction : {"in", "out"}]
RecordTelegramMessage == \E s \in TelegramMessageSample : Record("recordTelegramMessage", s,
    <<Counter(IF s.direction = "in" THEN "telegramMessagesReceived" ELSE "telegramMessagesSent",
              1, s)>>)

TelegramApprovalSample == [resolver : {"button", "timeout", "external"}, approved : BOOLEAN]
RecordTelegramApprovalResolved == \E s \in TelegramApprovalSample :
    Record("recordTelegramApprovalResolved", s, <<Counter("telegramApprovalsResolved", 1, s)>>)

-----------------------------------------------------------------------------
RunReports ==
    \/ RecordStep \/ RecordLlmCall \/ RecordTool \/ RecordLlmFailure \/ RecordBatchTrimmed
    \/ RecordApproval
MemoryReports ==
    \/ RecordReflection \/ RecordMemoryDedup \/ RecordMemoryEviction \/ RecordMemoryClockSkew
    \/ RecordMemoryEmbeddingsGenerated \/ RecordMemoryEmbeddingsFallback
    \/ RecordMemoryEmbeddingsBruteForceOverflow \/ RecordMemoryEmbeddingsDaemonHealth
    \/ RecordLinkGenerator \/ RecordMemoryLinkExpansion \/ RecordMemoryEvolution
    \/ RecordLessonCreated \/ RecordLessonDeprecated \/ RecordLessonsRecalled
    \/ RecordProcedureCreated \/ RecordProcedureDeprecated \/ RecordProceduresRecalled
    \/ RecordProcedureUsed \/ RecordConsolidationRun \/ RecordConsolidationDistillLatency
    \/ RecordProfileSuperseded \/ RecordVotingRunner \/ RecordVotingApplied
    \/ RecordVotingRejected \/ RecordVotingDecayed \/ RecordRetrieveRewriter
    \/ RecordRetrieveRewriterGateFired \/ RecordRetrieveRewriterGateSkipped
    \/ RecordRetrieveRewriterGateCosine
ServiceReports ==
    \/ RecordTaskCreated \/ RecordTaskStarted \/ RecordTaskRetry \/ RecordTaskTerminal
    \/ RecordTaskScheduled \/ RecordTaskRecurringRequeued \/ RecordTaskSessionRecreated
    \/ RecordTaskSessionAutoCreated \/ RecordSchedulerTick \/ RecordWebhookReceived
    \/ RecordTelegramUp \/ RecordTelegramDown \/ RecordTelegramMessage
    \/ RecordTelegramApprovalResolved

MetricsNext == RunReports \/ MemoryReports \/ ServiceReports \/ Emit \/ Log
MetricsSpec == MetricsInit /\ [][MetricsNext]_metricsVars

-----------------------------------------------------------------------------
(* Properties.                                                             *)

Total(names) == SumOver(counters, {key \in DOMAIN counters : key[1] \in names})
Calls(method) == Cardinality({i \in DOMAIN history : history[i].method = method})

\* By call, the rows it reports as evicted.
EvictedBy(call) == IF call.method = "recordMemoryEviction" THEN call.sample.evicted ELSE 0
Evicted == [i \in DOMAIN history |-> EvictedBy(history[i])]

\* The counters of which each call of a method moves exactly one, and by one.
Split ==
    [recordTool |-> {"toolSuccess", "toolFailure"},
     recordApproval |-> {"approvalGranted", "approvalDenied"},
     recordMemoryDedup |-> {"memoryDedupMerged", "memoryDedupSkipped"},
     recordMemoryEvolution |-> {"memoryEvolutionApplied", "memoryEvolutionSkipped"},
     recordTaskTerminal |-> {"tasksCompleted", "tasksFailed", "tasksBlocked", "tasksCancelled"},
     recordTelegramMessage |-> {"telegramMessagesReceived", "telegramMessagesSent"}]

\* The counters that go with a histogram of the same tags.
Paired == {<<"memoryReflection", "memoryReflectionLatency">>,
           <<"memoryLinkGenerator", "memoryLinkGeneratorDuration">>,
           <<"memoryVotingRunner", "memoryVotingRunnerLatency">>,
           <<"memoryRetrieveRewriter", "memoryRetrieveRewriterDuration">>,
           <<"stepOutcome", "stepDuration">>, <<"schedulerTicks", "schedulerTickDuration">>}

\* Between two calls the counters of a split add up: every report is in exactly one of
\* them, so that the ratios the comments of agent-metrics.ts promise (merge ratio, error
\* rate) can be computed, deleted rows are counted as rows, failed ticks are ticks, and a
\* sink that threw on no latency of some tags has one for each outcome counted with them.
ReportsAddUp == pending = <<>> =>
    /\ \A method \in DOMAIN Split : Total(Split[method]) = Calls(method)
    /\ Total({"toolCall"}) = Total({"toolSuccess", "toolFailure"})
    /\ Total({"approvalRequested"}) = Total({"approvalGranted", "approvalDenied"})
    /\ Total({"schedulerTickErrors"}) <= Total({"schedulerTicks"})
    /\ Total({"memoryEvictionEvicted"}) = SumOver(Evicted, DOMAIN history)
    /\ \A s \in Sinks, key \in DOMAIN counters, pair \in Paired :
          key[1] = pair[1] /\ <<pair[2], key[2]>> \notin missed[s] =>
              ValueOf(seen[s], <<pair[2], key[2]>>) = counters[key]

\* Whatever a sink throws on, it holds the collector's value of every counter whose last
\* emission it took, also of the emissions between which other sinks threw; and the
\* records of the log it did not throw on (metrics-collector.ts 72-80,
\* structured-logger.ts 46-60).
SinksFollow == \A s \in Sinks :
    /\ \A key \in DOMAIN counters : key \notin missed[s] => ValueOf(seen[s], key) = counters[key]
    /\ <<"log", <<>>>> \notin missed[s] => log[s] = Kept(logged, Enabled)
=============================================================================
