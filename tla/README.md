# TLA+ models of TT3DatoE

TT3DatoE is a TypeScript monorepo for a personal agent: a core that keeps a
semantic memory and gates what the agent may do, an LLM router with a token
budget, the tools the agent calls, and traces of what it did. This directory
holds TLA+ models of its stateful parts, the TLC runs that check them on small
instances and proofs, checked by TLAPS, that hold for every value of the
constants. `PROJECT.json` maps every definition to the lines it models.

## 1. Inventory

Paths are below `src/packages/`. Several packages (`app-core`, `core/src`,
`core/federation`, `core/swarm`, `sync`, `ui`, the apps) are one-line stubs; the
agent loop, the message queue, the `/approve` command and the callers of the
budget are not in the repository and are modelled from how the code that is
there uses them, and marked external in the map.

| Component | State it keeps | Operations | What is hard | What makes it correct |
| --- | --- | --- | --- | --- |
| **Memory** `core/memory/src` | `knowledge`, `evidence`, `status_transitions`, snapshot files | insert, use, promote, verify, curate, consolidate, snapshot | no transactions: a crash between two statements; the await of the LLM inside a consolidation; three passes over a changing table | no status without evidence, no promotion without the owner, nothing refuted that no snapshot has, a duplicate survives |
| **Context** `core/memory/src/context.ts`, `episodes.ts` | `episodes` | append, tail, search, build a turn's context | one budget over three lists, what is recalled may be in the tail, episodes of one millisecond | the budget, no hole in the talk, nothing twice, quarantined text under its header |
| **Gate** `core/trust-domains/gate` | `pending_actions`, MCP registry, broker and gate health | evaluate, create, check, consume, (un)register | racing `/approve` handlers, crash between consume and execution, expiry, registry changes in between | one approval, one execution; second factor kept; a skill never lowers a verdict |
| **Quarantine** `core/trust-domains/quarantine` | none | validate a payload | – | – |
| **Budget** `llm-router/budget` | `budget_daily` | check, book | check and booking are separated by the LLM call; midnight; restarts | bounded overshoot, exhaustion marked once, the day's limit fixed |
| **Key policy** `llm-router/rotation/apiKeyPolicy.ts` | none of its own: the key table, the limiter's counters | the checks of a request, the check of a routing target | seven checks with an await each, of which any may fail and only the last consumes; the key changes in between; two copies of the access rules | a charge for what passed everything and for nothing else, nothing admitted over a failure, no target wider than the policy |
| **Peer routing** `llm-router/rotation/peerRouting.ts` | the trace header of a request | inspect, extend, refuse | loops between gateways, hop limits that differ, peers that are none | no gateway twice, every request answered |
| **Auto-combo** `llm-router/auto-combo` | counters of combos | score and order candidates | – | – |
| **Traces** `traces/trace` | the recorder's closure, the sink's accounts, the session file | record, push, append | batches executed out of order, abandoned steps, failing writes, restarts on an existing file | events paired with their calls, no silent gap, the cap |
| **Metrics and logs** `traces/*.ts` | the collector's counters, what each sink was given | some fifty record methods, increment, observe, log | a sink that throws in the middle of an emission; a call that is several counters | the counters of one report add up, no sink loses what another throws on |
| **File tools** `tools/filesystem/fs-*` | files | write, edit, patch, trash, read | contents read before an approval is awaited and written after it; partial failure | what is approved is what is written |
| **Glob, watch** `tools/filesystem/fs-glob.ts`, `fs-watch.ts` | the stack of the walk; the list of events and the deadline | walk, match, sort, cut; watch and stop | a tree that changes between two awaits, a ceiling and a limit; four ends of a watch that race | all that is there is found or said to be cut off, a pattern without bare wildcards matches what it means; the watch says why it ended |
| **Archives** `tools/filesystem/archive` | the extracted tree | list, extract, read an entry | entries that repeat, overlap, link to each other or fail half way; limits charged before the write | no more than the limits and the report say, no less than it lists, nothing else touched |
| **Documents** `tools/filesystem/read-document` | none | convert | – | – |
| **Web tools** `tools/filesystem/web-*`, `http-request*` | search cache | fetch, request, search | the name resolved again for every hop, redirects that change host and method, a chain of providers over cached and failing answers | every hop checked, the approved method, no results only where somebody answered so |
| **Shell** `tools/shell` | none of its own | expand, guard, ask, run | precedence of the rule tables, a rule that throws, globs expanded before the approval | nothing runs unasked that a rule would have stopped; what was shown is what runs |
| **Processes, git, GitHub, clipboard, windows** `tools/*` | none | run one program each | – | – |
| **Browser** `tools/browser` | the ready promise, the spawned Chrome, profile locks | launch, clear locks, shut down, act on pages | a pid read, probed and trusted in three steps; two launches; a shutdown in the middle of one | no living browser it can recognise loses its locks, no Chrome is forgotten |

They meet in few places: the tools ask for approval, which is the gate's; consolidation
calls an LLM, which the budget accounts for; the agent loop feeds the traces; a request
that passed the key policy is routed, perhaps to a peer. The code that wires them is not
in the repository, so each is modelled with its environment rather than composed.

The hazards, at the lines where they bite, are in `PROJECT.json`.

## 2. Modules

| Module | Models | Proofs | Model checking |
| --- | --- | --- | --- |
| `Memory` | `knowledge.ts`, `promotion.ts`, `verifier.ts`, `curation.ts`, `consolidation.ts`, `snapshot.ts` | `MemoryProofs` | `MCMemory` |
| `HumanGate` | the abstract promise of the gate | | |
| `Approval` | `engine.ts`, `actions.ts`, `mcp-actions.ts`, `pending.ts`, `approve-check.ts`, `second-factor.ts`, `channels.ts`, `totp.ts`; implements `HumanGate` | `ApprovalProofs` | `MCApproval` |
| `Budget` | `budget/engine.ts` | `BudgetProofs` | `MCGateway`, `MCBudget` |
| `Context` | `context.ts`, `episodes.ts` | `GatewayProofs` | `MCGateway` |
| `ApiKeyPolicy` | `apiKeyPolicy.ts` | `GatewayProofs` | `MCGateway` |
| `PeerRouting` | `peerRouting.ts` | `GatewayProofs` | `MCGateway` |
| `Traces` | `trace-recorder.ts`, `trace-bus.ts`, `trace-sink.ts` | `TracesProofs` | `MCTraces`, `MCTracesMarker` |
| `Metrics` | `agent-metrics.ts`, `metrics-collector.ts`, `structured-logger.ts`, `ndjson-sinks.ts` | `TracesProofs` | `MCTraces` |
| `FileTools` | `fs-write.ts`, `fs-edit.ts`, `fs-patch.ts`, `fs-trash.ts` | `FileToolsProofs` | `MCTools`, `MCFileTools` |
| `Glob` | `fs-glob.ts` | `FileToolsProofs` | `MCTools` |
| `Watch` | `fs-watch.ts` | `FileToolsProofs` | `MCTools` |
| `Archive` | `archive/*.ts` | `HostToolsProofs` | `MCTools` |
| `Shell` | `shell/**/*.ts`: the call, the glob expansion, the guard and its rules | `HostToolsProofs` | `MCTools` |
| `Web` | `http-request.ts`, `http-request-fetch.ts`, `web-fetch*.ts`, `web-search/*.ts` | `HostToolsProofs` | `MCTools` |
| `Browser` | `playwright-backend.ts`, `spawn-chrome.ts`, `clear-stale-chrome-locks.ts` | `HostToolsProofs` | `MCTools`, `MCBrowser` |
| `Selection` | the `filter` method of an array, and sums, as recursive functions | | |
| `Recursion` | lemmas: induction, recursive functions, filters, sums | itself | |

Definitions whose comment begins with *Fault:* are not part of a specification.
Each is a plausible mistake in the definition after it, kept so that one can
see which property notices it: `PROJECT.json` lists the pairs under `mutants`.

### Memory

`knowledge`, `evidence` and `journal` are the tables `knowledge`, `evidence` and
`status_transitions`, indexed by row id. Of a row's evidence the model keeps how
many pieces there are (the code has a limit) and of which types; of the journal,
the last `to_status`; of a row's title and body, the key that `normalizeKey`
makes of them, and whether the body is blank.

better-sqlite3 is synchronous, so a handler owns the event loop between awaits:
`job` is the handler that runs, `job.at` its next statement and `job.calls` the
calls of the promotion gate it still has to make. Every SQL statement that
writes is a step, and `Crash` may come between any two of them. The order of the
calls in a pass is left open where the query has no ORDER BY. A consolidation is
cut where the code awaits: `StartConsolidation` lists the batch and takes the
snapshot, `LlmAnswers` gets any plan that `validateConsolidationPlan` lets
through (`Plans`), and several runs may wait at the same time (`awaiting`).
`EvidenceLimit` is the exception of `addEvidence`, which leaves the whole run.
`preserved` is a history variable: the ids that are active in some snapshot.

### Context

`episodes` is the table, in which an episode's place is its id; `turn` is the last
context with what was `gathered` for it and what was `sent`. Every text is its
length, and the formats of the two blocks are the lengths they add. The order of the
tail is that of `created_at` alone, so that episodes of one millisecond come in any
order; the full text search finds any episodes in any order. `TrimContextToBudget` is
the loop of the code, a recursive function of the rounds, as many as there are things to
drop. `OneMore` puts the last thing that was dropped back, for the property only.

### Gate and pending actions

`Evaluate` is `evaluate` of `engine.ts`, over the core registry and `mcp`;
`ResolveRequiredChannel` and `CheckPendingApproval` are the second factor.
`pending` is the table, a handler of `/approve` is peek and check (`Approve`),
the SELECT of `consume`, its UPDATE, and `Perform`. These are separate steps
because several processes share the SQLite file; this is what the guarded UPDATE
and its row count are for. `settings` is the configuration; `has2faCols` is in
it because an old schema drops the second factor. A token is drawn once. `by`
and `performed` are history variables, and so is the `hinted` field of a row, what
`formatApproveHint` told the owner.

`HumanGate` says the same in one variable per ticket: asked, granted, then
performed once or void. `GateSpec` is that specification under the mapping
`Ticket`.

### Budget

`days` is `budget_daily`. `CanSpend` is the check (it makes the row of the day
even where it refuses), the LLM call is what happens between `CanSpend` and
`RecordDay`, and `RecordDay`/`RecordUsage` are the two statements of
`recordUsage`; the clock may pass midnight between any two, and `Restart`
changes the configuration while other processes' calls are under way. What a call
uses is independent of its estimate, as nothing relates the two in the code.

### Key policy

`requests` says of each request which check it comes to next (`at`), the metadata
it was read with (`policy`), what failed on its way, how often it was charged and
how many targets were tried for it. `enforceApiKeyPolicy` awaits between its
checks, so each of `ReadMetadata`, `CheckUsage`, `CheckQuota`, `CheckModel`,
`CheckRate` and `Throttle` is a step, and `ChangeKey` (the dashboard), `HourPasses`
and other requests come in between; what the code does without an await (status
and schedule, usage and endpoint, model and budget) is one step. The metadata is
read once, but `isModelAllowedForKey` looks at the row as it is then (`Listed`).
The services asked are not in the repository: each may answer either way or throw.
`QuotaVerdict` with `ModelVerdict` and `RoutingVerdict` are the two copies of the
access rules, the second for the targets that routing tries later. A day has
`HourCount` hours.

### Peer routing

One request is followed through a `federation` (ids, hop limits, peers and
upstreams of every gateway, one of those the run names). `stack` are the gateways
that wait for the answer of the next one, with the trace each received, so that
what is tried in one branch leaves no mark in another. `Receive` inspects and
refuses, `Forward` extends the trace for a configured peer and sends none to any
other upstream. How the proxy chooses and retries upstreams is external: any order,
each once. A header is the sequence of its ids, `NoId` for what is not one, and reads as
none beyond `HeaderCap` of them.

### Traces

`loop` is the agent loop, which the repository only shows from the side of its
events; `recorder` and `sink` are the closures of `createTraceRecorder` and
`createNdjsonTraceSink`; `file` and `bytes` outlive the process. An event is
delivered within the step that records it, as the bus is synchronous; the sink
may find the directory missing, the event unserialisable or the append failing.
A `stat` fails only on a file that does not exist, as the comment in
`resolveState` has it. `last` keeps of the last event what the properties look
at; `skipped` records the events that were passed over.

### Metrics and log

A call of a record method is a sequence of emissions (`pending`), handed to the
collector one at a time; the collector updates its own counter and passes the emission
to every sink, of which each may throw. `counters` is the collector's map by name and
tags, `seen` what each sink holds, `missed` the keys whose last emission it threw on,
`history` the calls made, `logged` those of the logger. Names and tags are those of
`agent-metrics.ts`; of the values of histograms and gauges only that they came is kept.

### File tools

`disk` is what the paths hold, a sequence of lines or nothing, and `runs` says of
each tool call where it stands: the texts its approval was asked for (`shown`), the
targets it has read or looked at (`read`) and those it has changed (`done`), and
what it returned. A step ends at every await, because other calls, other programs
(`OtherWriter`) and a crash may come there; the approval is the longest of them
(`Approve` also stands for a configuration that requires none). `writeFile` is two
steps, as it empties the file before it fills it (`OpenFile`, `FillFile`); where it
fails, part of the text is in the file. By the time it writes, the path may lead to
another file, which an edit has renamed into place. `rename` is one step.
`atomicWrite` removes its temporary file in a catch whose own failure is ignored
(`Unlink`); `temps` are the files that remain. On Linux all paths go to one
command, `gio` and then `trash-put`, which may move any subset of them before it
fails; elsewhere one goes after the other.

The approval itself is not in the repository. Neither is `applyPatch` of the
`diff` package, of which the model has one hunk per file without a fuzz factor. Two
`writeFile` calls on one file end with the text of one of them: a mixture of their
bytes, which the operating system allows, is not modelled.

### Glob and watch

`walk.frames` is the stack of the recursive walk, each frame a directory with the
entries that `readdir` returned and that are still to be visited; every await is the
end of a step, and others change `globTree` in between (`touched` remembers where). The
kind of an entry is what `readdir` saw, its mtime what `stat` says later. Patterns
are compared on two levels. A caller means a sequence of segments (`Denotes`) and
writes it down (`GlobText`); `CompileGlob` reads that text character by character, as
the code does, into the pieces of a regular expression, whose meaning is `Reaches`.
`PatternsMean` says that the two agree on every pattern and every path of the
instance, unless the pattern is `Bare`.

A `*` or a `?` that is escaped or in braces is bare: `escapeRegexChar` lets both through,
so that they arrive in the expression as quantifiers of what is before them. `a\*` becomes
`a*`, which takes `aaa` and not `a*`; `\*` and `{*.ts}` have nothing to repeat, `new RegExp`
throws, and the call fails (`Valid`, `Compiles`). The model compiles, repeats and fails as
the code does. What a walk with such a pattern should find is what its expression takes
(`Means`), and `WalksComplete` has a call fail over nothing else. A number in braces after
a bare `{` would be a quantifier too; the characters of the model have no digits.

`watching` is one watch: what chokidar reported (`happened`), what the call lists of
it (`collected`), whether the deadline is `armed`, and how much had happened when the
promise was resolved (`settled`). A signal that was aborted before the listener was
added never ends a watch (`deaf`), which then runs to its deadline. `maxEvents` may be 0:
`parseMaxEvents` lets a fraction below 1 through before it floors it.

### Archives

A name is the sequence of its segments and an archive a sequence of entries
`[name, kind, size, to]`. `tree` is what is at each path, in `destDir` and outside of it: a
kind, who wrote it, its size, and in `to` what a symlink holds; for a file `to` tells it
apart from others, and hard links have it in common. At first there are files and no links.

An extraction asks, picks its backend (by name, then by the bytes), and then goes entry
by entry: name sanitised, filter, limits charged, existence asked, parent made, content
or link written, each call a step that may fail, with other programs (`OtherProgram`)
and other extractions in between. A write that fails leaves a part. `ReadEntry` is what
`read_entry` shows of the same archive.

Names are vetted by what they say (`Sanitize`), as the code does it; what is behind one
is found as the operating system finds it (`Real`). A path is taken from turn to turn
(`Turns`, `Turned`): the first link on it is replaced by what it holds, from where the
link is or from the root, and the first `..` leads to the directory above the one that
is there, which after a link is not the one by name. A path with more than `MaxHops`
turns fails (ELOOP). So `mkdir` and `writeFile` go wherever the links lead. A symlink
`b/c` to `/e` is vetted as `b//e`, let through, and made as it is; a later entry `b/c`
is then written to `/e`.

A zip is an object of names, in which a repeated name stands where it came first and is
the one that came last; that an object moves names like `7` to the front is left out. A hard
link to a symlink is one to the symlink or to what it leads to: that is the platform's
choice, and the model has both. What the zip and tar libraries make of a damaged file is
not modelled.

### Shell

A command is a string `cmd` and strings `args`, taken as they are. What the code makes of a
string is given by operators that the run defines by a table: its words (`Split`), its last
part as a path (`Base`), its plain form (`Plain`: NFKC, no escapes, a space for a control
character), lower case, and what characters it has (`Has`). The guard judges the normal
form of the input: a line for the shell is cut at white space and its first word taken for
the command (`GuardInput`), a command loses its directory, and everything is plain and in
lower case (`NormaliseCommand`). What runs are the strings themselves, the line with
`sh -c` or the command with its arguments after `Expand`, whose globs are those of paths for
every command and of names for a few, cut at `MaxGlobMatches`.

The tables of rules are cut down to representatives and the two sets of patterns are
constants (`Hardline`, `Dangerous`). `threw` is the rule that threw in a call's guard, or
the normalisation; `shown` what an approval showed, empty where none was asked for.
`GuardedRun` speaks of the normal form of what runs: that is all the guard sees, and more
it does not promise (see 6). On Windows the arguments of a line are quoted after the
approval; that is taken for formatting.

### Web tools

`webCalls` are the calls, `dns` what a name resolves to now. A hop is a step for
the check (`resolve`, every address judged, one pinned), a step for the connection
to the pinned address, and the redirect, which goes back to the check. Addresses
are sequences of octets or hextets and the private ranges are nets with prefixes, as in
`web-fetch-ssrf-guard.ts`, compared digit by digit (`SamePrefix`); the property states the
same ranges as intervals. A
search walks its chain of providers over a cache with a time to live and a size;
`answered` is a history variable with what each provider ever said. The answers are
kinds of bodies: results, none, a challenge, a refusal, a page. The providers that
parse their answer as exa does share its definition.

### Browser

`processes` is the operating system: browsers start, end and get pids that were
used before, at any time. Some are of another user (`stranger`), some on another host that
shares the profile (`Away`). `locks` are the files of the profile and who wrote them; a
launch reads the pid of the lock, probes it and removes the files, each on its own, then
spawns and waits for the debugging port. It takes three living browsers for dead ones, and
the model does too: of a lock that cannot be read it has no pid (`ReadLock`), of a browser
on another host it looks up the number on this one, and a process it may not signal (EPERM)
does not count as alive (`Alive`). `Recognised` is the browser that is none of the three.
`backend` holds the ready promise and the process to stop. A shutdown clears both, asks
Chrome to close, waits and kills.

## 3. Runs

All runs are under the bounds named in the configurations; bounds are the
constants whose names begin with `Max`, except `MaxEvidence`, `MaxMerges` and
`MaxUsage`, which are parameters of the code.

| Run | Shows | Why the bounds are enough |
| --- | --- | --- |
| `memory` | `EvidenceBacked`, `NoSelfConfirmation`, `TransitionsLegal`, `JournalLag`, `RefutedRecoverable`, `DedupKeepsOne` | two rows callers insert and the summaries merges insert; the two are duplicates, make a batch, and reach the evidence limit of 2; one crash, two instants. 6 million states |
| `approval` | `AtMostOnce`, `NothingLost`, `SecondFactorHeld`, `SkillNeverLowers`, `GateSpec` | two handlers race for one token while another waits; both channels, TOTP and the old schema; expiry within the clock; two changes of registry or health; one crash |
| `approval_live` | `SpentOrExpired` | as above with one token and no symmetry |
| `traces` | `CallsArePaired`, `MessagesBelong`, `NoGaps`, `CapBounded`, `ReportsAddUp`, `SinksFollow` | trace: batches of two, two turns, three processes on one file, two faults, a cap of four bytes; metrics: every method with two samples, and two sinks of which one throws once, at any emission; calls of the logger come between those of any one method. 2.1 million states |
| `gateway` | `RoutingNeverWidens`, `ChargedOnce`, `FailClosed`, `ScheduleIsInterval`, `NoRevisit`, `PeersAnswer`; `ContextSound`; `TypeOK`, `OvershootBounded`, `ExhaustedMarked`, `DayIsFixed` | policy: two requests with one key, five metadata records that between them have every kind of rule, four kinds of models, two changes of the key, an hour that passes; peers: four federations of three gateways (different hop limits, an id used twice, one without an id, one that is nobody's peer), headers of none, one and more ids than the cap of four, a trace that is lost twice; context: every history of three episodes of four kinds in two sessions over two instants, tails and recalls of two, a budget that the facts alone exceed, one that a part of the talk fits in, and none; budget: three overlapping calls, two days, two configurations of which one has no pool for the scheduler. 810 thousand states |
| `tools` | `TempsRemoved`, `ReportsTrue`, `AsApproved`; `GlobFinds`; `WatchTells`; `ExtractionHonest`; `GuardedRun`, `RunsAsShown`; `HopsAreGuarded`, `SearchHonest`; `BrowsersAreKept` | files: two calls race for two files, each any of eight (a unique and a global edit, a patch and its dry run, a write, an append, a trash on either kind of platform), two faults (as many as it takes to lose a temporary file), one other change, one crash. Glob: two trees of seven paths in three levels, six calls (a limit below, at and above what there is, both orders, ignored files and directories, escaped wildcards, wildcards in braces, an expression that is none), a ceiling of three files, one change by others; 200 patterns on 186 paths. Watch: three calls, three kinds of events, three events. Archive: one extraction of any of eleven archives (repeated names, names that leave the directory, links to earlier and later entries, through one another and to themselves, out of the directory and followed by `..`, hard links to dangling symlinks, a device, a wrong extension) under limits that are met by bytes or by entries, one failing call, two acts of another program. Shell: 27 lines for every rule, each pair of rules that compete, and strings that are not what they are judged as (a directory, upper case, escapes, separators), one rule that throws, three changes of the directory with two matches for a glob. Web: one call of each tool, one change of the DNS and one failing curl, a clock of one time to live, a cache of one entry. Browser: two launches and a shutdown over two pids, one other browser of this user, of another or of another host, one fault. 1.28 million states |

Six runs show a disagreement between a text of the repository and the code:

- `memory_late_merge` (`MergesCorroboratedOnly`): the batch of a consolidation
  is "corroborated facts" (`knowledge.ts:130`), but it is fixed before the LLM is
  awaited. A row that the owner verifies meanwhile is refuted by the merge.
- `approval_hint` (`HintEnforced`): the owner is told "Confirm from ..." for any
  of five channels (`second-factor.ts:45`), but `mapRow` reads back Telegram,
  Discord and TOTP only. A requirement of webchat, matrix or slack is stored,
  shown, and not enforced.
- `budget_reserve` (`ReserveKept`): "the scheduler cannot spend once the available
  pool is exhausted" (`budget/engine.ts:20`), but the check holds nothing back:
  two overlapping calls spend the owner's reserve.
- `traces_marker` (`MarkerFinal`): "a single final `trace_truncated` marker"
  (`trace-sink.ts:14`), but a restarted sink knows the size of the file only and
  writes on after the marker while the file is below its cap.
- `patch_lands` (`PatchLands`): "either the whole patch lands, or we bail before
  writing anything" (`fs-patch.ts:75`), but every section is applied to the content
  read for the preview. Of two sections for one file the second overwrites the
  first, and the tool reports the patch as applied.
- `browser_locks` (`LivingLocksStay`): "Never touch locks held by a living browser"
  (`clear-stale-chrome-locks.ts:13`), but `isProcessAlive` takes every error of the
  signal for the process's absence. A browser of another user, which may not be
  signalled, lives and loses its lock files.

No run checks deadlock: each of the systems may stop (no request, no event, the bounds
of the model reached). There are two liveness properties. `SpentOrExpired` is under weak
fairness of the steps of each `/approve` handler: a handler that was called runs to its
end, as synchronous code does; requests, approvals, ticks and crashes are not fair. A
crash is excepted in the property itself. `PeersAnswer` is under weak fairness of
`PeerProgress`: a gateway that has the request inspects it, passes it on or gives up, in
code that runs to its end; neither clients nor providers are fair, so that what ends a
request is the trace. It is stated for federations in which every gateway marks what it
passes on: without a mark a request may go round as long as the routers like, which is
what the bound `MaxUnmarked` cuts.

In `traces`, `gateway` and `tools` several modules that share no state are checked
in one run: the variable `part` fixes in the initial state which of them moves,
and the others rest in one initial state. A behaviour is of one part, and the
states are the sum and not the product.

`approval` and `tools` are symmetric in handlers, tokens and tool calls, as their
configurations say; the temporal properties are checked without symmetry.

## 4. Proofs

Every theorem is for arbitrary constants under the named ASSUME of its module,
which TLC evaluates in the runs. They all go the same way: an inductive
invariant, one lemma (or one step) per action, and a QED by PTL.

- `MemoryProofs`. `TypeCorrect` carries the typing of `job` and `awaiting` along
  with `TypeOK`: an id in a call or a batch is a row. `StatusIsBacked` needs that
  the call whose status comes next has its evidence already, which holds because
  evidence only grows and because every call pairs a type with a status.
  `OnlyTheOwnerConfirms` needs that a call under way that lifts an untrusted row
  is one of the owner's, as `TryAutoCorroborate` looks at the provenance, which
  never changes. `GatesAreKept` needs that the ids a curation still has to refute
  are active (they are distinct, and one handler runs at a time).
  `RefutedIsPreserved` needs that the ids of every batch and of every pass are in
  `preserved`, which only grows.
  `JournalIsBehindByCrashes` counts (`LagInv`): the rows whose journal lags, but for the
  one whose entry is written next, are at most as many as the crashes; only a crash
  between the two statements gives that one away. It assumes that NULL is no status.
  `LastDuplicateStays` (`DedupInv`): every row the pass refutes or is about to has a
  later equal one among those it does not touch, and of two equal active rows the
  earlier is one it refutes. That a group has a last row, whatever its size, is a
  well-foundedness argument over the distances from the table's end (`LastOf`).
- `ApprovalProofs`. `ExecutedOnce` rests on: at most one handler holds a consumed
  token, the token is marked consumed, and it was not performed yet.
  `ImplementsHumanGate` maps each action to a ticket's step or a stutter; it needs
  the same invariant. `SkillOnlyRaises` is a case analysis over the verdicts.
  `SecondFactorIsHeld` carries the origin along (`FactorInv`): a row names the other
  channel as required, only irreversible actions wait, and every handler that was let
  through, and every approval taken, came from the channel its row names.
  `NoTokenIsLost` counts (`LossInv`): the tokens consumed, run, refused and those that
  handlers hold are finite, and a step moves one of them from one set to another.
- `BudgetProofs`. `OvershootIsBounded` is the interesting one: what a day has used
  plus `MaxUsage` for every call still to be booked on it stays within its limit
  plus `MaxUsage` for every caller (`RoomLeft`). A check that lets a call through
  sees the day within its limit; after midnight the pending calls count against a
  day that has no row yet (`NoRowAhead`). The arithmetic of products and the
  cardinality of a set with one element less are lemmas.
- `TracesProofs`. `CapIsKept` relates the sink's account to the size of the file:
  they agree until the sink has stopped. `ToolCallsArePaired` needs that a call that
  is parsed and not executed is in `recorder.calls` with the place of the step it
  belongs to, whatever a failed loop left there before. `NothingIsSkippedSilently`
  (`GapInv`): the lines of a process stand in order, they and the reported drops account
  for a prefix of its events, and for all of them as long as the sink has not stopped; a
  new process owns no line, because no line is of a later boot than the current one.
- `TracesProofs`, metrics. `SinksKeepUp` needs that no counter has the name of a histogram
  or a gauge (`Agreed`). `ReportsBalance` looks ahead (`SumsInv`): what the counters of some
  names add up to, with what the emissions of the call in progress will add (`Due`), already
  is what the calls account for, so that a delivery moves a sum from the one to the other
  and changes nothing (`EmitBalances`), and only the call itself does (`RecordBalances`).
  What remains is a sum of at most four emissions for each of the methods (`AllReport`). A
  sink is compared with the counters only where it never threw on an observation with those
  tags, as a histogram that was missed once stays one short.
- `GatewayProofs`, key policy. `RoutingIsNarrower` is a comparison of the two copies of
  the access rules, for every metadata and all answers. `RequestsAreChargedOnce` and
  `ChecksFailClosed` share an invariant about one request (`PolicyInv`): between two
  checks it has its policy, nothing of it failed and it costs nothing yet; once let
  through it costs what the policy says (`Price`). As nothing relates two requests, the
  number of them and what the dashboard does to the table do not matter.
  `SchedulesAreIntervals` is arithmetic: for every length of the day, the comparisons of
  `isWithinSchedule` agree with counting hours modulo the day.
- `GatewayProofs`, peers. `PeersAreNotRevisited`: a trace that was marked all the way has
  the id of every gateway on it and is as long as the way (`TracedTo`, `TracedOn`); a
  gateway that did not refuse has neither its id in it nor hops enough behind it. Traces
  of a client are read through a filter, those of a gateway as they were written
  (`ParseIs`). The hypothesis `HeaderHolds` says that a header holds as many ids as hops
  are allowed: with ids of the 64 characters the code admits it does not (see 6).
- `GatewayProofs`, context. `ContextsAreSound` is an induction over the rounds of
  `TrimContextToBudget` (`TrimSound`): what is left is always a `RestOf` what was gathered,
  hits and facts from the front, messages from the back, and with its last loss put back
  (`OneMore`) it was over the budget, because that is what the loop looked at. `Gapless`
  needs that a filter keeps the order (`KeptOrder`) and that a tail cut from it is one.
- `HostToolsProofs`, shell. The first rule that matches or throws decides (`FirstOf`), and
  the first rule blocks, the second asks, the others allow (`RulesSpeak`): so a verdict
  that allows comes from a later rule, with both patterns silent and nothing thrown before
  it (`GuardDecides`). What each trusted or safe rule lets through stays closed in the
  proof, and so do the operators on strings: the theorem holds for any normal form and
  any way to cut a line. The invariant of a call is how what it runs was judged (`Judged`);
  that it still is what was judged needs that an approval changes nothing of it.
- `HostToolsProofs`, browser. `LockInv`: one launch at a time is in the synchronous
  stretch, and if the browser that holds the profile is one it can recognise, it will
  not clear anything. A browser takes a profile only without a `SingletonLock`, which a
  watched browser still has. `KeptInv`: without a shutdown in the middle, the pending
  launch is the one the backend keeps the promise of, and it has no process but that
  launch's; a backend without a promise has no process at all, so that `Forget` forgets
  none that runs.
- `HostToolsProofs`, web. `HopsStayOutside`: what a call is pinned to, and so what it
  reached, was judged and not blocked, whatever the DNS says since (`Guarded`). That no
  private address passes is a statement about all 2^32 and 2^128 addresses: for every
  block, the masks of `SamePrefix` compare the octets or hextets of the interval
  (`Masks4` and after it). `SearchesAreHonest` (`SearchInv`): every entry of the cache is
  an answer with its time (`Entries`), every link told "empty" was one that said so, and a
  search that asks is at a usable provider of its chain.
- `HostToolsProofs`, archives. `ExtractionsAreHonest`, for any number of overlapping
  extractions (`ArchiveInv`). What exists is in a directory (`RootedIn`), and a step
  removes neither directories nor links; a link that comes, comes where nothing was, so
  that a path that led to something leads there still (`PathsStay`, by induction over
  the turns of the path). That a path to something in a directory leads to what that
  directory leads to is another such induction (`BehindDirectory`). The files of a call,
  and what is charged and still on its way, are within what was charged (`BudgetOK`): a
  write has the size that was `Promised`, a failing one less, and hard links count once
  because they are one file. Without overwrite, a path that was asked for leads to no
  file until it is written (`KeepOK`), unless another program or another extraction came
  in between, which is why `KeepsFiles` speaks of those that are `Alone`. Without
  followSymlinks an extraction makes no link, so that a name that stays in `destDir` by
  what it says also stays there when it is followed (`SimplePaths`, `InsideOK`). What is
  done is found where its name leads, also after every later entry (`DoneOK`).
- `FileToolsProofs`, tools. `FileInv` says of each call where its tool can get to
  (`Place`), what it holds (`ShowsText`) and which targets are done (`Progress`): none
  before the approval, the first ones where they go in order, all of them where it
  returned "ok". With it, `FilesChangeAsApproved` is a case analysis over the steps that
  write. That an edit reports what it did is an induction over the text (`CountIs`,
  `RestIs`): counting and replacing go on from a match to the place after it, so they
  are functions of the place they start at, and agree on it for every text.
  `TempFilesAreRemoved` counts (`TempInv`): a temporary file that is left took two
  failing calls, one that is to be removed took one.
- `FileToolsProofs`, watch. `WatchesTell` (`ListensInv`): what is listed is what was
  asked for of what happened, a filter that goes on as events come; nothing before the end
  would have ended the watch, and what came up to then tells why it did.
- `FileToolsProofs`, glob. `GlobsFind`, whatever others do to the tree (`WalkInv`): what
  is `Ahead` of a walk is what its unread directories and its entries left lead to. No
  two frames of the stack lead to one path, and none to one that was found, so that
  nothing is found twice; what is wanted and stays is found or ahead, because a
  directory above a file that stays is one that is read, and an ignored pattern that
  means one means the file too. No directory is entered that an ignored pattern means
  (`Entered`). That the result is in order needs that what is found can be sorted in one
  way (`SortingExists`, `OrderOfFound`). The hypothesis is `PatternsMean`, the half of
  `GlobFinds` that speaks of the patterns only, and of those that are not `Bare`; for a
  bare one, what it means is what its expression takes, so that the theorem needs
  nothing of it: what `CompileGlob` makes of every pattern is recursion over its text,
  and is left to the run.
- `TracesProofs`, sinks. `SinksKeepUp` (`SinksInv`): a counter and what is observed have
  different names in every emission of every method, so that a sink which took the last
  emission of a key has the value of the collector; a sink that never threw on the log has
  every record of an enabled level, in order.

What the proofs assume of the constants is the code's validation of its input:
`FileToolsAssumption` (an edit has one target, whose old text is neither empty nor the
new one), `WebAssumption` (an address is four octets or eight hextets, a URL without one
has a name), `PeerAssumption` (an environment is of the types `peerRouting.ts` reads),
`WatchAssumption` ("error" is no kind of event), `ArchiveAssumption` (what `entries` of
the three backends are made of, limits are natural numbers, `destDir` and the paths of
the tree are plain ones, and none of the latter is `destDir` or above it),
`ContextAssumption` (lengths are natural), `GlobAssumption` (what exists is in a
directory, and the patterns of the calls and the paths are among those `PatternsMean` is
about).

`Recursion` has what induction needs in a form that can be cited, with sets and functions
in the place of operators: a least number, induction downwards and upwards, the existence
of a function that is defined from one place to the next, what `Kept` keeps, and that a
sum over a finite set (`SumOver`) does not depend on the order and grows by each element.

Every safety property of the passing runs is stated by a theorem. Only model-checked are
of `GlobFinds` that the expressions match what the patterns mean, and the two liveness
properties, `SpentOrExpired` and `PeersAnswer`, which are out of the prover's reach.

## 5. Plan

1. Done: `Memory`, `Approval` over `HumanGate`, `Budget`, `Traces` with their proofs.
2. Done: `FileTools`, `Archive`, `Shell`, `Web`, `Browser`, checked by `MCTools`.
3. Done: `ApiKeyPolicy` with its proofs, `PeerRouting`, `Metrics`.
4. Done: `Context`, `Glob`, `Watch`. Next: the pages of grep, and the expiry of
   cached pages once a caller is in the repository.
5. Done: every safety invariant and every action property a passing run checks is proved.
   Next: that `CompileGlob` makes what a pattern means, for the patterns without braces,
   where it goes from one character to the next.

## 6. Not modelled

What reads and formats only: listing, reading, diffing and hashing files, grep (one
run of ripgrep and a page of its output), document extraction (third-party parsers
without a state), and the wrappers of git, GitHub, the clipboard and windows, each one
external program and its output. The web cache is one upsert and one lookup, and
repository context concatenates what it can fetch; the quarantine validates one
payload without a state. Auto-combo scores candidates with figures from services that
are not in the repository. The page tools of the browser drive Playwright's state.
Configuration and the stub packages have nothing to model.

Four behaviours are in the models and outside of the properties, as no text of the
repository decides them:

- a shutdown in the middle of a launch finds no process to stop, and the Chrome that
  comes up afterwards belongs to nobody (`playwright-backend.ts:105`; `BrowsersAreKept`
  excepts it);
- whether a path exists is asked before an extraction writes it, so that what another
  program puts there in between is overwritten without `overwrite`
  (`tar-backend.ts:199`; `ExtractionHonest` speaks of extractions that are alone);
- a header of more than 2048 characters reads as none, which are 31 ids of 64 characters,
  while 32 hops may be configured: who receives 32 such ids begins the trace anew
  (`peerRouting.ts:41`; `PeersAreNotRevisited` has the hypothesis `HeaderHolds`);
- a `maxEvents` below 1 passes the check and is floored to 0: the watch ends at its first
  event, and what it reports is `truncated` even where nothing happened (`fs-watch.ts:117`).

Four more are in the models, and there the code does less than a text of the repository
says. The properties are stated for what the code does keep, each of them excepting
these by name:

- with `followSymlinks` "the link target must resolve inside destDir"
  (`extract-tool.ts:26`), and the safeguards are "always on" (`:38`). The backends vet an
  absolute target below the first level as if it were relative (`tar-backend.ts:125`,
  `zip-backend.ts:104`) and a relative one by what it says, without the links on the way.
  Such a link is made, and a later entry is written through it to outside of `destDir`.
  `StaysInside` holds without `followSymlinks` only; the limits, the report and the files
  that were there are kept in both cases;
- the guard judges a normal form: a program in any directory is judged by its last name
  (`normalise.ts:7`), and the separators of a line for the shell are white space to it
  (`shell.ts:218`). So `bin/date` is judged as `date` and runs unasked, and the second
  line of `echo a` is judged as more words of an echo. `GuardedRun` says that the verdict
  fits the normal form of what runs, not that the normal form tells all of it;
- "never touch locks held by a living browser" (`clear-stale-chrome-locks.ts:13`): a
  browser of another user is taken for dead (`:61`, the run `browser_locks`), so is one of
  another host whose number is nobody's here (`:50`), and a lock that cannot be read or
  parsed is taken for nobody's (`:55`). `LocksRespected` speaks of `Recognised` browsers;
- "backslash-escaped literals" (`fs-glob.ts:218`) and everything else "literal" (`:220`):
  `escapeRegexChar` (`:287`) escapes neither `*` nor `?`, which become quantifiers, or make
  the expression invalid. `PatternsMean` excepts `Bare` patterns.
