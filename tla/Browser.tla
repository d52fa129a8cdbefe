------------------------------ MODULE Browser -------------------------------
(***************************************************************************)
(* The browser of tools/browser: PlaywrightBackend launches a Chrome on a  *)
(* profile directory, once, and shuts it down (playwright-backend.ts,      *)
(* spawn-chrome.ts); before a launch it clears the lock files a dead       *)
(* browser left in the profile (clear-stale-chrome-locks.ts).              *)
(*                                                                         *)
(* The code runs on one thread, so that the synchronous stretch of a       *)
(* launch keeps other calls out, but not other processes: browsers start,  *)
(* exit and crash at any time, on this host and on others that share the   *)
(* profile, of this user and of others, and a pid is given out again.      *)
(* What is done with the pages is not modelled.                            *)
(***************************************************************************)
EXTENDS Integers, SequencesExt

CONSTANTS
    Pids,         \* of this host
    Away,         \* browsers of other hosts that share the profile
    NumberOf,     \* the number each of those has there, which is a pid here too
    Launches,     \* calls of initialise
    NoPid,        \* no process, no lock file, no launch
    Settings,     \* [cdpUrl, executable, windows]: attach only, a browser is installed
    MaxBirths, MaxShutdowns, MaxBrowserFaults   \* bounds: processes of others, shutdowns, failures

ASSUME BrowserAssumption ==
    /\ {MaxBirths, MaxShutdowns, MaxBrowserFaults} \subseteq Nat
    /\ NoPid \notin Pids \cup Away \cup Launches
    /\ Pids \cap Away = {}
    /\ NumberOf \in [Away -> Pids]

VARIABLES
    settings,
    processes,   \* what each process is: "nothing", "browser" (on the profile), "guest" (a
                 \* browser that found the profile taken), "stranger" (a browser of another
                 \* user), "other"
    locks,       \* the lock files: by whom each was written
    ours,        \* the processes the backend spawned that still run
    doomed,      \* those that were sent SIGKILL
    backend,     \* ready: the launch it is the promise of; context, spawned: a pid
    launches,    \* where each launch stands
    shutdown,    \* where a shutdown stands: at, and the process it stops
    overlap,     \* a shutdown began in the middle of a launch
    births, shutdowns, browserFaults   \* what happened so far of what is bounded

browserVars == <<settings, processes, locks, ours, doomed, backend, launches, shutdown, overlap,
                 births, shutdowns, browserFaults>>

CHROME_LOCK_BASENAMES ==
    <<"SingletonLock", "SingletonSocket", "SingletonCookie", "DevToolsActivePort">>
Names == ToSet(CHROME_LOCK_BASENAMES)
Processes == Pids \cup Away
Browsers == {"browser", "stranger"}

\* holder, held: whose SingletonLock was there when the launch read it, if that was a living
\* browser, and the lock files that were the browser's then.  pid: what the launch has read.
NoLaunch == [at |-> "idle", pid |-> NoPid, clear |-> FALSE, left |-> <<>>, holder |-> NoPid, held |-> {}]
NoShutdown == [at |-> "idle", pid |-> NoPid]

BrowserInit ==
    /\ settings \in Settings
    /\ processes = [p \in Processes |-> "nothing"]
    /\ locks = [name \in Names |-> NoPid]
    /\ ours = {} /\ doomed = {}
    /\ backend = [ready |-> NoPid, context |-> NoPid, spawned |-> NoPid]
    /\ launches = [l \in Launches |-> NoLaunch]
    /\ shutdown = NoShutdown
    /\ overlap = FALSE
    /\ births = 0 /\ shutdowns = 0 /\ browserFaults = 0

Synchronous == {"reading", "checking", "probing", "removing"}
Pending == {"loading", "picking", "spawning", "waiting", "connecting"} \cup Synchronous

\* The thread is free for what is not in the middle of a synchronous stretch.
ThreadFree == \A l \in Launches : launches[l].at \notin Synchronous

LaunchAt(l, place) ==
    launches[l].at = place /\ (place \in Synchronous \/ ThreadFree)
LaunchGoes(l, launch) == launches' = [launches EXCEPT ![l] = launch]
LaunchTo(l, place) == LaunchGoes(l, [launches[l] EXCEPT !.at = place])

World == <<processes, locks, ours, doomed>>
Bounds == <<settings, overlap, births, shutdowns>>
BrowserFault == browserFaults < MaxBrowserFaults /\ browserFaults' = browserFaults + 1

-----------------------------------------------------------------------------
(* ensureReady and initialise                                              *)

\* The promise is kept, whatever becomes of it, until a shutdown forgets it.
EnsureReady(l) ==
    /\ LaunchAt(l, "idle") /\ backend.ready = NoPid
    /\ backend' = [backend EXCEPT !.ready = l]
    /\ LaunchTo(l, "loading")
    /\ UNCHANGED <<World, shutdown, Bounds, browserFaults>>

\* playwright-core is loaded; then a running browser is attached to, or one looked for.
Loaded(l) ==
    /\ LaunchAt(l, "loading")
    /\ LaunchTo(l, IF settings.cdpUrl THEN "connecting"
                   ELSE IF settings.executable THEN "reading" ELSE "failed")
    /\ UNCHANGED <<World, backend, shutdown, Bounds, browserFaults>>

\* readChromeSingletonLockPid: the number alone, without the host.  Fault: what cannot be
\* read or parsed is no pid.
ReadLock(l) ==
    LET owner == locks["SingletonLock"]
        living == owner # NoPid /\ processes[owner] \in Browsers
    IN  /\ LaunchAt(l, "reading")
        /\ \E pid \in {NoPid, IF owner \in Away THEN NumberOf[owner] ELSE owner} :
            /\ LaunchGoes(l, [launches[l] EXCEPT
                   !.at = IF pid = NoPid THEN "removing" ELSE "checking",
                   !.pid = pid, !.clear = pid = NoPid, !.left = CHROME_LOCK_BASENAMES,
                   !.holder = IF living THEN owner ELSE NoPid,
                   !.held = IF living THEN {name \in Names : locks[name] = owner} ELSE {}])
            /\ IF pid = NoPid /\ owner # NoPid THEN BrowserFault ELSE UNCHANGED browserFaults
        /\ UNCHANGED <<World, backend, shutdown, Bounds>>

\* isProcessAlive: what may not be signalled (EPERM) counts as dead.
Alive(pid) == processes[pid] \notin {"nothing", "stranger"}

CheckOwner(l) ==
    LET alive == Alive(launches[l].pid)
    IN  /\ LaunchAt(l, "checking")
        /\ LaunchGoes(l, [launches[l] EXCEPT !.at = IF alive THEN "probing" ELSE "removing",
                                             !.clear = ~alive])
        /\ UNCHANGED <<World, backend, shutdown, Bounds, browserFaults>>

\* processLooksLikeChromium: on Windows, and where the process is gone, nothing is known.
Kind(pid) ==
    CASE settings.windows \/ processes[pid] = "nothing" -> "unknown"
      [] processes[pid] = "other" -> "other"
      [] OTHER -> "chromium"

\* Fault: what cannot be probed is taken for another program.
ShouldClearUnknown(kind) == kind # "chromium"

ShouldClear(kind) == kind = "other"

Probe(l) ==
    /\ LaunchAt(l, "probing")
    /\ \E kind \in {Kind(launches[l].pid), "unknown"} :
        /\ LaunchGoes(l, [launches[l] EXCEPT !.at = "removing", !.clear = ShouldClear(kind)])
        /\ IF kind = Kind(launches[l].pid) THEN UNCHANGED browserFaults ELSE BrowserFault
    /\ UNCHANGED <<World, backend, shutdown, Bounds>>

\* The next lock file goes, stays, or cannot be removed.
RemoveNext(l) ==
    LET name == Head(launches[l].left)
    IN  /\ LaunchAt(l, "removing") /\ launches[l].left # <<>>
        /\ LaunchGoes(l, [launches[l] EXCEPT !.left = Tail(@)])
        /\ \/ /\ locks' = IF launches[l].clear THEN [locks EXCEPT ![name] = NoPid] ELSE locks
              /\ UNCHANGED browserFaults
           \/ launches[l].clear /\ BrowserFault /\ UNCHANGED locks
        /\ UNCHANGED <<processes, ours, doomed, backend, shutdown, Bounds>>

\* decorateChromeProfile, which may throw.
Decorate(l) ==
    /\ LaunchAt(l, "removing") /\ launches[l].left = <<>>
    /\ \/ LaunchGoes(l, [NoLaunch EXCEPT !.at = "picking"]) /\ UNCHANGED browserFaults
       \/ LaunchGoes(l, [NoLaunch EXCEPT !.at = "failed"]) /\ BrowserFault
    /\ UNCHANGED <<World, backend, shutdown, Bounds>>

\* pickAvailableLoopbackPort
PickPort(l) ==
    /\ LaunchAt(l, "picking")
    /\ \/ LaunchTo(l, "spawning") /\ UNCHANGED browserFaults
       \/ LaunchTo(l, "failed") /\ BrowserFault
    /\ UNCHANGED <<World, backend, shutdown, Bounds>>

\* A browser takes the profile, or is the guest of the one that has it.
Begins(p, kind) ==
    IF locks["SingletonLock"] = NoPid
    THEN /\ processes' = [processes EXCEPT ![p] = kind]
         /\ locks' = [name \in Names |-> p]
    ELSE /\ processes' = [processes EXCEPT ![p] = IF kind = "browser" THEN "guest" ELSE kind]
         /\ UNCHANGED locks

\* The directory is made and the process spawned.
Spawn(l) ==
    /\ LaunchAt(l, "spawning")
    /\ \/ \E p \in Pids :
            /\ processes[p] = "nothing"
            /\ Begins(p, "browser")
            /\ ours' = ours \cup {p}
            /\ LaunchGoes(l, [launches[l] EXCEPT !.at = "waiting", !.pid = p])
            /\ UNCHANGED browserFaults
       \/ LaunchTo(l, "failed") /\ BrowserFault /\ UNCHANGED <<processes, locks, ours>>
    /\ UNCHANGED <<doomed, backend, shutdown, Bounds>>

\* waitForCdpReady wins the race, and launchOwnChrome keeps the process.
CdpReady(l) ==
    /\ LaunchAt(l, "waiting") /\ processes[launches[l].pid] = "browser" /\ launches[l].pid \in ours
    /\ backend' = [backend EXCEPT !.spawned = launches[l].pid]
    /\ LaunchTo(l, "connecting")
    /\ UNCHANGED <<World, shutdown, Bounds, browserFaults>>

\* The process has exited, or the time is over: killProcessTree, and no waiting for it.
WaitFails(l) ==
    /\ LaunchAt(l, "waiting")
    /\ doomed' = IF launches[l].pid \in ours THEN doomed \cup {launches[l].pid} ELSE doomed
    /\ LaunchTo(l, "failed")
    /\ UNCHANGED <<processes, locks, ours, backend, shutdown, Bounds, browserFaults>>

\* connectOverCDP; a browser attached to is not among the processes.
Connect(l) ==
    /\ LaunchAt(l, "connecting")
    /\ \/ /\ launches[l].pid \in ours \cup {NoPid}
          /\ backend' = [backend EXCEPT !.context = l]
          /\ LaunchTo(l, "ready") /\ UNCHANGED browserFaults
       \/ /\ LaunchTo(l, "failed") /\ UNCHANGED backend
          /\ IF launches[l].pid \in ours \cup {NoPid} THEN BrowserFault ELSE UNCHANGED browserFaults
    /\ UNCHANGED <<World, shutdown, Bounds>>

-----------------------------------------------------------------------------
(* shutdown and stopChrome                                                 *)

Forget(b) == [b EXCEPT !.ready = NoPid, !.context = NoPid, !.spawned = NoPid]

\* From the context's end on: a spawned process is stopped, where it has not exited.
StopSpawned(b) ==
    IF b.spawned \in ours
    THEN /\ shutdown' = [at |-> IF settings.windows THEN "killing" ELSE "terminating", pid |-> b.spawned]
         /\ doomed' = IF settings.windows THEN doomed \cup {b.spawned} ELSE doomed
         /\ backend' = b
    ELSE shutdown' = NoShutdown /\ backend' = Forget(b) /\ UNCHANGED doomed

Shutdown ==
    /\ ThreadFree /\ shutdown.at = "idle" /\ shutdowns < MaxShutdowns
    /\ shutdowns' = shutdowns + 1
    /\ overlap' = (overlap \/ \E l \in Launches : launches[l].at \in Pending)
    /\ IF backend.context = NoPid THEN StopSpawned(backend)
       ELSE shutdown' = [NoShutdown EXCEPT !.at = "closing"] /\ UNCHANGED <<backend, doomed>>
    /\ UNCHANGED <<settings, processes, locks, ours, launches, births, browserFaults>>

ContextClosed ==
    /\ ThreadFree /\ shutdown.at = "closing"
    /\ StopSpawned([backend EXCEPT !.context = NoPid])
    /\ UNCHANGED <<processes, locks, ours, launches, Bounds, browserFaults>>

\* SIGTERM was not enough within the grace period.
GraceOver ==
    /\ ThreadFree /\ shutdown.at = "terminating" /\ shutdown.pid \in ours
    /\ doomed' = doomed \cup {shutdown.pid}
    /\ shutdown' = [shutdown EXCEPT !.at = "killing"]
    /\ UNCHANGED <<processes, locks, ours, backend, launches, Bounds, browserFaults>>

\* The process has exited; on Windows the wait for it is bounded.
Stopped ==
    /\ ThreadFree /\ shutdown.at \in {"terminating", "killing"}
    /\ shutdown.pid \notin ours \/ settings.windows
    /\ shutdown' = NoShutdown
    /\ backend' = [Forget(backend) EXCEPT !.context = backend.context]
    /\ UNCHANGED <<World, launches, Bounds, browserFaults>>

-----------------------------------------------------------------------------
(* Other processes                                                         *)

\* A process ends; a browser that exits in order removes its lock files.
ProcessEnds(p) ==
    /\ processes[p] # "nothing"
    /\ processes' = [processes EXCEPT ![p] = "nothing"]
    /\ ours' = ours \ {p} /\ doomed' = doomed \ {p}
    /\ \/ UNCHANGED locks
       \/ /\ processes[p] \in Browsers /\ p \notin doomed
          /\ locks' = [name \in Names |-> IF locks[name] = p THEN NoPid ELSE locks[name]]
    /\ launches' = [l \in Launches |->
                      IF launches[l].holder = p
                      THEN [launches[l] EXCEPT !.holder = NoPid, !.held = {}] ELSE launches[l]]
    /\ UNCHANGED <<backend, shutdown, Bounds, browserFaults>>

\* A browser on the profile, of this user or another, here or on another host; or a program.
OtherStarts(p, kind) ==
    /\ processes[p] = "nothing" /\ births < MaxBirths
    /\ births' = births + 1
    /\ IF kind = "other" THEN processes' = [processes EXCEPT ![p] = "other"] /\ UNCHANGED locks
       ELSE Begins(p, kind)
    /\ UNCHANGED <<settings, ours, doomed, backend, launches, shutdown, overlap, shutdowns, browserFaults>>

BrowserNext ==
    \/ \E l \in Launches :
        \/ EnsureReady(l) \/ Loaded(l) \/ ReadLock(l) \/ CheckOwner(l) \/ Probe(l)
        \/ RemoveNext(l) \/ Decorate(l) \/ PickPort(l) \/ Spawn(l) \/ CdpReady(l)
        \/ WaitFails(l) \/ Connect(l)
    \/ Shutdown \/ ContextClosed \/ GraceOver \/ Stopped
    \/ \E p \in Processes : ProcessEnds(p)
    \/ \E p \in Pids, kind \in Browsers \cup {"other"} : OtherStarts(p, kind)
    \/ \E p \in Away : OtherStarts(p, "browser")

BrowserSpec == BrowserInit /\ [][BrowserNext]_browserVars

-----------------------------------------------------------------------------
(* Properties                                                              *)

\* Unless a shutdown came in the middle of a launch, every Chrome of the backend that runs
\* is the one it will stop, one it is waiting for, or one it has killed.
NoOrphans ==
    ~overlap => \A p \in ours :
        \/ p = backend.spawned \/ p \in doomed
        \/ \E l \in Launches : launches[l].at = "waiting" /\ launches[l].pid = p

\* The browser whose SingletonLock was there is the one the launch looks at: on this host,
\* of this user, and its lock could be read.
Recognised(launch) ==
    launch.holder \in Pids /\ launch.pid = launch.holder /\ processes[launch.holder] = "browser"

\* Over the checks of a launch, other processes that begin, end and take over pids, and
\* failing probes: a launch leaves every lock file alone of a recognised browser that held
\* the profile when its lock was read and lives on.  Of the browsers of which the comment
\* speaks (clear-stale-chrome-locks.ts:13) this leaves out those of another user, of another
\* host, and those whose lock cannot be read: the code clears the locks of all three.
LocksRespected ==
    \A l \in Launches :
        Recognised(launches[l]) =>
            \A name \in launches[l].held : locks[name] = launches[l].holder

\* The two things the backend owes to the processes on its profile: none of its own is
\* lost, and no living browser it can recognise has its locks pulled away.
BrowsersAreKept == NoOrphans /\ LocksRespected

\* clear-stale-chrome-locks.ts:13: a browser of this host that held the profile when a launch
\* read its lock keeps its lock files as long as it lives, whoever's it is.
LivingLocksStay ==
    \A l \in Launches :
        launches[l].holder \in Pids =>
            \A name \in launches[l].held : locks[name] = launches[l].holder
=============================================================================
