--------------------------- MODULE HostToolsProofs ---------------------------
(***************************************************************************)
(* What the tools that reach beyond single files owe their user, for any   *)
(* number of calls, launches, processes, servers and failures.  The shell: *)
(* the first rule that matches or throws decides, and the order of the     *)
(* rules does the rest.  The browser: no Chrome of its own is lost, and no *)
(* browser whose lock it reads loses it.  The web: no hop reaches a private*)
(* address, and a search returns what a provider said.  The archives: an   *)
(* extraction stays within its limits, leaves alone what it was to leave   *)
(* alone, and leaves nothing out, whatever links and names it holds.       *)
(***************************************************************************)
EXTENDS Shell, Web, Browser, Archive, Recursion, SequenceTheorems, TLAPS

-----------------------------------------------------------------------------
(* The shell.                                                              *)

\* The rules that match or throw.
Hits(input, threw) ==
    {i \in 1 .. Len(Verdicts(input)) : Verdicts(input)[i] # Nil \/ i = threw}

\* How the call under way was judged, and what an approval showed.
Judged(call) ==
    call.at \in {"waiting", "running"} =>
        LET verdict == Guard(NormaliseCommand(GuardInput(call.run)), call.threw)
        IN  /\ verdict # Block
            /\ call.threw \in 0 .. 6 \cup {Nil}
            /\ IF verdict = Ask THEN call.shown = {call.run} ELSE call.at = "running" /\ call.shown = {}

JudgedInv == DOMAIN shellCalls = ShellCalls /\ \A c \in ShellCalls : Judged(shellCalls[c])

-----------------------------------------------------------------------------
(* The guard.                                                              *)

\* There are six rules: the first blocks, the second asks, the others allow.
LEMMA RulesSpeak ==
    ASSUME NEW input
    PROVE  /\ Len(Verdicts(input)) = 6
           /\ Verdicts(input)[1] = IF Hardline(input.words) THEN Block ELSE Nil
           /\ Verdicts(input)[2] = IF Dangerous(input.words) THEN Ask ELSE Nil
           /\ \A i \in 3 .. 6 : Verdicts(input)[i] \in {Allow, Nil}
<1>1. /\ GogRule(input) \in {Allow, Nil} /\ GhRule(input) \in {Allow, Nil}
      /\ IcalBuddyRule(input) \in {Allow, Nil}
  BY Zenon DEF GogRule, GhRule, IcalBuddyRule
<1>2. SafeAllowRule(input) \in {Allow, Nil} BY Zenon DEF SafeAllowRule
<1>3. /\ Len(Verdicts(input)) = 6
      /\ Verdicts(input)[1] = HardlineRule(input)
      /\ Verdicts(input)[2] = DangerousRule(input)
      /\ Verdicts(input)[3] = GogRule(input)
      /\ Verdicts(input)[4] = GhRule(input)
      /\ Verdicts(input)[5] = IcalBuddyRule(input)
      /\ Verdicts(input)[6] = SafeAllowRule(input)
  BY DEF Verdicts
<1>4. \A i \in 3 .. 6 : i = 3 \/ i = 4 \/ i = 5 \/ i = 6 OBVIOUS
<1>5. \A i \in 3 .. 6 : Verdicts(input)[i] \in {Allow, Nil} BY <1>1, <1>2, <1>3, <1>4
<1>6. QED BY <1>3, <1>5 DEF HardlineRule, DangerousRule

\* Among six rules there is a first one.
LEMMA FirstOf ==
    ASSUME NEW S \in SUBSET (1 .. 6), S # {}
    PROVE  LET first == CHOOSE i \in S : \A j \in S : i <= j
           IN  first \in S /\ \A j \in S : first <= j
<1>1. \E i \in S : \A j \in S : i <= j
  <2>1. CASE 1 \in S BY <2>1
  <2>2. CASE 1 \notin S /\ 2 \in S BY <2>2
  <2>3. CASE 1 \notin S /\ 2 \notin S /\ 3 \in S BY <2>3
  <2>4. CASE 1 \notin S /\ 2 \notin S /\ 3 \notin S /\ 4 \in S BY <2>4
  <2>5. CASE 1 \notin S /\ 2 \notin S /\ 3 \notin S /\ 4 \notin S /\ 5 \in S BY <2>5
  <2>6. CASE 1 \notin S /\ 2 \notin S /\ 3 \notin S /\ 4 \notin S /\ 5 \notin S
    <3>1. \A i \in S : i = 6 BY <2>6
    <3>2. 6 \in S BY <3>1
    <3>3. QED BY <3>1, <3>2
  <2>7. QED BY <2>1, <2>2, <2>3, <2>4, <2>5, <2>6
<1>2. QED BY <1>1, Zenon

\* The guard blocks what a hardline pattern matches unless the rule for it threw, and
\* allows only what no pattern matches and a rule lets through, with none before it broken.
LEMMA GuardDecides ==
    ASSUME NEW input, NEW threw \in 0 .. 6 \cup {Nil}
    PROVE  LET verdict == Guard(input, threw)
           IN  /\ verdict # Block /\ Hardline(input.words) => threw \in {0, 1} /\ verdict = Ask
               /\ verdict \notin {Ask, Block} =>
                     /\ ~ Dangerous(input.words)
                     /\ \E i \in 3 .. 6 : Verdicts(input)[i] = Allow /\ threw \notin 0 .. i
<1> DEFINE v == Verdicts(input)
           hits == Hits(input, threw)
           first == CHOOSE i \in hits : \A j \in hits : i <= j
           hard == Hardline(input.words)
           dangerous == Dangerous(input.words)
           verdict == Guard(input, threw)
<1>1. /\ v[1] = IF hard THEN Block ELSE Nil
      /\ v[2] = IF dangerous THEN Ask ELSE Nil
      /\ \A i \in 3 .. 6 : v[i] \in {Allow, Nil}
  BY RulesSpeak
<1>2. verdict = IF threw = 0 \/ hits = {} \/ first = threw THEN Ask ELSE v[first] BY Zenon DEF Guard, Hits
<1>3. hits \in SUBSET (1 .. 6) BY RulesSpeak DEF Hits
<1>4. hits # {} => first \in hits /\ \A j \in hits : first <= j BY <1>3, FirstOf
<1>5. \A i \in 1 .. 6 : i \in hits <=> v[i] # Nil \/ i = threw BY RulesSpeak DEF Hits
<1>6. Nil \notin 0 .. 6 /\ Block # Nil /\ Ask # Nil /\ Allow # Nil /\ Block # Ask
  BY ShellAssumption DEF Block, Ask, Allow
<1> HIDE DEF v, hits, first, hard, dangerous, verdict
<1>7. ASSUME verdict # Block, hard PROVE threw \in {0, 1} /\ verdict = Ask
  <2>1. 1 \in hits BY <1>1, <1>5, <1>6, <1>7
  <2>2. first = 1
    <3>1. first \in hits /\ first <= 1 BY <1>4, <2>1
    <3>2. first \in 1 .. 6 BY <1>3, <3>1
    <3>3. QED BY <3>1, <3>2
  <2>3. QED BY <1>1, <1>2, <1>7, <2>1, <2>2
<1>8. ASSUME verdict \notin {Ask, Block}
      PROVE  /\ ~ dangerous
             /\ \E i \in 3 .. 6 : v[i] = Allow /\ threw \notin 0 .. i
  <2>1. threw # 0 /\ first \in hits /\ first # threw /\ verdict = v[first] BY <1>2, <1>4, <1>8
  <2>2. v[first] # Nil /\ first \in 1 .. 6 BY <1>3, <1>5, <2>1
  <2>3. first # 1 /\ first # 2 BY <1>1, <1>8, <2>1, <2>2
  <2>4. first \in 3 .. 6 /\ v[first] = Allow BY <1>1, <2>2, <2>3
  <2>5. threw \notin 0 .. first
    <3>1. ASSUME threw \in 1 .. 6 PROVE first <= threw BY <1>4, <1>5, <2>1, <3>1
    <3>2. QED BY <1>6, <2>1, <2>4, <3>1
  <2>6. ~ dangerous
    <3>1. 2 \notin hits BY <1>4, <2>1, <2>4
    <3>2. QED BY <1>1, <1>5, <1>6, <3>1
  <2>7. QED BY <2>4, <2>5, <2>6
<1>9. QED BY <1>7, <1>8 DEF v, hard, dangerous, verdict

-----------------------------------------------------------------------------
(* The calls.                                                              *)

\* A call that is over, or has not begun, was judged nothing.
LEMMA RestingIsJudged == \A how \in {"error", "done"} : Judged([Resting EXCEPT !.at = how])
BY DEF Resting, Judged

\* Every step leaves each call as it was judged.
LEMMA JudgedStep == JudgedInv /\ [ShellNext]_shellVars => JudgedInv'
<1> SUFFICES ASSUME JudgedInv, [ShellNext]_shellVars PROVE JudgedInv'
  OBVIOUS
<1>1. ASSUME NEW c \in ShellCalls, NEW call, Judged(call),
             shellCalls' = [shellCalls EXCEPT ![c] = call]
      PROVE  JudgedInv'
  BY <1>1 DEF JudgedInv
<1>2. ASSUME NEW c \in ShellCalls, NEW how \in {"error", "done"}, shellCalls' = Over(c, how)
      PROVE  JudgedInv'
  BY <1>1, <1>2, RestingIsJudged DEF Over
<1>3. ASSUME NEW c \in ShellCalls, NEW wanted, RefuseArgs(c, wanted) PROVE JudgedInv'
  BY <1>2, <1>3 DEF RefuseArgs
<1>4. ASSUME NEW c \in ShellCalls, NEW wanted, NEW windows, NEW unlisted,
             NEW threw \in 0 .. 6 \cup {Nil}, Judge(c, wanted, windows, unlisted, threw)
      PROVE  JudgedInv'
  <2> DEFINE run == Execution(wanted, windows, unlisted)
             verdict == Guard(NormaliseCommand(GuardInput(run)), threw)
             call == [at |-> IF verdict = Ask THEN "waiting" ELSE "running",
                      wanted |-> wanted, windows |-> windows, run |-> run, threw |-> threw,
                      shown |-> IF verdict = Ask THEN {run} ELSE {}]
  <2>1. shellCalls' = IF verdict = Block THEN Over(c, "error")
                      ELSE [shellCalls EXCEPT ![c] = call]
    BY <1>4 DEF Judge
  <2> HIDE DEF run
  <2>2. ASSUME verdict # Block PROVE Judged(call) BY <2>2 DEF Judged
  <2> HIDE DEF call, verdict
  <2>3. QED BY <1>1, <1>2, <2>1, <2>2
<1>5. ASSUME NEW c \in ShellCalls, NEW yes, Approved(c, yes) PROVE JudgedInv'
  <2>1. CASE ~ yes BY <1>2, <1>5, <2>1 DEF Approved
  <2>2. CASE yes
    <3> DEFINE call == [shellCalls[c] EXCEPT !.at = "running"]
    <3>1. shellCalls' = [shellCalls EXCEPT ![c] = call] BY <1>5, <2>2 DEF Approved
    <3>2. Judged(call) BY <1>5 DEF Approved, Judged, JudgedInv
    <3> HIDE DEF call
    <3>3. QED BY <1>1, <3>1, <3>2
  <2>3. QED BY <2>1, <2>2
<1>6. ASSUME NEW c \in ShellCalls, NEW how \in {"done", "error"}, ShellEnds(c, how)
      PROVE  JudgedInv'
  BY <1>2, <1>6 DEF ShellEnds
<1>7. CASE \E f \in FileNames : OtherChangesFiles(f) BY <1>7 DEF OtherChangesFiles, JudgedInv
<1>8. CASE UNCHANGED shellVars BY <1>8 DEF shellVars, JudgedInv
<1>9. QED BY <1>3, <1>4, <1>5, <1>6, <1>7, <1>8 DEF ShellNext

\* The invariant holds in every reachable state.
LEMMA JudgedAlways == ShellSpec => []JudgedInv
<1>1. ShellInit => JudgedInv BY DEF ShellInit, JudgedInv, Resting, Judged
<1>2. QED BY <1>1, JudgedStep, PTL DEF ShellSpec

-----------------------------------------------------------------------------
(* What follows of it.                                                     *)

\* os.shell.run, of the normal form of what runs: what a hardline pattern matches runs only
\* where the guard broke and the owner was asked; what runs unasked matches no dangerous
\* pattern, and a trusted or a safe rule let it through while it and the rules before it
\* worked.
THEOREM OnlyTheGuardedRuns == ShellSpec => []GuardedRun
<1>1. JudgedInv => GuardedRun
  <2> SUFFICES ASSUME JudgedInv PROVE GuardedRun
    OBVIOUS
  <2>1. ASSUME NEW c \in ShellCalls, shellCalls[c].at = "running",
               NEW call, call = shellCalls[c],
               NEW judged, judged = NormaliseCommand(GuardInput(call.run)),
               NEW verdict, verdict = Guard(judged, call.threw)
        PROVE  /\ Hardline(judged.words) => call.threw \in {0, 1} /\ call.shown # {}
               /\ call.shown = {} =>
                     /\ ~ Dangerous(judged.words)
                     /\ \E i \in 3 .. 6 : Verdicts(judged)[i] = Allow /\ call.threw \notin 0 .. i
    <3>1. /\ verdict # Block /\ call.threw \in 0 .. 6 \cup {Nil}
          /\ IF verdict = Ask THEN call.shown = {call.run} ELSE call.shown = {}
      BY <2>1 DEF JudgedInv, Judged
    <3>2. call.shown # {} <=> verdict = Ask BY <3>1
    <3>3. QED BY <2>1, <3>1, <3>2, GuardDecides
  <2>2. QED BY <2>1 DEF GuardedRun
<1>2. QED BY <1>1, JudgedAlways, PTL

\* What runs after an approval is the command line the approval showed, whatever became of
\* the files meanwhile.
THEOREM WhatWasShownRuns == ShellSpec => []RunsAsShown
<1>1. JudgedInv => RunsAsShown BY DEF JudgedInv, Judged, RunsAsShown
<1>2. QED BY <1>1, JudgedAlways, PTL

-----------------------------------------------------------------------------
(* The browser.                                                            *)

\* The value of every variable; what is left to remove is a sequence of lock files.
Place == {"idle", "failed", "ready"} \cup Pending
Launch == [at : Place, pid : Pids \cup {NoPid}, clear : BOOLEAN, left : Seq(Names),
           holder : Processes \cup {NoPid}, held : SUBSET Names]

Kinds == {"nothing", "browser", "guest", "stranger", "other"}

BrowserTypeOK ==
    /\ processes \in [Processes -> Kinds]
    /\ locks \in [Names -> Processes \cup {NoPid}]
    /\ ours \in SUBSET Pids /\ doomed \in SUBSET Pids
    /\ backend \in [ready : Launches \cup {NoPid}, context : Launches \cup {NoPid},
                    spawned : Pids \cup {NoPid}]
    /\ launches \in [Launches -> Launch]
    /\ shutdown \in [at : {"idle", "closing", "terminating", "killing"}, pid : Pids \cup {NoPid}]
    /\ overlap \in BOOLEAN

\* One launch at a time is in its synchronous stretch.
OneThread == \A l, m \in Launches :
    launches[l].at \in Synchronous /\ launches[m].at \in Synchronous => l = m

\* Whoever holds the profile while a launch looks lives; a launch that recognised that browser
\* will find it to be one and removes nothing, and the SingletonLock is the browser's.
Watched(l) ==
    /\ launches[l].holder = NoPid => launches[l].held = {}
    /\ launches[l].holder # NoPid =>
          /\ launches[l].at \in {"checking", "probing", "removing"}
          /\ processes[launches[l].holder] \in Browsers
    /\ Recognised(launches[l]) =>
          /\ "SingletonLock" \in launches[l].held
          /\ launches[l].at = "removing" => ~ launches[l].clear

LockInv == OneThread /\ LocksRespected /\ \A l \in Launches : Watched(l)

\* Unless a shutdown came in between, a pending launch is the one whose promise is kept,
\* and the backend has no other process; a backend without a promise has none at all.
KeptInv == ~ overlap =>
    /\ \A l \in Launches : launches[l].at \in Pending =>
          /\ backend.ready = l /\ backend.context = NoPid /\ shutdown.at = "idle"
          /\ launches[l].at # "connecting" => backend.spawned = NoPid
    /\ backend.ready = NoPid =>
          backend.spawned = NoPid /\ backend.context = NoPid /\ shutdown.at = "idle"
    /\ shutdown.at \in {"terminating", "killing"} =>
          shutdown.pid = backend.spawned /\ backend.context = NoPid
    /\ shutdown.at = "terminating" => ~ settings.windows
    /\ shutdown.at = "killing" /\ backend.spawned \in ours => backend.spawned \in doomed
    /\ NoOrphans


BrowserInv == BrowserTypeOK /\ LockInv /\ KeptInv

-----------------------------------------------------------------------------
(* The data.                                                               *)

\* The four lock files are what a launch goes through, to the last one.
LEMMA NamesOfLocks ==
    /\ Names = {"SingletonLock", "SingletonSocket", "SingletonCookie", "DevToolsActivePort"}
    /\ CHROME_LOCK_BASENAMES \in Seq(Names)
    /\ <<>> \in Seq(Names)
<1>1. Names = {"SingletonLock", "SingletonSocket", "SingletonCookie", "DevToolsActivePort"}
  BY DEF Names, ToSet, CHROME_LOCK_BASENAMES
<1>2. CHROME_LOCK_BASENAMES \in Seq(Names) BY <1>1 DEF CHROME_LOCK_BASENAMES
<1>3. QED BY <1>1, <1>2, EmptySeq

\* What a launch begins and ends with has its type.
LEMMA NoLaunchIsLaunch == NoLaunch \in Launch
BY NamesOfLocks, BrowserAssumption DEF NoLaunch, Launch, Place

-----------------------------------------------------------------------------
(* Steps of a launch that touch nothing but the launch.                    *)

\* The launch goes on, or fails, and everything else stays.
LEMMA LaunchMoves ==
    ASSUME BrowserInv, NEW l \in Launches, NEW launch \in Launch,
           LaunchGoes(l, launch), UNCHANGED <<World, backend, shutdown, settings, overlap>>,
           launches[l].at \in Pending, launches[l].at # "waiting", launches[l].at # "connecting",
           launch.at \in Synchronous => launches[l].at \in Synchronous \/ ThreadFree,
           launch.at # "idle",
           launch.holder # NoPid =>
              launch.at \in {"checking", "probing", "removing"} /\ processes[launch.holder] \in Browsers,
           launch.holder = NoPid => launch.held = {},
           Recognised(launch) =>
              /\ "SingletonLock" \in launch.held
              /\ launch.at = "removing" => ~ launch.clear
              /\ \A name \in launch.held : locks[name] = launch.holder
    PROVE  BrowserInv'
<1> USE DEF BrowserInv
<1>1. /\ launches' \in [Launches -> Launch] /\ launches'[l] = launch
      /\ \A m \in Launches : m # l => launches'[m] = launches[m]
  BY DEF LaunchGoes, BrowserTypeOK
<1>2. BrowserTypeOK' BY <1>1 DEF BrowserTypeOK, World
<1>3. OneThread' BY <1>1 DEF OneThread, LockInv, ThreadFree
<1>4. LocksRespected' BY <1>1 DEF LocksRespected, LockInv, World, Recognised
<1>5. (\A m \in Launches : Watched(m))' BY <1>1 DEF Watched, LockInv, World, Recognised
<1>6. KeptInv'
  <2>1. launch.at \in Pending => launch.at \in Place BY <1>1 DEF Launch
  <2> SUFFICES ASSUME ~ overlap PROVE KeptInv'
    BY DEF KeptInv
  <2>2. NoOrphans' BY <1>1 DEF KeptInv, NoOrphans, World
  <2>3. backend.ready = l /\ backend.context = NoPid /\ shutdown.at = "idle" /\ backend.spawned = NoPid
    BY DEF KeptInv
  <2>4. \A m \in Launches : launches[m].at \in Pending => m = l BY <2>3 DEF KeptInv
  <2>5. QED BY <1>1, <2>2, <2>3, <2>4, BrowserAssumption DEF KeptInv, World
<1>7. QED BY <1>2, <1>3, <1>4, <1>5, <1>6 DEF LockInv

\* A launch that is going to touch the lock files: loading, reading and judging them.
LEMMA JudgingStep ==
    ASSUME BrowserInv, NEW l \in Launches,
           Loaded(l) \/ ReadLock(l) \/ CheckOwner(l) \/ Probe(l)
    PROVE  BrowserInv'
<1>1. /\ launches[l] \in Launch /\ Watched(l) /\ NoPid \notin Processes
      /\ Recognised(launches[l]) => \A name \in launches[l].held : locks[name] = launches[l].holder
  BY BrowserAssumption DEF BrowserInv, BrowserTypeOK, LockInv, LocksRespected, Processes
<1>2. CASE Loaded(l)
  <2> DEFINE place == IF settings.cdpUrl THEN "connecting"
                      ELSE IF settings.executable THEN "reading" ELSE "failed"
             launch == [launches[l] EXCEPT !.at = place]
  <2>1. /\ launches[l].at = "loading" /\ ThreadFree /\ LaunchGoes(l, launch)
        /\ UNCHANGED <<World, backend, shutdown, settings, overlap>>
    BY <1>2 DEF Loaded, LaunchAt, LaunchTo, Bounds, Synchronous
  <2>2. launch \in Launch BY <1>1 DEF Launch, Place, Pending, Synchronous
  <2>3. launches[l].holder = NoPid BY <1>1, <2>1 DEF Watched
  <2>4. launch.at = place /\ launch.holder = NoPid /\ launch.held = {} BY <1>1, <2>3 DEF Launch, Watched
  <2>5. place \in {"connecting", "reading", "failed"} OBVIOUS
  <2> HIDE DEF launch, place
  <2>6. QED BY <1>1, <2>1, <2>2, <2>4, <2>5, LaunchMoves DEF Pending, Recognised, Processes
<1>3. CASE ReadLock(l)
  <2> DEFINE owner == locks["SingletonLock"]
             living == owner # NoPid /\ processes[owner] \in Browsers
             number == IF owner \in Away THEN NumberOf[owner] ELSE owner
             launch(pid) == [launches[l] EXCEPT
               !.at = IF pid = NoPid THEN "removing" ELSE "checking",
               !.pid = pid, !.clear = pid = NoPid, !.left = CHROME_LOCK_BASENAMES,
               !.holder = IF living THEN owner ELSE NoPid,
               !.held = IF living THEN {name \in Names : locks[name] = owner} ELSE {}]
  <2>1. PICK pid \in {NoPid, number} : LaunchGoes(l, launch(pid)) BY <1>3 DEF ReadLock
  <2>2. launches[l].at = "reading" /\ UNCHANGED <<World, backend, shutdown, settings, overlap>>
    BY <1>3 DEF ReadLock, LaunchAt, Bounds
  <2>3. owner \in Processes \cup {NoPid} BY NamesOfLocks DEF BrowserInv, BrowserTypeOK
  <2>4. number \in Pids \cup {NoPid} BY <2>3, BrowserAssumption DEF Processes
  <2>5. pid \in Pids \cup {NoPid} BY <2>1, <2>4
  <2>6. launch(pid) \in Launch
    <3>1. (IF living THEN owner ELSE NoPid) \in Processes \cup {NoPid} BY <2>3
    <3>2. (IF pid = NoPid THEN "removing" ELSE "checking") \in Place
      BY DEF Place, Pending, Synchronous
    <3>3. (IF living THEN {name \in Names : locks[name] = owner} ELSE {}) \in SUBSET Names OBVIOUS
    <3> HIDE DEF living, owner, number
    <3>4. QED BY <1>1, <2>5, <3>1, <3>2, <3>3, NamesOfLocks DEF Launch
  <2>7. /\ launch(pid).at = IF pid = NoPid THEN "removing" ELSE "checking"
        /\ launch(pid).pid = pid /\ launch(pid).holder = IF living THEN owner ELSE NoPid
        /\ launch(pid).held = IF living THEN {name \in Names : locks[name] = owner} ELSE {}
    BY <1>1 DEF Launch
  <2>8. "SingletonLock" \in Names BY NamesOfLocks
  <2> DEFINE next == launch(pid)
  <2>9. next \in Launch /\ LaunchGoes(l, next) BY <2>1, <2>6
  <2>10. /\ next.at = IF pid = NoPid THEN "removing" ELSE "checking"
         /\ next.pid = pid /\ next.holder = IF living THEN owner ELSE NoPid
         /\ next.held = IF living THEN {name \in Names : locks[name] = owner} ELSE {}
    BY <2>7
  <2> HIDE DEF next, number, launch
  <2>11. /\ next.holder # NoPid =>
               next.at \in {"checking", "probing", "removing"} /\ processes[next.holder] \in Browsers
         /\ next.holder = NoPid => next.held = {}
    BY <1>1, <2>10
  <2>12. Recognised(next) =>
            /\ "SingletonLock" \in next.held
            /\ next.at = "removing" => ~ next.clear
            /\ \A name \in next.held : locks[name] = next.holder
    BY <1>1, <2>8, <2>10 DEF Recognised, Processes
  <2>13. QED BY <2>2, <2>9, <2>10, <2>11, <2>12, LaunchMoves DEF Pending, Synchronous
<1>4. CASE CheckOwner(l)
  <2> DEFINE alive == Alive(launches[l].pid)
             launch == [launches[l] EXCEPT !.at = IF alive THEN "probing" ELSE "removing",
                                           !.clear = ~ alive]
  <2>1. /\ launches[l].at = "checking" /\ LaunchGoes(l, launch)
        /\ UNCHANGED <<World, backend, shutdown, settings, overlap>>
    BY <1>4 DEF CheckOwner, LaunchAt, Bounds
  <2>2. launch \in Launch BY <1>1 DEF Launch, Place, Pending, Synchronous
  <2>3. /\ launch.at = IF alive THEN "probing" ELSE "removing"
        /\ launch.pid = launches[l].pid /\ launch.holder = launches[l].holder
        /\ launch.held = launches[l].held
    BY <1>1 DEF Launch
  <2>4. Recognised(launch) => Recognised(launches[l]) /\ alive BY <2>3 DEF Recognised, Alive
  <2> HIDE DEF launch, alive
  <2>5. QED BY <1>1, <2>1, <2>2, <2>3, <2>4, LaunchMoves DEF Watched, Pending, Synchronous
<1>5. CASE Probe(l)
  <2>1. PICK kind \in {Kind(launches[l].pid), "unknown"} :
           LaunchGoes(l, [launches[l] EXCEPT !.at = "removing", !.clear = ShouldClear(kind)])
    BY <1>5 DEF Probe
  <2> DEFINE launch == [launches[l] EXCEPT !.at = "removing", !.clear = ShouldClear(kind)]
  <2>2. /\ launches[l].at = "probing" /\ LaunchGoes(l, launch)
        /\ UNCHANGED <<World, backend, shutdown, settings, overlap>>
    BY <1>5, <2>1 DEF Probe, LaunchAt, Bounds
  <2>3. launch \in Launch BY <1>1 DEF Launch, Place, Pending, Synchronous, ShouldClear
  <2>4. /\ launch.at = "removing" /\ launch.clear = ShouldClear(kind)
        /\ launch.pid = launches[l].pid /\ launch.holder = launches[l].holder
        /\ launch.held = launches[l].held
    BY <1>1 DEF Launch
  <2>5. Recognised(launch) => Recognised(launches[l]) /\ ~ launch.clear
    BY <2>1, <2>4 DEF Recognised, ShouldClear, Kind
  <2> HIDE DEF launch
  <2>6. QED BY <1>1, <2>2, <2>3, <2>4, <2>5, LaunchMoves DEF Watched, Pending, Synchronous
<1>6. QED BY <1>2, <1>3, <1>4, <1>5

\* The profile is ready, or cannot be made so.
LEMMA PreparingStep ==
    ASSUME BrowserInv, NEW l \in Launches, Decorate(l) \/ PickPort(l)
    PROVE  BrowserInv'
<1>1. /\ launches[l] \in Launch /\ Watched(l) /\ NoPid \notin Pids
  BY BrowserAssumption DEF BrowserInv, BrowserTypeOK, LockInv
<1>2. CASE Decorate(l)
  <2>1. PICK place \in {"picking", "failed"} : LaunchGoes(l, [NoLaunch EXCEPT !.at = place])
    BY <1>2 DEF Decorate
  <2> DEFINE launch == [NoLaunch EXCEPT !.at = place]
  <2>2. /\ launches[l].at = "removing" /\ UNCHANGED <<World, backend, shutdown, settings, overlap>>
    BY <1>2 DEF Decorate, LaunchAt, Bounds
  <2>3. launch \in Launch BY NoLaunchIsLaunch DEF Launch, Place, Pending
  <2>4. launch.at = place /\ launch.holder = NoPid /\ launch.held = {} BY DEF NoLaunch
  <2> HIDE DEF launch
  <2>5. LaunchGoes(l, launch) BY <2>1 DEF launch
  <2>6. QED BY <1>1, <2>2, <2>3, <2>4, <2>5, LaunchMoves DEF Pending, Synchronous, Recognised
<1>3. CASE PickPort(l)
  <2>1. PICK place \in {"spawning", "failed"} : LaunchTo(l, place) BY <1>3 DEF PickPort
  <2> DEFINE launch == [launches[l] EXCEPT !.at = place]
  <2>2. /\ launches[l].at = "picking" /\ UNCHANGED <<World, backend, shutdown, settings, overlap>>
        /\ LaunchGoes(l, launch)
    BY <1>3, <2>1 DEF PickPort, LaunchAt, LaunchTo, Bounds
  <2>3. launch \in Launch BY <1>1 DEF Launch, Place, Pending
  <2>4. launch.at = place /\ launch.holder = NoPid /\ launch.held = {}
    BY <1>1, <2>2 DEF Launch, Watched
  <2> HIDE DEF launch
  <2>5. QED BY <1>1, <2>2, <2>3, <2>4, LaunchMoves DEF Pending, Synchronous, Recognised
<1>4. QED BY <1>2, <1>3

-----------------------------------------------------------------------------
(* Steps that touch the processes or the backend.                          *)

\* No browser a launch looks at changes, and no lock file where the launch recognised it.
Untouched ==
    \A m \in Launches : launches[m].holder # NoPid =>
        /\ processes'[launches[m].holder] = processes[launches[m].holder]
        /\ Recognised(launches[m]) => UNCHANGED locks

\* Where no lock file of a watched browser and no such browser is touched, and the launches
\* go no further into the synchronous stretch, the locks stay respected.
LEMMA LocksKept ==
    ASSUME BrowserInv, NEW l \in Launches, NEW launch \in Launch, LaunchGoes(l, launch),
           launch.holder = NoPid /\ launch.held = {} /\ launch.at \notin Synchronous,
           Untouched
    PROVE  LockInv'
<1> USE DEF BrowserInv
<1>1. /\ launches'[l] = launch
      /\ \A m \in Launches : m # l => launches'[m] = launches[m]
  BY DEF LaunchGoes, BrowserTypeOK
<1>2. OneThread' BY <1>1 DEF OneThread, LockInv
<1>3. NoPid \notin Pids BY BrowserAssumption
<1>4. ASSUME NEW m \in Launches, m # l
      PROVE  /\ launches'[m] = launches[m]
             /\ Recognised(launches[m])' => Recognised(launches[m]) /\ UNCHANGED locks
  BY <1>1, <1>3, <1>4 DEF Untouched, LockInv, Watched, Recognised, Browsers
<1>5. ~ Recognised(launches[l])' BY <1>1, <1>3 DEF Recognised
<1>6. LocksRespected' BY <1>1, <1>4, <1>5 DEF LocksRespected, LockInv
<1>7. ASSUME NEW m \in Launches PROVE Watched(m)'
  <2>1. CASE m = l BY <1>1, <1>5, <2>1 DEF Watched
  <2>2. CASE m # l BY <1>4, <2>2 DEF Watched, LockInv, Untouched
  <2>3. QED BY <2>1, <2>2
<1>8. QED BY <1>2, <1>6, <1>7 DEF LockInv

\* A browser takes the profile only where no other one has it.
LEMMA BeginsStep ==
    ASSUME BrowserInv, NEW p \in Processes, NEW kind \in Browsers,
           processes[p] = "nothing", Begins(p, kind)
    PROVE  /\ processes' \in [Processes -> Kinds]
           /\ locks' \in [Names -> Processes \cup {NoPid}]
           /\ Untouched
<1> USE DEF BrowserInv
<1>1. /\ processes' \in [Processes -> Kinds]
      /\ locks' \in [Names -> Processes \cup {NoPid}]
  BY DEF Begins, BrowserTypeOK, Browsers, Kinds
<1>2. ASSUME NEW m \in Launches, launches[m].holder # NoPid
      PROVE  /\ processes'[launches[m].holder] = processes[launches[m].holder]
             /\ Recognised(launches[m]) => UNCHANGED locks
  <2>1. /\ launches[m].holder \in Processes /\ launches[m].holder # p
        /\ Recognised(launches[m]) => locks["SingletonLock"] = launches[m].holder
    BY <1>2 DEF BrowserTypeOK, Launch, LockInv, Watched, LocksRespected, Browsers
  <2>2. processes'[launches[m].holder] = processes[launches[m].holder] BY <2>1 DEF Begins, BrowserTypeOK
  <2>3. Recognised(launches[m]) => UNCHANGED locks BY <1>2, <2>1 DEF Begins
  <2>4. QED BY <2>2, <2>3
<1>3. QED BY <1>1, <1>2 DEF Untouched

\* A launch begins where the backend has no promise.
LEMMA EnsureReadyStep == ASSUME BrowserInv, NEW l \in Launches, EnsureReady(l) PROVE BrowserInv'
<1> USE DEF BrowserInv
<1> DEFINE launch == [launches[l] EXCEPT !.at = "loading"]
<1>1. /\ launches[l].at = "idle" /\ backend.ready = NoPid /\ LaunchGoes(l, launch)
      /\ backend' = [backend EXCEPT !.ready = l]
      /\ UNCHANGED <<World, shutdown, settings, overlap>>
  BY DEF EnsureReady, LaunchAt, LaunchTo, Bounds
<1>2. launch \in Launch /\ launch.at = "loading" /\ launch.holder = NoPid /\ launch.held = {}
  <2>1. launches[l] \in Launch /\ Watched(l) BY DEF BrowserTypeOK, LockInv
  <2>2. launches[l].holder = NoPid BY <1>1, <2>1 DEF Watched
  <2>3. QED BY <2>1, <2>2 DEF Launch, Place, Pending, Watched
<1> HIDE DEF launch
<1>3. /\ launches' \in [Launches -> Launch] /\ launches'[l] = launch
      /\ \A m \in Launches : m # l => launches'[m] = launches[m]
  BY <1>1, <1>2 DEF LaunchGoes, BrowserTypeOK
<1>4. /\ backend'.ready = l /\ backend'.context = backend.context
      /\ backend'.spawned = backend.spawned
      /\ backend' \in [ready : Launches \cup {NoPid}, context : Launches \cup {NoPid},
                       spawned : Pids \cup {NoPid}]
  BY <1>1 DEF BrowserTypeOK
<1>5. BrowserTypeOK' BY <1>1, <1>3, <1>4 DEF BrowserTypeOK, World
<1>6. LockInv'
  <2>1. Untouched BY <1>1 DEF Untouched, World
  <2>2. QED BY <1>1, <1>2, <2>1, LocksKept DEF Synchronous
<1>7. KeptInv'
  <2> SUFFICES ASSUME ~ overlap PROVE KeptInv'
    BY <1>1 DEF KeptInv
  <2>1. NoOrphans' BY <1>1, <1>3, <1>4 DEF KeptInv, NoOrphans, World
  <2>2. /\ backend.spawned = NoPid /\ backend.context = NoPid /\ shutdown.at = "idle"
        /\ \A m \in Launches : launches[m].at \notin Pending
    BY <1>1, BrowserAssumption DEF KeptInv
  <2>3. QED BY <1>1, <1>2, <1>3, <1>4, <2>1, <2>2, BrowserAssumption DEF KeptInv, World
<1>8. QED BY <1>5, <1>6, <1>7

\* The lock files that a launch removes are not those of a browser it watches.
LEMMA RemoveNextStep == ASSUME BrowserInv, NEW l \in Launches, RemoveNext(l) PROVE BrowserInv'
<1> USE DEF BrowserInv
<1> DEFINE launch == [launches[l] EXCEPT !.left = Tail(@)]
<1>1. /\ launches[l].at = "removing" /\ LaunchGoes(l, launch) /\ launches[l].left # <<>>
      /\ UNCHANGED <<processes, ours, doomed, backend, shutdown, settings, overlap>>
      /\ \/ launches[l].clear /\ locks' = [locks EXCEPT ![Head(launches[l].left)] = NoPid]
         \/ UNCHANGED locks
  BY DEF RemoveNext, LaunchAt, Bounds
<1>2. /\ launches[l] \in Launch /\ Watched(l) BY DEF BrowserTypeOK, LockInv
<1>3. Head(launches[l].left) \in Names /\ Tail(launches[l].left) \in Seq(Names)
  BY <1>1, <1>2, HeadTailProperties DEF Launch
<1>4. /\ launch \in Launch /\ launch.at = "removing" /\ launch.clear = launches[l].clear
      /\ launch.pid = launches[l].pid
      /\ launch.holder = launches[l].holder /\ launch.held = launches[l].held
  BY <1>1, <1>2, <1>3 DEF Launch
<1> HIDE DEF launch
<1>5. CASE UNCHANGED locks
  <2>1. Recognised(launch) <=> Recognised(launches[l]) BY <1>4 DEF Recognised
  <2>2. Recognised(launch) => \A name \in launch.held : locks[name] = launch.holder
    BY <1>4, <2>1 DEF LockInv, LocksRespected
  <2>3. QED BY <1>1, <1>2, <1>4, <1>5, <2>1, <2>2, LaunchMoves DEF Watched, World, Pending, Synchronous
<1>6. CASE launches[l].clear /\ locks' = [locks EXCEPT ![Head(launches[l].left)] = NoPid]
  <2>1. /\ launches' \in [Launches -> Launch] /\ launches'[l] = launch
        /\ \A m \in Launches : m # l => launches'[m] = launches[m]
    BY <1>1, <1>4 DEF LaunchGoes, BrowserTypeOK
  <2>2. \A m \in Launches : /\ launches'[m].holder = launches[m].holder
                            /\ launches'[m].held = launches[m].held
                            /\ launches'[m].clear = launches[m].clear
                            /\ launches'[m].at = launches[m].at /\ launches'[m].pid = launches[m].pid
    BY <1>1, <1>4, <2>1
  <2>3. \A m \in Launches : (Recognised(launches[m]))' => Recognised(launches[m])
    BY <1>1, <2>2 DEF Recognised
  <2>4. \A m \in Launches : ~ Recognised(launches[m])
    <3>1. ~ Recognised(launches[l]) BY <1>1, <1>2, <1>6 DEF Watched
    <3>2. \A m \in Launches : Recognised(launches[m]) => m = l
      BY <1>1, BrowserAssumption DEF LockInv, Watched, OneThread, Synchronous, Recognised
    <3>3. QED BY <3>1, <3>2
  <2>5. BrowserTypeOK' BY <1>1, <1>3, <1>6, <2>1 DEF BrowserTypeOK
  <2>6. OneThread' /\ LocksRespected' BY <2>2, <2>3, <2>4 DEF LockInv, OneThread, LocksRespected
  <2>7. (\A m \in Launches : Watched(m))' BY <1>1, <2>2, <2>3, <2>4 DEF LockInv, Watched
  <2>8. KeptInv' BY <1>1, <2>2 DEF KeptInv, NoOrphans
  <2>9. QED BY <2>5, <2>6, <2>7, <2>8 DEF LockInv
<1>7. QED BY <1>1, <1>5, <1>6

\* The spawned process is waited for.
LEMMA SpawnStep == ASSUME BrowserInv, NEW l \in Launches, Spawn(l) PROVE BrowserInv'
<1> USE DEF BrowserInv
<1>1. /\ launches[l].at = "spawning" /\ ThreadFree
      /\ UNCHANGED <<doomed, backend, shutdown, settings, overlap>>
  BY DEF Spawn, LaunchAt, Bounds, Synchronous
<1>2. /\ launches[l] \in Launch /\ launches[l].holder = NoPid /\ launches[l].held = {}
  BY <1>1 DEF BrowserTypeOK, LockInv, Watched
<1>3. CASE LaunchTo(l, "failed") /\ UNCHANGED <<processes, locks, ours>>
  <2> DEFINE launch == [launches[l] EXCEPT !.at = "failed"]
  <2>1. launch \in Launch /\ launch.at = "failed" /\ launch.holder = NoPid /\ launch.held = {}
    BY <1>2 DEF Launch, Place
  <2>2. LaunchGoes(l, launch) BY <1>3 DEF LaunchTo
  <2> HIDE DEF launch
  <2>3. QED BY <1>1, <1>3, <2>1, <2>2, BrowserAssumption, LaunchMoves
        DEF World, Pending, Synchronous, Recognised
<1>4. CASE \E p \in Pids : /\ processes[p] = "nothing" /\ Begins(p, "browser") /\ ours' = ours \cup {p}
                           /\ LaunchGoes(l, [launches[l] EXCEPT !.at = "waiting", !.pid = p])
  <2>1. PICK p \in Pids : /\ processes[p] = "nothing" /\ Begins(p, "browser") /\ ours' = ours \cup {p}
                          /\ LaunchGoes(l, [launches[l] EXCEPT !.at = "waiting", !.pid = p])
    BY <1>4
  <2> DEFINE launch == [launches[l] EXCEPT !.at = "waiting", !.pid = p]
  <2>2. /\ launch \in Launch /\ launch.at = "waiting" /\ launch.pid = p
        /\ launch.holder = NoPid /\ launch.held = {}
    BY <1>2 DEF Launch, Place, Pending
  <2>3. LaunchGoes(l, launch) BY <2>1
  <2> HIDE DEF launch
  <2>4. /\ launches' \in [Launches -> Launch] /\ launches'[l] = launch
        /\ \A m \in Launches : m # l => launches'[m] = launches[m]
    BY <2>2, <2>3 DEF LaunchGoes, BrowserTypeOK
  <2>5. /\ processes' \in [Processes -> Kinds]
        /\ locks' \in [Names -> Processes \cup {NoPid}]
        /\ Untouched
    BY <2>1, BeginsStep DEF Processes, Browsers
  <2>6. BrowserTypeOK' BY <1>1, <2>1, <2>4, <2>5 DEF BrowserTypeOK
  <2>7. LockInv' BY <2>2, <2>3, <2>5, LocksKept DEF Synchronous
  <2>8. KeptInv'
    <3> SUFFICES ASSUME ~ overlap PROVE KeptInv'
      BY <1>1 DEF KeptInv
    <3>1. NoOrphans' BY <1>1, <2>1, <2>2, <2>4 DEF KeptInv, NoOrphans
    <3>2. /\ backend.ready = l /\ backend.spawned = NoPid /\ backend.context = NoPid
          /\ shutdown.at = "idle"
      BY <1>1 DEF KeptInv, Pending
    <3>3. \A m \in Launches : launches[m].at \in Pending => m = l BY <3>2 DEF KeptInv
    <3>4. QED BY <1>1, <2>2, <2>4, <3>1, <3>2, <3>3, BrowserAssumption DEF KeptInv
  <2>9. QED BY <2>6, <2>7, <2>8
<1>5. QED BY <1>3, <1>4 DEF Spawn

\* The process that answers is the backend's; a connection changes no process.
LEMMA ConnectingStep ==
    ASSUME BrowserInv, NEW l \in Launches, CdpReady(l) \/ WaitFails(l) \/ Connect(l)
    PROVE  BrowserInv'
<1> USE DEF BrowserInv
<1>1. /\ launches[l].at \in {"waiting", "connecting"}
      /\ UNCHANGED <<processes, locks, ours, shutdown, settings, overlap>>
  BY DEF CdpReady, WaitFails, Connect, LaunchAt, Bounds, World
<1>2. PICK place \in {"connecting", "failed", "ready"} : LaunchTo(l, place)
  BY DEF CdpReady, WaitFails, Connect
<1> DEFINE launch == [launches[l] EXCEPT !.at = place]
<1>3. launches[l] \in Launch /\ launches[l].holder = NoPid /\ launches[l].held = {}
  BY <1>1 DEF BrowserTypeOK, LockInv, Watched
<1>4. /\ launch \in Launch /\ launch.at = place /\ launch.pid = launches[l].pid
      /\ launch.holder = NoPid /\ launch.held = {}
  BY <1>3 DEF Launch, Place, Pending
<1>5. LaunchGoes(l, launch) BY <1>2 DEF LaunchTo
<1> HIDE DEF launch
<1>6. /\ launches' \in [Launches -> Launch] /\ launches'[l] = launch
      /\ \A m \in Launches : m # l => launches'[m] = launches[m]
  BY <1>4, <1>5 DEF LaunchGoes, BrowserTypeOK
<1>7. LockInv'
  <2>1. Untouched BY <1>1 DEF Untouched
  <2>2. QED BY <1>1, <1>4, <1>5, <2>1, LocksKept DEF Synchronous
<1>8. ~ overlap => /\ backend.ready = l /\ backend.context = NoPid /\ shutdown.at = "idle"
                   /\ launches[l].at = "waiting" => backend.spawned = NoPid
                   /\ \A m \in Launches : launches[m].at \in Pending => m = l
  BY <1>1 DEF KeptInv, Pending
<1>9. CASE CdpReady(l)
  <2>1. /\ launches[l].at = "waiting" /\ launches[l].pid \in ours /\ UNCHANGED doomed
        /\ backend' = [backend EXCEPT !.spawned = launches[l].pid] /\ LaunchTo(l, "connecting")
    BY <1>9 DEF CdpReady, LaunchAt, World
  <2>2. /\ backend'.ready = backend.ready /\ backend'.context = backend.context
        /\ backend'.spawned = launches[l].pid
        /\ backend' \in [ready : Launches \cup {NoPid}, context : Launches \cup {NoPid},
                         spawned : Pids \cup {NoPid}]
    BY <1>3, <2>1 DEF BrowserTypeOK, Launch
  <2>3. launches'[l].at = "connecting" BY <1>3, <2>1 DEF LaunchTo, LaunchGoes, BrowserTypeOK, Launch
  <2>4. BrowserTypeOK' BY <1>1, <1>6, <2>1, <2>2 DEF BrowserTypeOK
  <2>5. KeptInv'
    <3> SUFFICES ASSUME ~ overlap PROVE KeptInv'
      BY <1>1 DEF KeptInv
    <3>1. NoOrphans'
      <4>1. NoPid \notin ours BY BrowserAssumption DEF BrowserTypeOK
      <4>2. \A m \in Launches : launches[m].at = "waiting" => m = l BY <1>8 DEF Pending
      <4>3. QED BY <1>1, <1>6, <1>8, <2>1, <2>2, <4>1, <4>2 DEF KeptInv, NoOrphans
    <3>2. QED BY <1>1, <1>6, <1>8, <2>1, <2>2, <2>3, <3>1, BrowserAssumption DEF KeptInv
  <2>6. QED BY <1>7, <2>4, <2>5
<1>10. CASE WaitFails(l)
  <2>1. /\ launches[l].at = "waiting" /\ UNCHANGED backend /\ LaunchTo(l, "failed")
        /\ doomed' = IF launches[l].pid \in ours THEN doomed \cup {launches[l].pid} ELSE doomed
    BY <1>10 DEF WaitFails, LaunchAt
  <2>2. launches'[l].at = "failed" BY <1>3, <2>1 DEF LaunchTo, LaunchGoes, BrowserTypeOK, Launch
  <2>3. BrowserTypeOK' BY <1>1, <1>6, <2>1 DEF BrowserTypeOK
  <2>4. KeptInv'
    <3> SUFFICES ASSUME ~ overlap PROVE KeptInv'
      BY <1>1 DEF KeptInv
    <3>1. NoOrphans' BY <1>1, <1>6, <2>1 DEF KeptInv, NoOrphans
    <3>2. QED BY <1>1, <1>6, <1>8, <2>1, <2>2, <3>1, BrowserAssumption DEF KeptInv, Pending, Synchronous
  <2>5. QED BY <1>7, <2>3, <2>4
<1>11. CASE Connect(l)
  <2>1. /\ launches[l].at = "connecting" /\ UNCHANGED doomed
        /\ backend' \in {backend, [backend EXCEPT !.context = l]}
        /\ LaunchTo(l, "ready") \/ LaunchTo(l, "failed")
    BY <1>11 DEF Connect, LaunchAt, World
  <2>2. /\ backend'.ready = backend.ready /\ backend'.spawned = backend.spawned
        /\ backend' \in [ready : Launches \cup {NoPid}, context : Launches \cup {NoPid},
                         spawned : Pids \cup {NoPid}]
    BY <2>1 DEF BrowserTypeOK
  <2>3. launches'[l].at \in {"ready", "failed"}
    BY <1>3, <2>1 DEF LaunchTo, LaunchGoes, BrowserTypeOK, Launch
  <2>4. BrowserTypeOK' BY <1>1, <1>6, <2>1, <2>2 DEF BrowserTypeOK
  <2>5. KeptInv'
    <3> SUFFICES ASSUME ~ overlap PROVE KeptInv'
      BY <1>1 DEF KeptInv
    <3>1. NoOrphans' BY <1>1, <1>6, <2>1, <2>2 DEF KeptInv, NoOrphans
    <3>2. QED BY <1>1, <1>6, <1>8, <2>1, <2>2, <2>3, <3>1, BrowserAssumption
          DEF KeptInv, Pending, Synchronous
  <2>6. QED BY <1>7, <2>4, <2>5
<1>12. QED BY <1>9, <1>10, <1>11

\* The launches and their locks, when nothing but the backend and the doomed change.
LEMMA BackendOnly ==
    ASSUME BrowserInv, UNCHANGED <<processes, locks, launches>> PROVE LockInv'
BY DEF BrowserInv, LockInv, OneThread, LocksRespected, Watched, Recognised

\* A shutdown: the process is stopped, or is none, before the backend forgets it.
LEMMA StoppingStep ==
    ASSUME BrowserInv, Shutdown \/ ContextClosed \/ GraceOver \/ Stopped
    PROVE  BrowserInv'
<1> USE DEF BrowserInv
<1>1. UNCHANGED <<processes, locks, launches, ours, settings>>
  BY DEF Shutdown, ContextClosed, GraceOver, Stopped, Bounds, World
<1>2. LockInv' BY <1>1, BackendOnly
<1>3. ASSUME NEW b, b \in {backend, [backend EXCEPT !.context = NoPid]}, StopSpawned(b),
             b.context = NoPid, overlap' \in BOOLEAN,
             ~ overlap' => ~ overlap /\ \A l \in Launches : launches[l].at \notin Pending
      PROVE  BrowserInv'
  <2>1. /\ b.spawned = backend.spawned /\ b.ready = backend.ready
        /\ b \in [ready : Launches \cup {NoPid}, context : Launches \cup {NoPid},
                  spawned : Pids \cup {NoPid}]
    BY <1>3 DEF BrowserTypeOK
  <2>2. CASE b.spawned \in ours
    <3>1. /\ shutdown' = [at |-> IF settings.windows THEN "killing" ELSE "terminating",
                          pid |-> b.spawned]
          /\ doomed' = IF settings.windows THEN doomed \cup {b.spawned} ELSE doomed
          /\ backend' = b
      BY <1>3, <2>2 DEF StopSpawned
    <3>2. BrowserTypeOK' BY <1>1, <1>3, <2>1, <2>2, <3>1 DEF BrowserTypeOK
    <3>3. KeptInv'
      <4> SUFFICES ASSUME ~ overlap' PROVE KeptInv'
        BY DEF KeptInv
      <4>1. NoOrphans' BY <1>1, <1>3, <2>1, <3>1 DEF KeptInv, NoOrphans
      <4>2. b.spawned # NoPid BY <2>2, BrowserAssumption DEF BrowserTypeOK
      <4>3. b.ready # NoPid BY <1>3, <2>1, <4>2 DEF KeptInv
      <4>4. QED BY <1>1, <1>3, <2>1, <3>1, <4>1, <4>3 DEF KeptInv
    <3>4. QED BY <1>2, <3>2, <3>3
  <2>3. CASE b.spawned \notin ours
    <3>1. shutdown' = NoShutdown /\ backend' = Forget(b) /\ UNCHANGED doomed
      BY <1>3, <2>3 DEF StopSpawned
    <3>2. backend'.ready = NoPid /\ backend'.context = NoPid /\ backend'.spawned = NoPid
          /\ backend' \in [ready : Launches \cup {NoPid}, context : Launches \cup {NoPid},
                           spawned : Pids \cup {NoPid}]
      BY <2>1, <3>1 DEF Forget
    <3>3. BrowserTypeOK' BY <1>1, <1>3, <3>1, <3>2 DEF BrowserTypeOK, NoShutdown
    <3>4. KeptInv'
      <4> SUFFICES ASSUME ~ overlap' PROVE KeptInv'
        BY DEF KeptInv
      <4>1. NoOrphans' BY <1>1, <1>3, <2>1, <2>3, <3>1 DEF KeptInv, NoOrphans
      <4>2. QED BY <1>1, <1>3, <3>1, <3>2, <4>1 DEF KeptInv, NoShutdown
    <3>5. QED BY <1>2, <3>3, <3>4
  <2>4. QED BY <2>2, <2>3
<1>4. CASE Shutdown
  <2>1. /\ shutdown.at = "idle"
        /\ overlap' = (overlap \/ \E l \in Launches : launches[l].at \in Pending)
    BY <1>4 DEF Shutdown
  <2>2. overlap' \in BOOLEAN BY <2>1, Zenon DEF BrowserTypeOK
  <2>3. ~ overlap' => ~ overlap /\ \A l \in Launches : launches[l].at \notin Pending
    BY <2>1, Zenon
  <2>4. CASE backend.context = NoPid
    <3>1. StopSpawned(backend) BY <1>4, <2>4 DEF Shutdown
    <3>2. QED BY <1>3, <2>2, <2>3, <2>4, <3>1
  <2>5. CASE backend.context # NoPid
    <3>1. shutdown' = [NoShutdown EXCEPT !.at = "closing"] /\ UNCHANGED <<backend, doomed>>
      BY <1>4, <2>5 DEF Shutdown
    <3>2. BrowserTypeOK' BY <1>1, <2>2, <3>1 DEF BrowserTypeOK, NoShutdown
    <3>3. KeptInv'
      <4> SUFFICES ASSUME ~ overlap' PROVE KeptInv'
        BY DEF KeptInv
      <4>1. NoOrphans' BY <1>1, <2>3, <3>1 DEF KeptInv, NoOrphans
      <4>2. QED BY <1>1, <2>3, <2>5, <3>1, <4>1 DEF KeptInv, NoShutdown
    <3>4. QED BY <1>2, <3>2, <3>3
  <2>6. QED BY <2>4, <2>5
<1>5. CASE ContextClosed
  <2>1. /\ shutdown.at = "closing" /\ StopSpawned([backend EXCEPT !.context = NoPid])
        /\ overlap' = overlap
    BY <1>5 DEF ContextClosed, Bounds
  <2>2. ~ overlap => \A l \in Launches : launches[l].at \notin Pending BY <2>1 DEF KeptInv
  <2>3. [backend EXCEPT !.context = NoPid].context = NoPid BY DEF BrowserTypeOK
  <2>4. QED BY <1>3, <2>1, <2>2, <2>3 DEF BrowserTypeOK
<1>6. CASE GraceOver
  <2>1. /\ shutdown.at = "terminating" /\ shutdown.pid \in ours
        /\ doomed' = doomed \cup {shutdown.pid}
        /\ shutdown' = [shutdown EXCEPT !.at = "killing"] /\ UNCHANGED <<backend, overlap>>
    BY <1>6 DEF GraceOver, Bounds
  <2>2. /\ shutdown'.at = "killing" /\ shutdown'.pid = shutdown.pid
        /\ shutdown' \in [at : {"idle", "closing", "terminating", "killing"}, pid : Pids \cup {NoPid}]
    BY <2>1 DEF BrowserTypeOK
  <2>3. BrowserTypeOK' BY <1>1, <2>1, <2>2 DEF BrowserTypeOK
  <2>4. KeptInv'
    <3> SUFFICES ASSUME ~ overlap PROVE KeptInv'
      BY <2>1 DEF KeptInv
    <3>1. NoOrphans' BY <1>1, <2>1 DEF KeptInv, NoOrphans
    <3>2. QED BY <1>1, <2>1, <2>2, <3>1 DEF KeptInv
  <2>5. QED BY <1>2, <2>3, <2>4
<1>7. CASE Stopped
  <2>1. /\ shutdown.at \in {"terminating", "killing"} /\ shutdown' = NoShutdown
        /\ shutdown.pid \notin ours \/ settings.windows
        /\ backend' = [Forget(backend) EXCEPT !.context = backend.context]
        /\ UNCHANGED <<overlap, doomed>>
    BY <1>7 DEF Stopped, Bounds, World
  <2>2. backend'.ready = NoPid /\ backend'.context = backend.context /\ backend'.spawned = NoPid
        /\ backend' \in [ready : Launches \cup {NoPid}, context : Launches \cup {NoPid},
                         spawned : Pids \cup {NoPid}]
    BY <2>1 DEF Forget, BrowserTypeOK
  <2>3. BrowserTypeOK' BY <1>1, <2>1, <2>2 DEF BrowserTypeOK, NoShutdown
  <2>4. KeptInv'
    <3> SUFFICES ASSUME ~ overlap PROVE KeptInv'
      BY <2>1 DEF KeptInv
    <3>1. shutdown.pid = backend.spawned /\ backend.context = NoPid BY <2>1 DEF KeptInv
    <3>2. backend.spawned \in ours => backend.spawned \in doomed BY <2>1, <3>1 DEF KeptInv
    <3>3. NoOrphans' BY <1>1, <2>1, <3>2 DEF KeptInv, NoOrphans
    <3>4. \A l \in Launches : launches[l].at \notin Pending BY <2>1 DEF KeptInv
    <3>5. QED BY <1>1, <2>1, <2>2, <3>1, <3>3, <3>4 DEF KeptInv, NoShutdown
  <2>5. QED BY <1>2, <2>3, <2>4
<1>8. QED BY <1>4, <1>5, <1>6, <1>7

\* A process ends, and whoever watched it watches nothing any more.
LEMMA ProcessEndsStep == ASSUME BrowserInv, NEW p \in Processes, ProcessEnds(p) PROVE BrowserInv'
<1> USE DEF BrowserInv
<1>1. /\ processes' = [processes EXCEPT ![p] = "nothing"]
      /\ ours' = ours \ {p} /\ doomed' = doomed \ {p}
      /\ UNCHANGED <<backend, shutdown, settings, overlap>>
  BY DEF ProcessEnds, Bounds
<1>2. /\ locks' \in [Names -> Processes \cup {NoPid}]
      /\ \A name \in Names : locks[name] # p => locks'[name] = locks[name]
  BY DEF ProcessEnds, BrowserTypeOK
<1>3. /\ launches' \in [Launches -> Launch]
      /\ \A l \in Launches :
            /\ launches'[l].at = launches[l].at /\ launches'[l].pid = launches[l].pid
            /\ launches'[l].clear = launches[l].clear
            /\ launches[l].holder = p => launches'[l].holder = NoPid /\ launches'[l].held = {}
            /\ launches[l].holder # p => launches'[l] = launches[l]
  <2>1. launches' = [l \in Launches |->
                       IF launches[l].holder = p
                       THEN [launches[l] EXCEPT !.holder = NoPid, !.held = {}] ELSE launches[l]]
    BY DEF ProcessEnds
  <2>2. ASSUME NEW l \in Launches
        PROVE  /\ launches'[l] \in Launch
               /\ launches'[l].at = launches[l].at /\ launches'[l].pid = launches[l].pid
               /\ launches'[l].clear = launches[l].clear
               /\ launches[l].holder = p => launches'[l].holder = NoPid /\ launches'[l].held = {}
               /\ launches[l].holder # p => launches'[l] = launches[l]
    BY <2>1 DEF BrowserTypeOK, Launch
  <2>3. QED BY <2>1, <2>2
<1>4. BrowserTypeOK' BY <1>1, <1>2, <1>3 DEF BrowserTypeOK, Kinds
<1>5. LockInv'
  <2>1. OneThread' BY <1>3 DEF LockInv, OneThread
  <2>2. ASSUME NEW l \in Launches
        PROVE  /\ Watched(l)'
               /\ (Recognised(launches[l]))' =>
                     \A name \in launches'[l].held : locks'[name] = launches'[l].holder
    <3>1. CASE launches[l].holder = p
      BY <1>3, <3>1, BrowserAssumption DEF Watched, Recognised
    <3>2. CASE launches[l].holder # p
      <4>1. /\ launches'[l] = launches[l] /\ launches[l].holder \in Processes \cup {NoPid}
            /\ launches[l].held \subseteq Names
        BY <1>3, <3>2 DEF BrowserTypeOK, Launch
      <4>2. launches[l].holder # NoPid => processes'[launches[l].holder] = processes[launches[l].holder]
        BY <1>1, <3>2, <4>1 DEF BrowserTypeOK
      <4>3. (Recognised(launches[l]))' <=> Recognised(launches[l])
        BY <4>1, <4>2, BrowserAssumption DEF Recognised
      <4>4. Watched(l)' BY <4>1, <4>2, <4>3 DEF LockInv, Watched
      <4>5. Recognised(launches[l]) =>
               \A name \in launches[l].held : name \in Names /\ locks[name] = launches[l].holder
        BY <4>1 DEF LockInv, LocksRespected
      <4>6. QED BY <1>2, <3>2, <4>1, <4>3, <4>4, <4>5
    <3>3. QED BY <3>1, <3>2
  <2>3. QED BY <2>1, <2>2 DEF LockInv, LocksRespected
<1>6. KeptInv'
  <2> SUFFICES ASSUME ~ overlap PROVE KeptInv'
    BY <1>1 DEF KeptInv
  <2>1. NoOrphans' BY <1>1, <1>3 DEF KeptInv, NoOrphans
  <2>2. QED BY <1>1, <1>3, <2>1 DEF KeptInv
<1>7. QED BY <1>4, <1>5, <1>6

\* Somebody else's process is none of the backend's.
LEMMA OtherStartsStep ==
    ASSUME BrowserInv, NEW p \in Processes, NEW kind \in Browsers \cup {"other"}, OtherStarts(p, kind)
    PROVE  BrowserInv'
<1> USE DEF BrowserInv
<1>1. /\ processes[p] = "nothing"
      /\ UNCHANGED <<ours, doomed, backend, launches, shutdown, settings, overlap>>
  BY DEF OtherStarts
<1>2. /\ processes' \in [Processes -> Kinds]
      /\ locks' \in [Names -> Processes \cup {NoPid}]
      /\ Untouched
  <2>1. CASE kind \in Browsers /\ Begins(p, kind) BY <1>1, <2>1, BeginsStep
  <2>2. CASE processes' = [processes EXCEPT ![p] = "other"] /\ UNCHANGED locks
    <3>1. \A m \in Launches : launches[m].holder # NoPid =>
             launches[m].holder \in Processes /\ launches[m].holder # p
      BY <1>1 DEF BrowserTypeOK, LockInv, Watched, Launch, Browsers
    <3>2. QED BY <2>2, <3>1 DEF BrowserTypeOK, Untouched, Kinds
  <2>3. QED BY <2>1, <2>2 DEF OtherStarts
<1>3. BrowserTypeOK' BY <1>1, <1>2 DEF BrowserTypeOK
<1>4. \A m \in Launches : (Recognised(launches[m]))' => Recognised(launches[m]) /\ UNCHANGED locks
  BY <1>1, <1>2, BrowserAssumption DEF Untouched, Recognised
<1>5. OneThread' /\ LocksRespected' BY <1>1, <1>4 DEF LockInv, OneThread, LocksRespected
<1>6. (\A m \in Launches : Watched(m))' BY <1>1, <1>2, <1>4 DEF LockInv, Watched, Untouched
<1>7. KeptInv' BY <1>1 DEF KeptInv, NoOrphans
<1>8. QED BY <1>3, <1>5, <1>6, <1>7 DEF LockInv

-----------------------------------------------------------------------------
(* All together.                                                           *)

\* At the start nothing is pending.
LEMMA BrowserInvInit == BrowserInit => BrowserInv
<1> SUFFICES ASSUME BrowserInit PROVE BrowserInv
  OBVIOUS
<1>1. \A l \in Launches : launches[l] = NoLaunch BY DEF BrowserInit
<1>2. BrowserTypeOK BY NoLaunchIsLaunch DEF BrowserInit, BrowserTypeOK, NoShutdown, Kinds
<1>3. LockInv
  BY <1>1, BrowserAssumption
  DEF LockInv, OneThread, LocksRespected, Watched, NoLaunch, Synchronous, Recognised
<1>4. KeptInv BY <1>1 DEF KeptInv, NoOrphans, BrowserInit, NoLaunch, NoShutdown, Pending, Synchronous
<1>5. QED BY <1>2, <1>3, <1>4 DEF BrowserInv

\* Every step preserves the invariant.
LEMMA BrowserInvStep == BrowserInv /\ [BrowserNext]_browserVars => BrowserInv'
<1> SUFFICES ASSUME BrowserInv, [BrowserNext]_browserVars PROVE BrowserInv'
  OBVIOUS
<1>1. ASSUME NEW l \in Launches,
             \/ EnsureReady(l) \/ Loaded(l) \/ ReadLock(l) \/ CheckOwner(l) \/ Probe(l)
             \/ RemoveNext(l) \/ Decorate(l) \/ PickPort(l) \/ Spawn(l) \/ CdpReady(l)
             \/ WaitFails(l) \/ Connect(l)
      PROVE  BrowserInv'
  BY <1>1, EnsureReadyStep, JudgingStep, RemoveNextStep, PreparingStep, SpawnStep, ConnectingStep
<1>2. CASE Shutdown \/ ContextClosed \/ GraceOver \/ Stopped BY <1>2, StoppingStep
<1>3. ASSUME NEW p \in Processes, ProcessEnds(p) PROVE BrowserInv' BY <1>3, ProcessEndsStep
<1>4. ASSUME NEW p \in Processes, NEW kind \in Browsers \cup {"other"}, OtherStarts(p, kind)
      PROVE  BrowserInv'
  BY <1>4, OtherStartsStep
<1>5. CASE UNCHANGED browserVars
  BY <1>5 DEF browserVars, BrowserInv, BrowserTypeOK, LockInv, OneThread, LocksRespected, Watched,
              KeptInv, NoOrphans, Recognised
<1>6. QED BY <1>1, <1>2, <1>3, <1>4, <1>5 DEF BrowserNext, Processes, Browsers

\* Launches, failures, shutdowns and processes of anybody in any order, on any number of
\* hosts: every Chrome of the backend is the one it will stop, one it waits for or one it has
\* killed, unless a shutdown came in the middle of a launch; and no browser that a launch
\* recognised, on this host, of this user and with a lock that could be read, loses its lock
\* files to it while it lives.
THEOREM NoBrowserIsLost == BrowserSpec => []BrowsersAreKept
<1>1. BrowserInv => BrowsersAreKept
  BY DEF BrowserInv, BrowsersAreKept, LockInv, KeptInv, NoOrphans
<1>2. QED BY <1>1, BrowserInvInit, BrowserInvStep, PTL DEF BrowserSpec

-----------------------------------------------------------------------------
(* The web.                                                                *)

\* A call of a web tool, from its start on.
Hopping == {"resolve", "curl", "connected"}
WebPlaces == {"asking", "link", "ended"} \cup Hopping
LinkOutcomes == {"failed", "unusable", "empty", "found", "cached"}
WebResults == {"none", "ok", "error", "thrown", "found", "empty"}
WebCall ==
    [at : WebPlaces, request : WebRequests, url : WebUrls,
     method : {request.method : request \in WebRequests} \cup {"GET", "POST"},
     body : {request.body : request \in WebRequests} \cup {"none", "text"},
     hop : Nat, pinned : Address \cup {<<>>}, reached : Address \cup {<<>>}, approved : BOOLEAN,
     told : Seq(LinkOutcomes), result : WebResults, ended : Nat]

WebTypeOK ==
    /\ webCalls \in [WebCalls -> WebCall \cup {NoCall}]
    /\ dns \in [HostNames -> DnsAnswers] /\ clock \in Nat

\* What a call carries from hop to hop.
Guarded(call) ==
    call # NoCall =>
        /\ call.at = "asking" => call.request.tool = "request" /\ call.reached = <<>>
        /\ call.at = "link" => call.request.tool = "search"
        /\ call.at \in {"curl", "connected"} => call.pinned # <<>> /\ ~IsBlockedIp(call.pinned)
        /\ call.reached # <<>> => ~IsBlockedIp(call.reached)
        /\ call.at = "ended" => call.reached = <<>>
        /\ call.at # "ended" /\ call.request.tool = "request" =>
              /\ HostAllowed(call.request.url) /\ HttpArgs(call.request)
              /\ call.at # "asking" /\ NeedsApproval(call.request.method) => call.approved
              /\ call.method \in {"GET", call.request.method}
              /\ call.body = IF call.method = call.request.method THEN call.request.body ELSE "none"

GuardedInv == WebTypeOK /\ \A c \in WebCalls : Guarded(webCalls[c])

\* What the cache may hold after these answers, and that a provider was asked and said so.
Entries(said) == {[key |-> a.key, found |-> a.found, expiresAt |-> a.at + CacheTtl] : a \in said}
SaidNothing(said, name, query, latest) ==
    \E a \in said :
        /\ a.key = [provider |-> name, query |-> query] /\ a.found = FALSE
        /\ Usable(name) /\ a.at <= latest
SaidResults(said, name, query, end) ==
    \E a \in said :
        /\ a.key = [provider |-> name, query |-> query] /\ a.found = TRUE
        /\ Usable(name) /\ a.at <= end
        /\ a.at = end \/ end < a.at + CacheTtl

\* What a search knows when these are the answers and this is the time: on its way along the
\* chain, that an empty link was one, and at its end what it returns.
Searched(call, said, now) ==
    call # NoCall /\ call.request.tool = "search" =>
        LET query == call.request.query
        IN  /\ call.ended <= now
            /\ call.at # "ended" =>
                  /\ call.result = "none"
                  /\ \A link \in DOMAIN call.told :
                        \/ call.told[link] \in {"failed", "unusable"}
                        \/ call.told[link] = "empty" /\ SaidNothing(said, Chain[link], query, now)
            /\ call.at \in Hopping => Usable(Chain[Len(call.told) + 1])
            /\ call.result = "found" => SaidResults(said, Chain[Len(call.told)], query, call.ended)
            /\ call.result = "empty" =>
                  \E link \in DOMAIN call.told : SaidNothing(said, Chain[link], query, call.ended)
            /\ call.result = "error" =>
                  \A link \in DOMAIN call.told : call.told[link] \in {"failed", "unusable"}

AnswersInv == \A a \in answered : a.at \in 0 .. clock /\ a.found \in BOOLEAN

SearchInv ==
    /\ GuardedInv
    /\ \A c \in WebCalls : Searched(webCalls[c], answered, clock)
    /\ cache \in Seq(Entries(answered)) /\ AnswersInv

\* How the masks of the IPv4 blocks compare: the octets a prefix covers, and the bits of the
\* octet it ends in.
LEMMA Masks4 ==
    ASSUME NEW ip \in [1 .. 4 -> 0 .. 255], NEW a \in 0 .. 255, NEW b \in 0 .. 255, NEW c \in 0 .. 255,
           NEW d \in 0 .. 255
    PROVE  /\ ip[1] \div 16 = a \div 16 => SamePrefix(ip, <<a, b, c, d>>, 8, 4)
           /\ ip[1] = a => SamePrefix(ip, <<a, b, c, d>>, 8, 8)
           /\ ip[1] = a /\ ip[2] \div 64 = b \div 64 => SamePrefix(ip, <<a, b, c, d>>, 8, 10)
           /\ ip[1] = a /\ ip[2] \div 16 = b \div 16 => SamePrefix(ip, <<a, b, c, d>>, 8, 12)
           /\ ip[1] = a /\ ip[2] \div 2 = b \div 2 => SamePrefix(ip, <<a, b, c, d>>, 8, 15)
           /\ ip[1] = a /\ ip[2] = b => SamePrefix(ip, <<a, b, c, d>>, 8, 16)
           /\ ip[1] = a /\ ip[2] = b /\ ip[3] = c => SamePrefix(ip, <<a, b, c, d>>, 8, 24)
<1> DEFINE net == <<a, b, c, d>>
           kept(p, k) == p - 8 * (k - 1)
           unit(p, k) == PowerOfTwo(IF kept(p, k) <= 0 THEN 8 ELSE IF kept(p, k) >= 8 THEN 0 ELSE 8 - kept(p, k))
<1>1. /\ PowerOfTwo(0) = 1 /\ PowerOfTwo(1) = 2 /\ PowerOfTwo(4) = 16 /\ PowerOfTwo(6) = 64
      /\ PowerOfTwo(8) = 256
  BY DEF PowerOfTwo
<1>2. /\ ip[1] \div 256 = 0 /\ ip[2] \div 256 = 0 /\ ip[3] \div 256 = 0 /\ ip[4] \div 256 = 0
      /\ a \div 256 = 0 /\ b \div 256 = 0 /\ c \div 256 = 0 /\ d \div 256 = 0
  OBVIOUS
<1>3. DOMAIN net = 1 .. 4 /\ net[1] = a /\ net[2] = b /\ net[3] = c /\ net[4] = d OBVIOUS
<1>4. ip[1] \in 0 .. 255 /\ ip[2] \in 0 .. 255 /\ ip[3] \in 0 .. 255 /\ ip[4] \in 0 .. 255 OBVIOUS
<1>5. ASSUME NEW p,
             ip[1] \div unit(p, 1) = a \div unit(p, 1), ip[2] \div unit(p, 2) = b \div unit(p, 2),
             ip[3] \div unit(p, 3) = c \div unit(p, 3), ip[4] \div unit(p, 4) = d \div unit(p, 4)
      PROVE  SamePrefix(ip, net, 8, p)
  <2> HIDE DEF net
  <2>1. \A k \in DOMAIN net : ip[k] \div unit(p, k) = net[k] \div unit(p, k)
    <3> HIDE DEF unit
    <3>1. \A k \in 1 .. 4 : k = 1 \/ k = 2 \/ k = 3 \/ k = 4 OBVIOUS
    <3>2. QED BY <1>3, <1>5, <3>1
  <2>2. QED BY <2>1, Zenon DEF SamePrefix
<1>6. ASSUME ip[1] \div 16 = a \div 16 PROVE SamePrefix(ip, net, 8, 4)
  <2>1. unit(4, 1) = 16 /\ unit(4, 2) = 256 /\ unit(4, 3) = 256 /\ unit(4, 4) = 256 BY <1>1
  <2> HIDE DEF net, unit
  <2>2. /\ ip[1] \div unit(4, 1) = a \div unit(4, 1) /\ ip[2] \div unit(4, 2) = b \div unit(4, 2)
        /\ ip[3] \div unit(4, 3) = c \div unit(4, 3) /\ ip[4] \div unit(4, 4) = d \div unit(4, 4)
    <3>1. ip[1] \div unit(4, 1) = a \div unit(4, 1) BY <1>6, <2>1, Zenon
    <3>2. /\ ip[2] \div unit(4, 2) = b \div unit(4, 2) /\ ip[3] \div unit(4, 3) = c \div unit(4, 3)
          /\ ip[4] \div unit(4, 4) = d \div unit(4, 4)
      BY <1>2, <2>1, Zenon
    <3>3. QED BY <3>1, <3>2
  <2>3. QED BY <1>5, <2>2, Zenon
<1>7. ASSUME ip[1] = a PROVE SamePrefix(ip, net, 8, 8)
  <2>1. unit(8, 1) = 1 /\ unit(8, 2) = 256 /\ unit(8, 3) = 256 /\ unit(8, 4) = 256 BY <1>1
  <2> HIDE DEF net, unit
  <2>2. /\ ip[1] \div unit(8, 1) = a \div unit(8, 1) /\ ip[2] \div unit(8, 2) = b \div unit(8, 2)
        /\ ip[3] \div unit(8, 3) = c \div unit(8, 3) /\ ip[4] \div unit(8, 4) = d \div unit(8, 4)
    BY <1>2, <1>7, <2>1, Zenon
  <2>3. QED BY <1>5, <2>2, Zenon
<1>8. ASSUME ip[1] = a, ip[2] \div 64 = b \div 64 PROVE SamePrefix(ip, net, 8, 10)
  <2>1. unit(10, 1) = 1 /\ unit(10, 2) = 64 /\ unit(10, 3) = 256 /\ unit(10, 4) = 256 BY <1>1
  <2> HIDE DEF net, unit
  <2>2. /\ ip[1] \div unit(10, 1) = a \div unit(10, 1) /\ ip[2] \div unit(10, 2) = b \div unit(10, 2)
        /\ ip[3] \div unit(10, 3) = c \div unit(10, 3) /\ ip[4] \div unit(10, 4) = d \div unit(10, 4)
    BY <1>2, <1>8, <2>1, Zenon
  <2>3. QED BY <1>5, <2>2, Zenon
<1>9. ASSUME ip[1] = a, ip[2] \div 16 = b \div 16 PROVE SamePrefix(ip, net, 8, 12)
  <2>1. unit(12, 1) = 1 /\ unit(12, 2) = 16 /\ unit(12, 3) = 256 /\ unit(12, 4) = 256 BY <1>1
  <2> HIDE DEF net, unit
  <2>2. /\ ip[1] \div unit(12, 1) = a \div unit(12, 1) /\ ip[2] \div unit(12, 2) = b \div unit(12, 2)
        /\ ip[3] \div unit(12, 3) = c \div unit(12, 3) /\ ip[4] \div unit(12, 4) = d \div unit(12, 4)
    BY <1>2, <1>9, <2>1, Zenon
  <2>3. QED BY <1>5, <2>2, Zenon
<1>10. ASSUME ip[1] = a, ip[2] \div 2 = b \div 2 PROVE SamePrefix(ip, net, 8, 15)
  <2>1. unit(15, 1) = 1 /\ unit(15, 2) = 2 /\ unit(15, 3) = 256 /\ unit(15, 4) = 256 BY <1>1
  <2> HIDE DEF net, unit
  <2>2. /\ ip[1] \div unit(15, 1) = a \div unit(15, 1) /\ ip[2] \div unit(15, 2) = b \div unit(15, 2)
        /\ ip[3] \div unit(15, 3) = c \div unit(15, 3) /\ ip[4] \div unit(15, 4) = d \div unit(15, 4)
    BY <1>2, <1>10, <2>1, Zenon
  <2>3. QED BY <1>5, <2>2, Zenon
<1>11. ASSUME ip[1] = a, ip[2] = b PROVE SamePrefix(ip, net, 8, 16)
  <2>1. unit(16, 1) = 1 /\ unit(16, 2) = 1 /\ unit(16, 3) = 256 /\ unit(16, 4) = 256 BY <1>1
  <2> HIDE DEF net, unit
  <2>2. /\ ip[1] \div unit(16, 1) = a \div unit(16, 1) /\ ip[2] \div unit(16, 2) = b \div unit(16, 2)
        /\ ip[3] \div unit(16, 3) = c \div unit(16, 3) /\ ip[4] \div unit(16, 4) = d \div unit(16, 4)
    BY <1>2, <1>11, <2>1, Zenon
  <2>3. QED BY <1>5, <2>2, Zenon
<1>12. ASSUME ip[1] = a, ip[2] = b, ip[3] = c PROVE SamePrefix(ip, net, 8, 24)
  <2>1. unit(24, 1) = 1 /\ unit(24, 2) = 1 /\ unit(24, 3) = 1 /\ unit(24, 4) = 256 BY <1>1
  <2> HIDE DEF net, unit
  <2>2. /\ ip[1] \div unit(24, 1) = a \div unit(24, 1) /\ ip[2] \div unit(24, 2) = b \div unit(24, 2)
        /\ ip[3] \div unit(24, 3) = c \div unit(24, 3) /\ ip[4] \div unit(24, 4) = d \div unit(24, 4)
    BY <1>2, <1>12, <2>1, Zenon
  <2>3. QED BY <1>5, <2>2, Zenon
<1>13. QED BY <1>6, <1>7, <1>8, <1>9, <1>10, <1>11, <1>12

\* A private IPv4 address lies in a blocked block.
LEMMA PrivateIsBlocked4 ==
    ASSUME NEW ip \in [1 .. 4 -> 0 .. 255], Private4(ip[1], ip[2], ip[3])
    PROVE  IsBlockedIpv4(ip)
<1> DEFINE a == ip[1]
           b == ip[2]
           c == ip[3]
<1>1. a \in 0 .. 255 /\ b \in 0 .. 255 /\ c \in 0 .. 255 OBVIOUS
<1>2. Len(ip) = 4 OBVIOUS
<1>3. SUFFICES \E r \in BLOCKED_IPV4 : SamePrefix(ip, r.net, 8, r.prefix) BY <1>2 DEF IsBlockedIpv4
<1> DEFINE Blocked == \E r \in BLOCKED_IPV4 : SamePrefix(ip, r.net, 8, r.prefix)
           Within(w, x, y, z, p) == Range4(w, x, y, z, p) \in BLOCKED_IPV4 /\ SamePrefix(ip, <<w, x, y, z>>, 8, p)
<1>4. ASSUME NEW w, NEW x, NEW y, NEW z, NEW p, Within(w, x, y, z, p) PROVE Blocked
  <2>1. Range4(w, x, y, z, p).net = <<w, x, y, z>> /\ Range4(w, x, y, z, p).prefix = p BY DEF Range4
  <2>2. QED BY <1>4, <2>1, Zenon
<1>20. ASSUME NEW w \in 0 .. 255, NEW x \in 0 .. 255, NEW y \in 0 .. 255, NEW z \in 0 .. 255
       PROVE  /\ a \div 16 = w \div 16 => SamePrefix(ip, <<w, x, y, z>>, 8, 4)
              /\ a = w => SamePrefix(ip, <<w, x, y, z>>, 8, 8)
              /\ a = w /\ b \div 64 = x \div 64 => SamePrefix(ip, <<w, x, y, z>>, 8, 10)
              /\ a = w /\ b \div 16 = x \div 16 => SamePrefix(ip, <<w, x, y, z>>, 8, 12)
              /\ a = w /\ b \div 2 = x \div 2 => SamePrefix(ip, <<w, x, y, z>>, 8, 15)
              /\ a = w /\ b = x => SamePrefix(ip, <<w, x, y, z>>, 8, 16)
              /\ a = w /\ b = x /\ c = y => SamePrefix(ip, <<w, x, y, z>>, 8, 24)
  BY Masks4
<1>23. ASSUME NEW w \in 0 .. 255, NEW x \in 0 .. 255, NEW y \in 0 .. 255, NEW z \in 0 .. 255, a = w, b = x
       PROVE  SamePrefix(ip, <<w, x, y, z>>, 8, 16)
  BY <1>20, <1>23, Zenon
<1>5. \/ a = 0 \/ a = 10 \/ a = 127 \/ a \div 16 = 14 \/ a \div 16 = 15
      \/ (a = 100 /\ b \div 64 = 1) \/ (a = 169 /\ b = 254) \/ (a = 172 /\ b \div 16 = 1)
      \/ (a = 192 /\ b = 168) \/ (a = 192 /\ b = 0 /\ c = 0) \/ (a = 192 /\ b = 0 /\ c = 2)
      \/ (a = 198 /\ b \div 2 = 9) \/ (a = 198 /\ b = 51 /\ c = 100) \/ (a = 203 /\ b = 0 /\ c = 113)
  BY <1>1 DEF Private4
<1> HIDE DEF a, b, c, Blocked
<1>21. SUFFICES Blocked BY DEF Blocked
<1>6. CASE a = 0
  <2>1. 0 \in 0 .. 255 OBVIOUS
  <2>2. SamePrefix(ip, <<0, 0, 0, 0>>, 8, 8) BY <1>6, <1>20, <2>1, Zenon
  <2>3. Within(0, 0, 0, 0, 8) BY <2>2, Zenon DEF BLOCKED_IPV4
  <2>4. QED BY <1>4, <2>3, Zenon
<1>7. CASE a = 10
  <2>1. 0 \in 0 .. 255 /\ 10 \in 0 .. 255 OBVIOUS
  <2>2. SamePrefix(ip, <<10, 0, 0, 0>>, 8, 8) BY <1>7, <1>20, <2>1, Zenon
  <2>3. Within(10, 0, 0, 0, 8) BY <2>2, Zenon DEF BLOCKED_IPV4
  <2>4. QED BY <1>4, <2>3, Zenon
<1>8. CASE a = 127
  <2>1. 0 \in 0 .. 255 /\ 127 \in 0 .. 255 OBVIOUS
  <2>2. SamePrefix(ip, <<127, 0, 0, 0>>, 8, 8) BY <1>8, <1>20, <2>1, Zenon
  <2>3. Within(127, 0, 0, 0, 8) BY <2>2, Zenon DEF BLOCKED_IPV4
  <2>4. QED BY <1>4, <2>3, Zenon
<1>9. CASE a \div 16 = 14
  <2>1. 0 \in 0 .. 255 /\ 224 \in 0 .. 255 OBVIOUS
  <2>2. a \div 16 = 224 \div 16 BY <1>9
  <2>3. SamePrefix(ip, <<224, 0, 0, 0>>, 8, 4) BY <1>9, <2>2, <1>20, <2>1, Zenon
  <2>4. Within(224, 0, 0, 0, 4) BY <2>3, Zenon DEF BLOCKED_IPV4
  <2>5. QED BY <1>4, <2>4, Zenon
<1>10. CASE a \div 16 = 15
  <2>1. 0 \in 0 .. 255 /\ 240 \in 0 .. 255 OBVIOUS
  <2>2. a \div 16 = 240 \div 16 BY <1>10
  <2>3. SamePrefix(ip, <<240, 0, 0, 0>>, 8, 4) BY <1>10, <2>2, <1>20, <2>1, Zenon
  <2>4. Within(240, 0, 0, 0, 4) BY <2>3, Zenon DEF BLOCKED_IPV4
  <2>5. QED BY <1>4, <2>4, Zenon
<1>11. CASE a = 100 /\ b \div 64 = 1
  <2>1. 0 \in 0 .. 255 /\ 64 \in 0 .. 255 /\ 100 \in 0 .. 255 OBVIOUS
  <2>2. b \div 64 = 64 \div 64 BY <1>11
  <2>3. SamePrefix(ip, <<100, 64, 0, 0>>, 8, 10) BY <1>11, <2>2, <1>20, <2>1, Zenon
  <2>4. Within(100, 64, 0, 0, 10) BY <2>3, Zenon DEF BLOCKED_IPV4
  <2>5. QED BY <1>4, <2>4, Zenon
<1>12. CASE a = 169 /\ b = 254
  <2>1. 0 \in 0 .. 255 /\ 169 \in 0 .. 255 /\ 254 \in 0 .. 255 OBVIOUS
  <2>2. SamePrefix(ip, <<169, 254, 0, 0>>, 8, 16) BY <1>12, <1>23, <2>1, Zenon
  <2>3. Within(169, 254, 0, 0, 16) BY <2>2, Zenon DEF BLOCKED_IPV4
  <2>4. QED BY <1>4, <2>3, Zenon
<1>13. CASE a = 172 /\ b \div 16 = 1
  <2>1. 0 \in 0 .. 255 /\ 16 \in 0 .. 255 /\ 172 \in 0 .. 255 OBVIOUS
  <2>2. b \div 16 = 16 \div 16 BY <1>13
  <2>3. SamePrefix(ip, <<172, 16, 0, 0>>, 8, 12) BY <1>13, <2>2, <1>20, <2>1, Zenon
  <2>4. Within(172, 16, 0, 0, 12) BY <2>3, Zenon DEF BLOCKED_IPV4
  <2>5. QED BY <1>4, <2>4, Zenon
<1>14. CASE a = 192 /\ b = 168
  <2>1. 0 \in 0 .. 255 /\ 168 \in 0 .. 255 /\ 192 \in 0 .. 255 OBVIOUS
  <2>2. SamePrefix(ip, <<192, 168, 0, 0>>, 8, 16) BY <1>14, <1>23, <2>1, Zenon
  <2>3. Within(192, 168, 0, 0, 16) BY <2>2, Zenon DEF BLOCKED_IPV4
  <2>4. QED BY <1>4, <2>3, Zenon
<1>15. CASE a = 192 /\ b = 0 /\ c = 0
  <2>1. 0 \in 0 .. 255 /\ 192 \in 0 .. 255 OBVIOUS
  <2>2. SamePrefix(ip, <<192, 0, 0, 0>>, 8, 24) BY <1>15, <1>20, <2>1, Zenon
  <2>3. Within(192, 0, 0, 0, 24) BY <2>2, Zenon DEF BLOCKED_IPV4
  <2>4. QED BY <1>4, <2>3, Zenon
<1>16. CASE a = 192 /\ b = 0 /\ c = 2
  <2>1. 0 \in 0 .. 255 /\ 2 \in 0 .. 255 /\ 192 \in 0 .. 255 OBVIOUS
  <2>2. SamePrefix(ip, <<192, 0, 2, 0>>, 8, 24) BY <1>16, <1>20, <2>1, Zenon
  <2>3. Within(192, 0, 2, 0, 24) BY <2>2, Zenon DEF BLOCKED_IPV4
  <2>4. QED BY <1>4, <2>3, Zenon
<1>17. CASE a = 198 /\ b \div 2 = 9
  <2>1. 0 \in 0 .. 255 /\ 18 \in 0 .. 255 /\ 198 \in 0 .. 255 OBVIOUS
  <2>2. b \div 2 = 18 \div 2 BY <1>17
  <2>3. SamePrefix(ip, <<198, 18, 0, 0>>, 8, 15) BY <1>17, <2>2, <1>20, <2>1, Zenon
  <2>4. Within(198, 18, 0, 0, 15) BY <2>3, Zenon DEF BLOCKED_IPV4
  <2>5. QED BY <1>4, <2>4, Zenon
<1>18. CASE a = 198 /\ b = 51 /\ c = 100
  <2>1. 0 \in 0 .. 255 /\ 51 \in 0 .. 255 /\ 100 \in 0 .. 255 /\ 198 \in 0 .. 255 OBVIOUS
  <2>2. SamePrefix(ip, <<198, 51, 100, 0>>, 8, 24) BY <1>18, <1>20, <2>1, Zenon
  <2>3. Within(198, 51, 100, 0, 24) BY <2>2, Zenon DEF BLOCKED_IPV4
  <2>4. QED BY <1>4, <2>3, Zenon
<1>19. CASE a = 203 /\ b = 0 /\ c = 113
  <2>1. 0 \in 0 .. 255 /\ 113 \in 0 .. 255 /\ 203 \in 0 .. 255 OBVIOUS
  <2>2. SamePrefix(ip, <<203, 0, 113, 0>>, 8, 24) BY <1>19, <1>20, <2>1, Zenon
  <2>3. Within(203, 0, 113, 0, 24) BY <2>2, Zenon DEF BLOCKED_IPV4
  <2>4. QED BY <1>4, <2>3, Zenon
<1>22. QED BY <1>5, <1>6, <1>7, <1>8, <1>9, <1>10, <1>11, <1>12, <1>13, <1>14, <1>15, <1>16, <1>17, <1>18, <1>19

\* The numbers of an IPv6 address, and what a mask leaves of them.
LEMMA HextetFacts ==
    /\ 0 \in Hextets /\ 1 \in Hextets /\ 8193 \in Hextets /\ 3512 \in Hextets
    /\ 64512 \in Hextets /\ 65152 \in Hextets /\ 65280 \in Hextets
    /\ \A x \in Hextets : x >= 65280 => x \div 256 = 65280 \div 256
    /\ \A x \in Hextets : x \in 65152 .. 65215 => x \div 64 = 65152 \div 64
    /\ \A x \in Hextets : x \in 64512 .. 65023 => x \div 512 = 64512 \div 512
  BY SMT DEF Hextets

\* A zero prefix leaves nothing to compare.
LEMMA NothingLeft == \A x \in Hextets : x \div PowerOfTwo(16) = 0
<1>1. PowerOfTwo(16) = 65536 BY SMT DEF PowerOfTwo
<1>2. \A x \in Hextets : x \div 65536 = 0 BY SMT DEF Hextets
<1>3. QED BY <1>1, <1>2, SMT

\* The bytes of a number of an IPv6 address, and the numbers below two.
LEMMA HextetBytes ==
    \A x \in Hextets : /\ x \div 256 \in 0 .. 255 /\ x % 256 \in 0 .. 255
                       /\ x <= 1 => x = 0 \/ x = 1
  BY SMT DEF Hextets

\* How the masks of the IPv6 blocks compare.
LEMMA Masks6 ==
    ASSUME NEW ip \in [1 .. 8 -> Hextets], NEW a \in Hextets, NEW b \in Hextets, NEW h \in Hextets
    PROVE  /\ ip[1] \div 512 = a \div 512 => SamePrefix(ip, <<a, b, 0, 0, 0, 0, 0, h>>, 16, 7)
           /\ ip[1] \div 256 = a \div 256 => SamePrefix(ip, <<a, b, 0, 0, 0, 0, 0, h>>, 16, 8)
           /\ ip[1] \div 64 = a \div 64 => SamePrefix(ip, <<a, b, 0, 0, 0, 0, 0, h>>, 16, 10)
           /\ ip[1] = a /\ ip[2] = b => SamePrefix(ip, <<a, b, 0, 0, 0, 0, 0, h>>, 16, 32)
           /\ ip = <<a, b, 0, 0, 0, 0, 0, h>> => SamePrefix(ip, <<a, b, 0, 0, 0, 0, 0, h>>, 16, 128)
<1> DEFINE net == <<a, b, 0, 0, 0, 0, 0, h>>
           kept(p, k) == p - 16 * (k - 1)
           unit(p, k) == PowerOfTwo(IF kept(p, k) <= 0 THEN 16 ELSE IF kept(p, k) >= 16 THEN 0 ELSE 16 - kept(p, k))
<1>1. PowerOfTwo(6) = 64 /\ PowerOfTwo(8) = 256 /\ PowerOfTwo(9) = 512 BY SMT DEF PowerOfTwo
<1>2. \A k \in 1 .. 8 : ip[k] \in Hextets /\ net[k] \in Hextets
  <2>1. \A k \in 1 .. 8 : k = 1 \/ k = 2 \/ k = 3 \/ k = 4 \/ k = 5 \/ k = 6 \/ k = 7 \/ k = 8 OBVIOUS
  <2>2. 0 \in Hextets BY HextetFacts, SMT
  <2>3. QED BY <2>1, <2>2
<1>3. DOMAIN net = 1 .. 8 /\ net[1] = a /\ net[2] = b OBVIOUS
<1> HIDE DEF net
<1>5. \A k \in 1 .. 8 : ip[k] \div PowerOfTwo(16) = net[k] \div PowerOfTwo(16) BY <1>2, NothingLeft, Zenon
<1>6. ASSUME NEW p, \A k \in 2 .. 8 : unit(p, k) = PowerOfTwo(16),
             ip[1] \div unit(p, 1) = a \div unit(p, 1)
      PROVE  SamePrefix(ip, net, 16, p)
  <2> HIDE DEF unit
  <2>1. ASSUME NEW k \in 1 .. 8 PROVE ip[k] \div unit(p, k) = net[k] \div unit(p, k)
    <3>1. CASE k = 1 BY <1>3, <1>6, <3>1, Zenon
    <3>2. CASE k # 1
      <4>1. k \in 2 .. 8 BY <3>2
      <4>2. unit(p, k) = PowerOfTwo(16) BY <1>6, <4>1, Zenon
      <4>3. QED BY <1>5, <4>2, Zenon
    <3>3. QED BY <3>1, <3>2
  <2>2. QED BY <1>3, <2>1, Zenon DEF SamePrefix, unit, kept
<1>7. ASSUME ip[1] \div 512 = a \div 512 PROVE SamePrefix(ip, net, 16, 7)
  <2>1. unit(7, 1) = PowerOfTwo(9) /\ \A k \in 2 .. 8 : unit(7, k) = PowerOfTwo(16) OBVIOUS
  <2> HIDE DEF unit
  <2>2. ip[1] \div unit(7, 1) = a \div unit(7, 1) BY <1>1, <1>7, <2>1
  <2>3. QED BY <1>6, <2>1, <2>2, Zenon
<1>8. ASSUME ip[1] \div 256 = a \div 256 PROVE SamePrefix(ip, net, 16, 8)
  <2>1. unit(8, 1) = PowerOfTwo(8) /\ \A k \in 2 .. 8 : unit(8, k) = PowerOfTwo(16) OBVIOUS
  <2> HIDE DEF unit
  <2>2. ip[1] \div unit(8, 1) = a \div unit(8, 1) BY <1>1, <1>8, <2>1
  <2>3. QED BY <1>6, <2>1, <2>2, Zenon
<1>9. ASSUME ip[1] \div 64 = a \div 64 PROVE SamePrefix(ip, net, 16, 10)
  <2>1. unit(10, 1) = PowerOfTwo(6) /\ \A k \in 2 .. 8 : unit(10, k) = PowerOfTwo(16) OBVIOUS
  <2> HIDE DEF unit
  <2>2. ip[1] \div unit(10, 1) = a \div unit(10, 1) BY <1>1, <1>9, <2>1
  <2>3. QED BY <1>6, <2>1, <2>2, Zenon
<1>10. ASSUME ip[1] = a, ip[2] = b PROVE SamePrefix(ip, net, 16, 32)
  <2>1. \A k \in 3 .. 8 : unit(32, k) = PowerOfTwo(16) OBVIOUS
  <2> HIDE DEF unit
  <2>2. ASSUME NEW k \in 1 .. 8 PROVE ip[k] \div unit(32, k) = net[k] \div unit(32, k)
    <3>1. CASE k = 1 BY <1>3, <1>10, <3>1, Zenon
    <3>2. CASE k = 2 BY <1>3, <1>10, <3>2, Zenon
    <3>3. CASE k # 1 /\ k # 2
      <4>1. k \in 3 .. 8 BY <3>3
      <4>2. unit(32, k) = PowerOfTwo(16) BY <2>1, <4>1, Zenon
      <4>3. QED BY <1>5, <4>2, Zenon
    <3>4. QED BY <3>1, <3>2, <3>3
  <2>3. QED BY <1>3, <2>2, Zenon DEF SamePrefix, unit, kept
<1>11. ip = net => SamePrefix(ip, net, 16, 128) BY Zenon DEF SamePrefix
<1>12. QED BY <1>7, <1>8, <1>9, <1>10, <1>11, Zenon DEF net

\* An address that is not public is refused: whatever is private is blocked.
LEMMA PrivateIsBlocked6 ==
    ASSUME NEW ip \in [1 .. 8 -> Hextets], Private(ip)
    PROVE  IsBlockedIpv6(ip)
<1> DEFINE Within(a, b, h, p) ==
               /\ Range6(a, b, h, p) \in BLOCKED_IPV6
               /\ SamePrefix(ip, <<a, b, 0, 0, 0, 0, 0, h>>, 16, p)
           Mapped == SubSeq(ip, 1, 6) = <<0, 0, 0, 0, 0, 65535>>
           Zeros == SubSeq(ip, 1, 7) = <<0, 0, 0, 0, 0, 0, 0>> /\ ip[8] <= 1
           Blocked == IsBlockedIpv6(ip)
<1>1. Len(ip) = 8 OBVIOUS
<1>2. \A k \in 1 .. 8 : ip[k] \in Hextets OBVIOUS
<1>3. \A r \in BLOCKED_IPV6 : SamePrefix(ip, r.net, 16, r.prefix) => Blocked
  BY <1>1, SMT DEF IsBlockedIpv6
<1>4. ASSUME NEW a, NEW b, NEW h, NEW p, Within(a, b, h, p) PROVE Blocked
  <2>1. Range6(a, b, h, p).net = <<a, b, 0, 0, 0, 0, 0, h>> /\ Range6(a, b, h, p).prefix = p
    BY DEF Range6
  <2>2. QED BY <1>3, <1>4, <2>1, Zenon
<1>5. ASSUME NEW a \in Hextets, NEW b \in Hextets, NEW h \in Hextets
      PROVE  /\ ip[1] \div 512 = a \div 512 => SamePrefix(ip, <<a, b, 0, 0, 0, 0, 0, h>>, 16, 7)
             /\ ip[1] \div 256 = a \div 256 => SamePrefix(ip, <<a, b, 0, 0, 0, 0, 0, h>>, 16, 8)
             /\ ip[1] \div 64 = a \div 64 => SamePrefix(ip, <<a, b, 0, 0, 0, 0, 0, h>>, 16, 10)
             /\ ip[1] = a /\ ip[2] = b => SamePrefix(ip, <<a, b, 0, 0, 0, 0, 0, h>>, 16, 32)
             /\ ip = <<a, b, 0, 0, 0, 0, 0, h>> => SamePrefix(ip, <<a, b, 0, 0, 0, 0, 0, h>>, 16, 128)
  BY Masks6
<1>6. /\ Range6(64512, 0, 0, 7) \in BLOCKED_IPV6 /\ Range6(65152, 0, 0, 10) \in BLOCKED_IPV6
      /\ Range6(65280, 0, 0, 8) \in BLOCKED_IPV6 /\ Range6(8193, 3512, 0, 32) \in BLOCKED_IPV6
      /\ Range6(0, 0, 0, 128) \in BLOCKED_IPV6 /\ Range6(0, 0, 1, 128) \in BLOCKED_IPV6
  BY SMT DEF BLOCKED_IPV6
<1>7. 0 \in Hextets /\ 1 \in Hextets BY HextetFacts, SMT
<1>15. SUFFICES Blocked OBVIOUS
<1> HIDE DEF Mapped, Zeros, Blocked, Within
<1>8. CASE ip[1] \in 64512 .. 65023
  <2> DEFINE w == 64512
  <2>1. w \in Hextets /\ ip[1] \div 512 = w \div 512 /\ Range6(w, 0, 0, 7) \in BLOCKED_IPV6
    <3>1. ip[1] \in Hextets BY <1>2
    <3>2. QED BY <1>6, <1>8, <3>1, HextetFacts, SMT
  <2> HIDE DEF w
  <2>2. SamePrefix(ip, <<w, 0, 0, 0, 0, 0, 0, 0>>, 16, 7) BY <1>5, <1>7, <2>1, Zenon
  <2>3. Within(w, 0, 0, 7) BY <2>1, <2>2, Zenon DEF Within
  <2>4. QED BY <1>4, <2>3, Zenon
<1>9. CASE ip[1] \in 65152 .. 65215
  <2> DEFINE w == 65152
  <2>1. w \in Hextets /\ ip[1] \div 64 = w \div 64 /\ Range6(w, 0, 0, 10) \in BLOCKED_IPV6
    <3>1. ip[1] \in Hextets BY <1>2
    <3>2. QED BY <1>6, <1>9, <3>1, HextetFacts, SMT
  <2> HIDE DEF w
  <2>2. SamePrefix(ip, <<w, 0, 0, 0, 0, 0, 0, 0>>, 16, 10) BY <1>5, <1>7, <2>1, Zenon
  <2>3. Within(w, 0, 0, 10) BY <2>1, <2>2, Zenon DEF Within
  <2>4. QED BY <1>4, <2>3, Zenon
<1>10. CASE ip[1] >= 65280
  <2> DEFINE w == 65280
  <2>1. w \in Hextets /\ ip[1] \div 256 = w \div 256 /\ Range6(w, 0, 0, 8) \in BLOCKED_IPV6
    <3>1. ip[1] \in Hextets BY <1>2
    <3>2. QED BY <1>6, <1>10, <3>1, HextetFacts, SMT
  <2> HIDE DEF w
  <2>2. SamePrefix(ip, <<w, 0, 0, 0, 0, 0, 0, 0>>, 16, 8) BY <1>5, <1>7, <2>1, Zenon
  <2>3. Within(w, 0, 0, 8) BY <2>1, <2>2, Zenon DEF Within
  <2>4. QED BY <1>4, <2>3, Zenon
<1>11. CASE ip[1] = 8193 /\ ip[2] = 3512
  <2> DEFINE w == 8193
             x == 3512
  <2>1. w \in Hextets /\ x \in Hextets BY HextetFacts, SMT
  <2>2. ip[1] = w /\ ip[2] = x /\ Range6(w, x, 0, 32) \in BLOCKED_IPV6 BY <1>6, <1>11, SMT
  <2> HIDE DEF w, x
  <2>3. SamePrefix(ip, <<w, x, 0, 0, 0, 0, 0, 0>>, 16, 32) BY <1>5, <1>7, <2>1, <2>2, Zenon
  <2>4. Within(w, x, 0, 32) BY <2>2, <2>3, Zenon DEF Within
  <2>5. QED BY <1>4, <2>4, Zenon
<1>12. CASE Zeros
  <2>1. \A k \in 1 .. 7 : ip[k] = 0
    <3>1. ASSUME NEW k \in 1 .. 7 PROVE ip[k] = 0
      <4>1. SubSeq(ip, 1, 7)[k] = ip[k] OBVIOUS
      <4>2. <<0, 0, 0, 0, 0, 0, 0>>[k] = 0
        <5>1. k = 1 \/ k = 2 \/ k = 3 \/ k = 4 \/ k = 5 \/ k = 6 \/ k = 7 OBVIOUS
        <5>2. QED BY <5>1
      <4>3. QED BY <1>12, <4>1, <4>2 DEF Zeros
    <3>2. QED BY <3>1
  <2>2. ip[8] = 0 \/ ip[8] = 1
    <3>1. ip[8] \in Hextets BY <1>2
    <3>2. QED BY <1>12, <3>1, HextetBytes, SMT DEF Zeros
  <2>3. ASSUME NEW h, ip[8] = h PROVE ip = <<0, 0, 0, 0, 0, 0, 0, h>>
    <3> DEFINE t == <<0, 0, 0, 0, 0, 0, 0, h>>
    <3>1. t = [k \in 1 .. 8 |-> t[k]] OBVIOUS
    <3>2. ip = [k \in 1 .. 8 |-> ip[k]] OBVIOUS
    <3>3. ASSUME NEW k \in 1 .. 8 PROVE ip[k] = t[k]
      <4>1. k = 8 \/ k \in 1 .. 7 OBVIOUS
      <4>2. k = 1 \/ k = 2 \/ k = 3 \/ k = 4 \/ k = 5 \/ k = 6 \/ k = 7 \/ k = 8 OBVIOUS
      <4>3. QED BY <2>1, <2>3, <4>1, <4>2
    <3> HIDE DEF t
    <3>4. QED BY <3>1, <3>2, <3>3, Zenon DEF t
  <2>4. CASE ip[8] = 0
    <3>1. SamePrefix(ip, <<0, 0, 0, 0, 0, 0, 0, 0>>, 16, 128)
      <4>1. ip = <<0, 0, 0, 0, 0, 0, 0, 0>> BY <2>3, <2>4, Zenon
      <4>2. QED BY <1>5, <1>7, <4>1, Zenon
    <3>2. Range6(0, 0, 0, 128) \in BLOCKED_IPV6 BY <1>6, SMT
    <3>3. Within(0, 0, 0, 128) BY <3>1, <3>2, Zenon DEF Within
    <3>4. QED BY <1>4, <3>3, Zenon
  <2>5. CASE ip[8] = 1
    <3>1. SamePrefix(ip, <<0, 0, 0, 0, 0, 0, 0, 1>>, 16, 128)
      <4>1. ip = <<0, 0, 0, 0, 0, 0, 0, 1>> BY <2>3, <2>5, Zenon
      <4>2. QED BY <1>5, <1>7, <4>1, Zenon
    <3>2. Range6(0, 0, 1, 128) \in BLOCKED_IPV6 BY <1>6, SMT
    <3>3. Within(0, 0, 1, 128) BY <3>1, <3>2, Zenon DEF Within
    <3>4. QED BY <1>4, <3>3, Zenon
  <2>6. QED BY <2>2, <2>4, <2>5
<1>13. CASE Mapped /\ Private4(ip[7] \div 256, ip[7] % 256, ip[8] \div 256)
  <2>1. /\ ip[7] \div 256 \in 0 .. 255 /\ ip[7] % 256 \in 0 .. 255
        /\ ip[8] \div 256 \in 0 .. 255 /\ ip[8] % 256 \in 0 .. 255
    <3>1. ip[7] \in Hextets /\ ip[8] \in Hextets BY <1>2
    <3>2. QED BY <3>1, HextetBytes, Zenon
  <2>2. Embedded(ip) \in [1 .. 4 -> 0 .. 255]
    <3> DEFINE S == 0 .. 255
               half == 256
    <3>1. /\ ip[7] \div half \in S /\ ip[7] % half \in S /\ ip[8] \div half \in S /\ ip[8] % half \in S
      BY <2>1
    <3>2. Embedded(ip) = <<ip[7] \div half, ip[7] % half, ip[8] \div half, ip[8] % half>> BY SMT DEF Embedded
    <3> HIDE DEF S, half
    <3>3. \A p, q, r, t \in S : <<p, q, r, t>> \in [1 .. 4 -> S]
      <4>1. \A k \in 1 .. 4 : k = 1 \/ k = 2 \/ k = 3 \/ k = 4 OBVIOUS
      <4>2. QED BY <4>1
    <3>4. <<ip[7] \div half, ip[7] % half, ip[8] \div half, ip[8] % half>> \in [1 .. 4 -> S]
      BY <3>1, <3>3
    <3>6. Embedded(ip) \in [1 .. 4 -> S] BY <3>2, <3>4, Zenon
    <3>7. QED BY <3>6 DEF S
  <2>3. /\ Embedded(ip)[1] = ip[7] \div 256 /\ Embedded(ip)[2] = ip[7] % 256
        /\ Embedded(ip)[3] = ip[8] \div 256
    BY Zenon DEF Embedded
  <2>4. Private4(Embedded(ip)[1], Embedded(ip)[2], Embedded(ip)[3]) BY <1>13, <2>3, Zenon
  <2>5. IsBlockedIpv4(Embedded(ip)) BY <2>2, <2>4, PrivateIsBlocked4
  <2>6. QED BY <1>1, <1>13, <2>5, SMT DEF Mapped, Blocked, IsBlockedIpv6
<1>14. QED
  <2>1. \/ ip[1] \in 64512 .. 65023 \/ ip[1] \in 65152 .. 65215 \/ ip[1] >= 65280
        \/ (ip[1] = 8193 /\ ip[2] = 3512) \/ Zeros
        \/ (Mapped /\ Private4(ip[7] \div 256, ip[7] % 256, ip[8] \div 256))
    BY <1>1, SMT DEF Private, Zeros, Mapped
  <2>2. QED BY <1>8, <1>9, <1>10, <1>11, <1>12, <1>13, <2>1, SMT DEF Blocked

\* What the guard lets through is outside every private, internal and reserved range.
LEMMA PrivateIsBlocked ==
    ASSUME NEW ip \in Address, Private(ip)
    PROVE  IsBlockedIp(ip)
<1>1. CASE ip \in [1 .. 4 -> 0 .. 255]
  <2>1. Len(ip) = 4 BY <1>1
  <2>2. Private4(ip[1], ip[2], ip[3]) BY <2>1, SMT DEF Private
  <2>3. QED BY <1>1, <2>2, PrivateIsBlocked4 DEF IsBlockedIp
<1>2. CASE ip \in [1 .. 8 -> Hextets] BY <1>2, PrivateIsBlocked6, Zenon DEF IsBlockedIp
<1>3. QED BY <1>1, <1>2 DEF Address, Octets

\* No call is no record of a call.
LEMMA NoCallIsNone == NoCall \notin WebCall
<1>1. \A call \in WebCall : call.at # "idle" BY DEF WebCall, WebPlaces, Hopping
<1>2. NoCall.at = "idle" BY DEF NoCall
<1>3. QED BY <1>1, <1>2, Zenon

\* A call that starts, or ends, is a call with nothing reached yet.
LEMMA NewCallIs ==
    ASSUME clock \in Nat, NEW request \in WebRequests, NEW place \in WebPlaces, NEW result \in WebResults
    PROVE  LET call == NewCall(request, place, result)
           IN  /\ call \in WebCall /\ call.at = place /\ call.request = request /\ call.url = request.url
               /\ call.method = request.method /\ call.body = request.body
               /\ call.pinned = <<>> /\ call.reached = <<>> /\ call.approved = FALSE
               /\ call.told = <<>> /\ call.result = result /\ call.ended = clock
<1>1. request.url \in WebUrls BY WebAssumption
<1>2. /\ request.method \in {r.method : r \in WebRequests} \cup {"GET", "POST"}
      /\ request.body \in {r.body : r \in WebRequests} \cup {"none", "text"}
  OBVIOUS
<1>3. <<>> \in Address \cup {<<>>} /\ <<>> \in Seq(LinkOutcomes) /\ 0 \in Nat /\ FALSE \in BOOLEAN OBVIOUS
<1>4. NewCall(request, place, result) \in WebCall
  <2> DEFINE S == WebPlaces
             M == {r.method : r \in WebRequests} \cup {"GET", "POST"}
             B == {r.body : r \in WebRequests} \cup {"none", "text"}
             A == Address \cup {<<>>}
  <2>1. place \in S /\ request.method \in M /\ request.body \in B /\ <<>> \in A BY <1>2
  <2>2. WebCall = [at : S, request : WebRequests, url : WebUrls, method : M, body : B, hop : Nat, pinned : A,
                   reached : A, approved : BOOLEAN, told : Seq(LinkOutcomes), result : WebResults, ended : Nat]
    BY DEF WebCall
  <2> HIDE DEF S, M, B, A
  <2>3. QED BY <1>1, <1>3, <2>1, <2>2 DEF NewCall
<1>5. QED BY <1>4 DEF NewCall

\* A call that ends keeps what it was told.
LEMMA EndedIs ==
    ASSUME clock \in Nat, NEW request \in WebRequests, NEW told \in Seq(LinkOutcomes), NEW result \in WebResults
    PROVE  LET call == Ended(request, told, result)
           IN  /\ call \in WebCall /\ call.at = "ended" /\ call.request = request /\ call.reached = <<>>
               /\ call.told = told /\ call.result = result /\ call.ended = clock
<1> DEFINE new == NewCall(request, "ended", result)
<1>1. new \in WebCall /\ new.at = "ended" /\ new.request = request /\ new.reached = <<>>
      /\ new.result = result /\ new.ended = clock
  <2> DEFINE end == "ended"
  <2>1. end \in WebPlaces BY DEF WebPlaces
  <2>2. new = NewCall(request, end, result) OBVIOUS
  <2> HIDE DEF new, end
  <2>3. /\ new \in WebCall /\ new.at = end /\ new.request = request /\ new.reached = <<>>
        /\ new.result = result /\ new.ended = clock
    BY <2>1, <2>2, NewCallIs
  <2>4. QED BY <2>3 DEF end
<1> HIDE DEF new
<1>2. [new EXCEPT !.told = told] \in WebCall BY <1>1 DEF WebCall
<1>3. Ended(request, told, result) = [new EXCEPT !.told = told] BY DEF Ended, new
<1>4. "told" \in DOMAIN new BY <1>1 DEF WebCall
<1>5. QED BY <1>1, <1>2, <1>3, <1>4 DEF WebCall

\* The configuration stays, and with it what it allows.
LEMMA ConfigKept ==
    ASSUME webConfig' = webConfig
    PROVE  /\ \A url : HostAllowed(url)' = HostAllowed(url)
           /\ \A method : NeedsApproval(method)' = NeedsApproval(method)
           /\ \A name : Usable(name)' = Usable(name)
<1>1. \A url : HostAllowed(url)' = HostAllowed(url) BY Zenon DEF HostAllowed
<1>2. \A method : NeedsApproval(method)' = NeedsApproval(method) BY Zenon DEF NeedsApproval
<1>3. \A name : Usable(name)' = Usable(name) BY Zenon DEF Usable
<1>4. QED BY <1>1, <1>2, <1>3

\* A step that gives one call its next record.
LEMMA GuardedMoves ==
    ASSUME GuardedInv, NEW c \in WebCalls, NEW call \in WebCall, Becomes(c, call), Guarded(call),
           UNCHANGED <<webConfig, dns, clock>>
    PROVE  GuardedInv'
<1>1. webCalls' \in [WebCalls -> WebCall \cup {NoCall}]
  <2>1. webCalls \in [WebCalls -> WebCall \cup {NoCall}] BY DEF GuardedInv, WebTypeOK
  <2>2. QED BY <2>1 DEF Becomes
<1>2. WebTypeOK' BY <1>1 DEF GuardedInv, WebTypeOK
<1>3. ASSUME NEW d \in WebCalls PROVE Guarded(webCalls[d])'
  <2>1. webCalls'[d] = IF d = c THEN call ELSE webCalls[d]
    BY DEF Becomes, GuardedInv, WebTypeOK
  <2>2. Guarded(webCalls'[d]) BY <2>1, Zenon DEF GuardedInv
  <2>3. webConfig' = webConfig OBVIOUS
  <2> DEFINE new == webCalls'[d]
  <2>4. QED BY <2>2, <2>3, ConfigKept, Zenon DEF Guarded, HttpArgs, ParsesAsHttp
<1>4. QED BY <1>2, <1>3 DEF GuardedInv

\* A call under way has a record.
LEMMA UnderWay ==
    ASSUME GuardedInv, NEW c \in WebCalls, webCalls[c].at # "idle"
    PROVE  webCalls[c] \in WebCall /\ Guarded(webCalls[c]) /\ webCalls[c] # NoCall
<1>1. NoCall.at = "idle" BY DEF NoCall
<1>2. webCalls[c] \in WebCall \cup {NoCall} BY DEF GuardedInv, WebTypeOK
<1>3. webCalls[c] # NoCall BY <1>1, Zenon
<1>4. QED BY <1>2, <1>3 DEF GuardedInv

\* A call that ends has nothing left to guard.
LEMMA EndingStep ==
    ASSUME GuardedInv, NEW c \in WebCalls, NEW request \in WebRequests, NEW told \in Seq(LinkOutcomes),
           NEW result \in WebResults, Becomes(c, Ended(request, told, result)),
           UNCHANGED <<webConfig, dns, clock>>
    PROVE  GuardedInv'
<1> DEFINE call == Ended(request, told, result)
<1>1. clock \in Nat BY DEF GuardedInv, WebTypeOK
<1>2. call \in WebCall /\ call.at = "ended" /\ call.reached = <<>> BY <1>1, EndedIs
<1> HIDE DEF call
<1>3. Guarded(call) BY <1>2 DEF Guarded
<1>4. Becomes(c, call) BY DEF call
<1>5. QED BY <1>2, <1>3, <1>4, GuardedMoves

\* So does EndsAs.
LEMMA EndsAsStep ==
    ASSUME GuardedInv, NEW c \in WebCalls, webCalls[c].at # "idle", NEW result \in WebResults,
           EndsAs(c, result), UNCHANGED <<webConfig, dns, clock>>
    PROVE  GuardedInv'
<1>1. webCalls[c] \in WebCall BY UnderWay
<1>2. webCalls[c].request \in WebRequests /\ webCalls[c].told \in Seq(LinkOutcomes) BY <1>1 DEF WebCall
<1>3. Becomes(c, Ended(webCalls[c].request, webCalls[c].told, result)) BY Zenon DEF EndsAs
<1>4. QED BY <1>2, <1>3, EndingStep

\* A search that goes on with its chain.
LEMMA TellsStep ==
    ASSUME GuardedInv, NEW c \in WebCalls, webCalls[c].at # "idle", webCalls[c].at # "ended",
           webCalls[c].request.tool = "search", NEW outcome \in LinkOutcomes, Tells(c, outcome),
           UNCHANGED <<webConfig, dns, clock>>
    PROVE  GuardedInv'
<1> DEFINE old == webCalls[c]
           call == [old EXCEPT !.at = "link", !.told = Append(@, outcome)]
<1>1. old \in WebCall /\ Guarded(old) /\ old # NoCall BY UnderWay
<1>2. Becomes(c, call) BY Zenon DEF Tells
<1>3. old.request.tool = "search" OBVIOUS
<1> HIDE DEF old
<1>4. /\ call \in WebCall /\ call.at = "link" /\ call.request = old.request /\ call.reached = old.reached
      /\ call.pinned = old.pinned /\ call.told = Append(old.told, outcome) /\ call.result = old.result
      /\ call.ended = old.ended
  <2> DEFINE told == Append(old.told, outcome)
  <2>1. told \in Seq(LinkOutcomes) BY <1>1 DEF WebCall
  <2>2. call = [old EXCEPT !.at = "link", !.told = told] OBVIOUS
  <2> HIDE DEF told, call
  <2>3. "link" \in WebPlaces BY DEF WebPlaces
  <2>4. call \in WebCall BY <1>1, <2>1, <2>2, <2>3 DEF WebCall
  <2>5. /\ call.at = "link" /\ call.request = old.request /\ call.reached = old.reached
        /\ call.pinned = old.pinned /\ call.told = told /\ call.result = old.result
        /\ call.ended = old.ended
    BY <1>1, <2>2 DEF WebCall
  <2>6. QED BY <2>4, <2>5 DEF told
<1>5. old.reached # <<>> => ~IsBlockedIp(old.reached) BY <1>1 DEF Guarded
<1> HIDE DEF call
<1>6. Guarded(call) BY <1>3, <1>4, <1>5 DEF Guarded
<1>7. QED BY <1>2, <1>4, <1>6, GuardedMoves

\* A failure in the loop over the hops.
LEMMA FailsStep ==
    ASSUME GuardedInv, NEW c \in WebCalls, webCalls[c].at # "idle", webCalls[c].at # "ended",
           NEW how \in {"error", "thrown"}, Fails(c, how), UNCHANGED <<webConfig, dns, clock>>
    PROVE  GuardedInv'
<1>1. webCalls[c] \in WebCall BY UnderWay
<1>2. webCalls[c].request \in WebRequests BY <1>1 DEF WebCall
<1>3. webCalls[c].request.tool \in {"request", "fetch", "search"} BY <1>2, WebAssumption
<1>4. how \in WebResults /\ "error" \in WebResults /\ "failed" \in LinkOutcomes BY DEF WebResults, LinkOutcomes
<1>5. CASE webCalls[c].request.tool = "request"
  <2>1. EndsAs(c, how) BY <1>5 DEF Fails
  <2>2. QED BY <1>4, <2>1, EndsAsStep
<1>6. CASE webCalls[c].request.tool = "fetch"
  <2>1. EndsAs(c, "error") BY <1>6 DEF Fails
  <2>2. QED BY <1>4, <2>1, EndsAsStep
<1>7. CASE webCalls[c].request.tool = "search"
  <2>1. Tells(c, "failed") BY <1>7 DEF Fails, Tells
  <2>2. QED BY <1>4, <1>7, <2>1, TellsStep
<1>8. QED BY <1>3, <1>5, <1>6, <1>7

\* The call begins, or is refused.
LEMMA RequestStep ==
    ASSUME GuardedInv, NEW c \in WebCalls, NEW request \in WebRequests, CallRequest(c, request)
    PROVE  GuardedInv'
<1>1. UNCHANGED <<webConfig, dns, clock>> BY DEF CallRequest, OnlyCalls
<1>2. clock \in Nat BY DEF GuardedInv, WebTypeOK
<1>3. request.tool = "request" BY DEF CallRequest
<1> DEFINE refused == ~webConfig.http \/ ~HttpArgs(request) \/ ~HostAllowed(request.url)
           place == IF NeedsApproval(request.method) THEN "asking" ELSE "resolve"
           none == "none"
<1>4. CASE refused
  <2> DEFINE end == "ended"
             thrown == "thrown"
             call == NewCall(request, end, thrown)
  <2>1. Becomes(c, call) BY <1>4, Zenon DEF CallRequest
  <2>2. end \in WebPlaces /\ thrown \in WebResults BY DEF WebResults, WebPlaces
  <2>3. call = NewCall(request, end, thrown) OBVIOUS
  <2> HIDE DEF end, thrown, call
  <2>4. call \in WebCall /\ call.at = end /\ call.reached = <<>> BY <1>2, <2>2, <2>3, NewCallIs
  <2>5. call \in WebCall /\ call.at = "ended" /\ call.reached = <<>> BY <2>4 DEF end
  <2>6. Guarded(call) BY <2>5 DEF Guarded
  <2>7. QED BY <1>1, <2>1, <2>5, <2>6, GuardedMoves
<1>5. CASE ~refused
  <2> DEFINE call == NewCall(request, place, none)
  <2>1. Becomes(c, call) BY <1>5, Zenon DEF CallRequest
  <2>2. place \in WebPlaces /\ none \in WebResults BY DEF WebResults, WebPlaces, Hopping
  <2>3. place \in {"asking", "resolve"} /\ (place # "asking" => ~NeedsApproval(request.method)) OBVIOUS
  <2>4. call = NewCall(request, place, none) OBVIOUS
  <2> HIDE DEF place, none, call
  <2>5. /\ call \in WebCall /\ call.at = place /\ call.reached = <<>> /\ call.request = request
        /\ call.method = request.method /\ call.body = request.body
    BY <1>2, <2>2, <2>4, NewCallIs
  <2>6. HostAllowed(request.url) /\ HttpArgs(request) BY <1>5
  <2> HIDE DEF call
  <2>7. Guarded(call) BY <1>3, <2>3, <2>5, <2>6 DEF Guarded
  <2>8. QED BY <1>1, <2>1, <2>5, <2>7, GuardedMoves
<1>6. QED BY <1>4, <1>5

\* A call of the other two tools begins.
LEMMA BeginsOther ==
    ASSUME GuardedInv, NEW c \in WebCalls, NEW request \in WebRequests, request.tool # "request",
           NEW place \in {"link", "ended"} \cup Hopping, place = "link" => request.tool = "search",
           place = "link" \/ place = "ended" \/ place = "resolve", NEW result \in WebResults,
           Becomes(c, NewCall(request, place, result)), UNCHANGED <<webConfig, dns, clock>>
    PROVE  GuardedInv'
<1> DEFINE call == NewCall(request, place, result)
<1>1. clock \in Nat BY DEF GuardedInv, WebTypeOK
<1>2. place \in WebPlaces BY DEF WebPlaces
<1>3. call \in WebCall /\ call.at = place /\ call.reached = <<>> /\ call.request = request
  BY <1>1, <1>2, NewCallIs
<1>4. Becomes(c, call) OBVIOUS
<1> HIDE DEF call
<1>5. Guarded(call) BY <1>3 DEF Guarded
<1>6. QED BY <1>3, <1>4, <1>5, GuardedMoves

\* The owner's answer.
LEMMA OwnerAnswersStep ==
    ASSUME GuardedInv, NEW c \in WebCalls, NEW yes \in BOOLEAN, OwnerAnswers(c, yes)
    PROVE  GuardedInv'
<1>1. UNCHANGED <<webConfig, dns, clock>> BY DEF OwnerAnswers, OnlyCalls
<1> DEFINE old == webCalls[c]
           call == [old EXCEPT !.at = "resolve", !.approved = TRUE]
<1>2. webCalls[c].at = "asking" BY DEF OwnerAnswers, Is
<1>3. old \in WebCall /\ Guarded(old) /\ old # NoCall BY <1>2, UnderWay
<1>4. CASE yes
  <2>1. Becomes(c, call) BY <1>4 DEF OwnerAnswers
  <2>2. old.at = "asking" BY <1>2
  <2> HIDE DEF old
  <2>3. call \in WebCall BY <1>3 DEF WebCall, WebPlaces, Hopping
  <2>4. /\ call.at = "resolve" /\ call.approved = TRUE /\ call.request = old.request /\ call.method = old.method
        /\ call.body = old.body /\ call.reached = old.reached
    BY <1>3 DEF WebCall
  <2> HIDE DEF call
  <2>5. Guarded(call) BY <1>3, <2>2, <2>4 DEF Guarded
  <2>6. QED BY <1>1, <2>1, <2>3, <2>5, GuardedMoves
<1>5. CASE ~yes
  <2>1. EndsAs(c, "thrown") BY <1>5 DEF OwnerAnswers
  <2>2. "thrown" \in WebResults BY DEF WebResults
  <2>3. QED BY <1>1, <1>2, <2>1, <2>2, EndsAsStep
<1>6. QED BY <1>4, <1>5

\* What a host resolves to are addresses, and those of an allowed host are not blocked.
LEMMA PinIsChecked ==
    ASSUME dns \in [HostNames -> DnsAnswers], NEW url \in WebUrls, HostIsAllowed(url)
    PROVE  Head(Lookup(url)) \in Address /\ ~IsBlockedIp(Head(Lookup(url)))
<1>1. Lookup(url) \in Seq(Address)
  <2>1. CASE url.ip # <<>>
    <3>1. url.ip \in Address BY <2>1 DEF WebUrls
    <3>2. QED BY <2>1, <3>1 DEF Lookup
  <2>2. CASE url.ip = <<>>
    <3>1. url.name \in HostNames BY <2>2 DEF WebUrls
    <3>2. dns[url.name] \in Seq(Address) BY <3>1, WebAssumption
    <3>3. QED BY <2>2, <3>2, Zenon DEF Lookup
  <2>3. QED BY <2>1, <2>2
<1>2. Lookup(url) # <<>> /\ \A i \in DOMAIN Lookup(url) : ~IsBlockedIp(Lookup(url)[i])
  BY Zenon DEF HostIsAllowed
<1> DEFINE found == Lookup(url)
<1>3. found \in Seq(Address) /\ found # <<>> /\ \A i \in DOMAIN found : ~IsBlockedIp(found[i]) BY <1>1, <1>2
<1> HIDE DEF found
<1>4. 1 \in DOMAIN found /\ Head(found) = found[1] /\ found[1] \in Address BY <1>3
<1>5. Head(found) \in Address /\ ~IsBlockedIp(Head(found)) BY <1>3, <1>4, Zenon
<1>6. QED BY <1>5 DEF found

\* An address has numbers.
LEMMA NoAddressIsEmpty == \A ip \in Address : ip # <<>>
<1>1. \A S : \A ip \in [1 .. 4 -> S] \cup [1 .. 8 -> S] : ip # <<>> OBVIOUS
<1>2. QED BY <1>1 DEF Address

\* The guard of a hop.
LEMMA ResolveStep ==
    ASSUME GuardedInv, NEW c \in WebCalls, Resolve(c)
    PROVE  GuardedInv'
<1>1. UNCHANGED <<webConfig, dns, clock>> BY DEF Resolve, OnlyCalls
<1>2. webCalls[c].at = "resolve" BY DEF Resolve, Is
<1> DEFINE old == webCalls[c]
           pin == Head(Lookup(webCalls[c].url))
           call == [old EXCEPT !.at = "curl", !.pinned = pin]
<1>3. old \in WebCall /\ Guarded(old) /\ old # NoCall BY <1>2, UnderWay
<1>4. CASE HostIsAllowed(webCalls[c].url)
  <2>1. webCalls[c].url \in WebUrls BY <1>3 DEF WebCall
  <2>2. dns \in [HostNames -> DnsAnswers] BY DEF GuardedInv, WebTypeOK
  <2>3. pin \in Address /\ ~IsBlockedIp(pin) BY <1>4, <2>1, <2>2, PinIsChecked
  <2>4. pin # <<>> BY <2>3, NoAddressIsEmpty
  <2>5. Becomes(c, call) BY <1>4 DEF Resolve
  <2>6. old.at = "resolve" BY <1>2
  <2> HIDE DEF old, pin
  <2>7. call \in WebCall BY <1>3, <2>3 DEF WebCall, WebPlaces, Hopping
  <2>8. /\ call.at = "curl" /\ call.pinned = pin /\ call.request = old.request /\ call.method = old.method
        /\ call.body = old.body /\ call.reached = old.reached /\ call.approved = old.approved
    BY <1>3 DEF WebCall
  <2> HIDE DEF call
  <2>9. Guarded(call) BY <1>3, <2>3, <2>4, <2>6, <2>8 DEF Guarded
  <2>10. QED BY <1>1, <2>5, <2>7, <2>9, GuardedMoves
<1>5. CASE ~HostIsAllowed(webCalls[c].url)
  <2>1. Fails(c, "error") BY <1>5 DEF Resolve
  <2>2. QED BY <1>1, <1>2, <2>1, FailsStep
<1>6. QED BY <1>4, <1>5

\* curl connects to the address that was checked.
LEMMA CurlStep ==
    ASSUME GuardedInv, NEW c \in WebCalls, Curl(c)
    PROVE  GuardedInv'
<1>1. UNCHANGED <<webConfig, dns, clock>> BY DEF Curl, OnlyCalls
<1>2. webCalls[c].at = "curl" BY DEF Curl, Is
<1> DEFINE old == webCalls[c]
           call == [old EXCEPT !.at = "connected", !.reached = old.pinned]
<1>3. old \in WebCall /\ Guarded(old) /\ old # NoCall BY <1>2, UnderWay
<1>4. Becomes(c, call) BY DEF Curl
<1>5. old.at = "curl" BY <1>2
<1> HIDE DEF old
<1>6. call \in WebCall BY <1>3 DEF WebCall, WebPlaces, Hopping
<1>7. /\ call.at = "connected" /\ call.pinned = old.pinned /\ call.request = old.request
      /\ call.method = old.method /\ call.body = old.body /\ call.reached = old.pinned
      /\ call.approved = old.approved
  BY <1>3 DEF WebCall
<1> HIDE DEF call
<1>8. Guarded(call) BY <1>3, <1>5, <1>7 DEF Guarded
<1>9. QED BY <1>1, <1>4, <1>6, <1>8, GuardedMoves

\* A redirect leads to the next hop, or is refused.
LEMMA RedirectedStep ==
    ASSUME GuardedInv, NEW c \in WebCalls, NEW response \in Responses, Redirected(c, response)
    PROVE  GuardedInv'
<1>1. UNCHANGED <<webConfig, dns, clock>> BY DEF Redirected, OnlyCalls
<1>2. webCalls[c].at = "connected" BY DEF Redirected, Is
<1> DEFINE old == webCalls[c]
           answer == Parsed(response)
           call == NextHop(old, answer)
<1>3. old \in WebCall /\ Guarded(old) /\ old # NoCall BY <1>2, UnderWay
<1>4. \/ Fails(c, "thrown") \/ Fails(c, "error") \/ Becomes(c, call) BY Zenon DEF Redirected
<1>5. CASE Fails(c, "thrown") \/ Fails(c, "error") BY <1>1, <1>2, <1>5, FailsStep
<1>6. CASE Becomes(c, call)
  <2>1. answer.redirect \in WebUrls
    <3>1. answer.redirect # NoUrl BY Zenon DEF Redirected, Follows
    <3>2. response \in [marked : BOOLEAN, status : Nat, redirect : WebUrls \cup {NoUrl}, body : STRING]
      BY WebAssumption
    <3>3. answer.redirect \in WebUrls \cup {NoUrl} BY <3>2 DEF Parsed
    <3>4. QED BY <3>1, <3>3
  <2>2. old.at = "connected" BY <1>2
  <2> DEFINE demoted == old.request.tool = "request" /\ answer.status \in {301, 302, 303}
             method == IF demoted THEN "GET" ELSE old.method
             body == IF demoted THEN "none" ELSE old.body
             url == answer.redirect
  <2>3. call = [old EXCEPT !.at = "resolve", !.url = url, !.hop = old.hop + 1, !.method = method, !.body = body]
    BY Zenon DEF NextHop
  <2>4. url \in WebUrls BY <2>1
  <2>5. (method = "GET" /\ body = "none") \/ (method = old.method /\ body = old.body) OBVIOUS
  <2> HIDE DEF old, answer, call, url, method, body, demoted
  <2>6. call \in WebCall
    <3> DEFINE M == {r.method : r \in WebRequests} \cup {"GET", "POST"}
               B == {r.body : r \in WebRequests} \cup {"none", "text"}
               A == Address \cup {<<>>}
               hop == old.hop + 1
    <3>1. "GET" \in M /\ "none" \in B OBVIOUS
    <3>2. WebCall = [at : WebPlaces, request : WebRequests, url : WebUrls, method : M, body : B, hop : Nat,
                     pinned : A, reached : A, approved : BOOLEAN, told : Seq(LinkOutcomes), result : WebResults,
                     ended : Nat]
      BY DEF WebCall
    <3>3. "resolve" \in WebPlaces BY DEF WebPlaces, Hopping
    <3>4. hop \in Nat BY <1>3 DEF WebCall
    <3>5. call = [old EXCEPT !.at = "resolve", !.url = url, !.hop = hop, !.method = method, !.body = body]
      BY <2>3
    <3> HIDE DEF M, B, A, hop
    <3>6. method \in M /\ body \in B BY <1>3, <2>5, <3>1, <3>2
    <3>7. QED BY <1>3, <2>4, <3>2, <3>3, <3>4, <3>5, <3>6
  <2>7. /\ call.at = "resolve" /\ call.pinned = old.pinned /\ call.request = old.request
        /\ call.method = method /\ call.body = body /\ call.reached = old.reached
        /\ call.approved = old.approved
    BY <1>3, <2>3 DEF WebCall
  <2>8. Guarded(call) BY <1>3, <2>2, <2>5, <2>7 DEF Guarded, HttpArgs
  <2>9. QED BY <1>1, <1>6, <2>6, <2>8, GuardedMoves
<1>7. QED BY <1>4, <1>5, <1>6

\* What a provider makes of an answer is found, empty or failed.
LEMMA OutcomeIs == \A name, answer : Outcome(name, answer) \in {"failed", "found", "empty"}
BY Zenon DEF Outcome

\* The end of a search that found something.
LEMMA FindsStep ==
    ASSUME GuardedInv, NEW c \in WebCalls, webCalls[c].at # "idle", NEW how \in LinkOutcomes, Finds(c, how),
           UNCHANGED <<webConfig, dns, clock>>
    PROVE  GuardedInv'
<1> DEFINE told == Append(webCalls[c].told, how)
           result == "found"
<1>1. webCalls[c] \in WebCall BY UnderWay
<1>2. webCalls[c].request \in WebRequests /\ told \in Seq(LinkOutcomes) BY <1>1 DEF WebCall
<1>3. Becomes(c, Ended(webCalls[c].request, told, result)) BY Zenon DEF Finds
<1>4. result \in WebResults BY DEF WebResults
<1> HIDE DEF told, result
<1>5. QED BY <1>2, <1>3, <1>4, EndingStep

\* A link asks its provider.
LEMMA AsksStep ==
    ASSUME GuardedInv, NEW c \in WebCalls, AskProvider(c)
    PROVE  GuardedInv'
<1>1. UNCHANGED <<webConfig, dns, clock>> BY DEF AskProvider
<1>2. webCalls[c].at = "link" BY DEF AskProvider, AtLink, Is
<1> DEFINE old == webCalls[c]
           name == NextName(c)
           url == ProviderUrls[name]
           method == IF name = "exa" THEN "POST" ELSE "GET"
           body == IF name = "exa" THEN "text" ELSE "none"
           call == [old EXCEPT !.at = "resolve", !.url = url, !.hop = 0, !.method = method, !.body = body]
<1>3. old \in WebCall /\ Guarded(old) /\ old # NoCall BY <1>2, UnderWay
<1>4. old.request.tool = "search" BY <1>2, <1>3 DEF Guarded
<1>5. Tells(c, "failed") \/ Becomes(c, call) BY Zenon DEF AskProvider
<1>6. CASE Tells(c, "failed")
  <2>1. "failed" \in LinkOutcomes BY DEF LinkOutcomes
  <2>2. QED BY <1>1, <1>2, <1>4, <1>6, <2>1, TellsStep
<1>7. CASE Becomes(c, call)
  <2>1. name \in {"searxng", "brave", "duckduckgo", "exa"}
    <3>1. Usable(name) BY DEF AskProvider
    <3> HIDE DEF name
    <3>2. QED BY <3>1 DEF Usable
  <2>2. url \in WebUrls
    <3> HIDE DEF name
    <3>1. QED BY <2>1, WebAssumption
  <2>3. method \in {r.method : r \in WebRequests} \cup {"GET", "POST"} OBVIOUS
  <2>4. body \in {r.body : r \in WebRequests} \cup {"none", "text"} OBVIOUS
  <2>5. "resolve" \in WebPlaces BY DEF WebPlaces, Hopping
  <2> HIDE DEF old, name, url, method, body
  <2>6. call \in WebCall
    <3> DEFINE M == {r.method : r \in WebRequests} \cup {"GET", "POST"}
               B == {r.body : r \in WebRequests} \cup {"none", "text"}
               A == Address \cup {<<>>}
    <3>1. method \in M /\ body \in B BY <2>3, <2>4
    <3>2. WebCall = [at : WebPlaces, request : WebRequests, url : WebUrls, method : M, body : B, hop : Nat,
                     pinned : A, reached : A, approved : BOOLEAN, told : Seq(LinkOutcomes), result : WebResults,
                     ended : Nat]
      BY DEF WebCall
    <3> HIDE DEF M, B, A
    <3>3. QED BY <1>3, <2>2, <2>5, <3>1, <3>2
  <2>7. call.at = "resolve" /\ call.request = old.request /\ call.reached = old.reached BY <1>3 DEF WebCall
  <2>8. old.request.tool = "search" BY <1>4 DEF old
  <2> HIDE DEF call
  <2>9. Guarded(call) BY <1>3, <2>7, <2>8 DEF Guarded
  <2>10. QED BY <1>1, <1>7, <2>6, <2>9, GuardedMoves
<1>8. QED BY <1>5, <1>6, <1>7

\* The outcomes of the searches.
LEMMA SearchSteps ==
    ASSUME GuardedInv, NEW c \in WebCalls,
           \/ SkipLink(c) \/ CacheHit(c) \/ ChainEnds(c)
           \/ \E response \in Responses : ProviderAnswers(c, response)
    PROVE  GuardedInv'
<1>1. CASE SkipLink(c) \/ CacheHit(c) \/ ChainEnds(c)
  <2>1. UNCHANGED <<webConfig, dns, clock>> BY <1>1 DEF SkipLink, CacheHit, ChainEnds, OnlyCalls
  <2>2. webCalls[c].at = "link" BY <1>1 DEF SkipLink, CacheHit, ChainEnds, AtLink, Is
  <2>3. Guarded(webCalls[c]) /\ webCalls[c] # NoCall BY <2>2, UnderWay
  <2>4. webCalls[c].request.tool = "search" BY <2>2, <2>3 DEF Guarded
  <2>5. "unusable" \in LinkOutcomes /\ "empty" \in LinkOutcomes /\ "cached" \in LinkOutcomes BY DEF LinkOutcomes
  <2>6. "empty" \in WebResults /\ "error" \in WebResults BY DEF WebResults
  <2>7. \/ Tells(c, "unusable") \/ Tells(c, "empty") \/ Finds(c, "cached")
        \/ EndsAs(c, "empty") \/ EndsAs(c, "error")
    BY <1>1, Zenon DEF SkipLink, CacheHit, ChainEnds
  <2>8. CASE Tells(c, "unusable") \/ Tells(c, "empty") BY <2>1, <2>2, <2>4, <2>5, <2>8, TellsStep
  <2>9. CASE Finds(c, "cached") BY <2>1, <2>2, <2>5, <2>9, FindsStep
  <2>10. CASE EndsAs(c, "empty") \/ EndsAs(c, "error") BY <2>1, <2>2, <2>6, <2>10, EndsAsStep
  <2>11. QED BY <2>7, <2>8, <2>9, <2>10
<1>2. ASSUME NEW response \in Responses, ProviderAnswers(c, response) PROVE GuardedInv'
  <2> DEFINE outcome == Outcome(NextName(c), Parsed(response))
  <2>1. UNCHANGED <<webConfig, dns, clock>> BY <1>2 DEF ProviderAnswers
  <2>2. webCalls[c].at = "connected" /\ webCalls[c].request.tool = "search" BY <1>2 DEF ProviderAnswers, Is
  <2>3. outcome \in {"failed", "found", "empty"} BY OutcomeIs, Zenon
  <2>4. (outcome = "found" /\ Finds(c, "found")) \/ Tells(c, outcome) BY <1>2, Zenon DEF ProviderAnswers
  <2> HIDE DEF outcome
  <2>5. outcome \in LinkOutcomes /\ "found" \in LinkOutcomes BY <2>3 DEF LinkOutcomes
  <2>6. CASE Finds(c, "found") BY <2>1, <2>2, <2>5, <2>6, FindsStep
  <2>7. CASE Tells(c, outcome) BY <2>1, <2>2, <2>5, <2>7, TellsStep
  <2>8. QED BY <2>4, <2>6, <2>7
<1>3. QED BY <1>1, <1>2

\* Where the calls and the configuration stay, so does what they carry.
LEMMA GuardedAll ==
    ASSUME \A c \in WebCalls : Guarded(webCalls[c]), webCalls' = webCalls, webConfig' = webConfig
    PROVE  \A c \in WebCalls : Guarded(webCalls[c])'
BY ConfigKept, Zenon DEF Guarded, HttpArgs, ParsesAsHttp

\* Every step keeps what a call carries.
LEMMA GuardedStep == GuardedInv /\ [WebNext]_webVars => GuardedInv'
<1> SUFFICES ASSUME GuardedInv, [WebNext]_webVars PROVE GuardedInv' OBVIOUS
<1>1. CASE UNCHANGED webVars
  <2>1. webCalls' = webCalls /\ dns' = dns /\ clock' = clock /\ webConfig' = webConfig BY <1>1 DEF webVars
  <2>2. WebTypeOK' BY <2>1 DEF GuardedInv, WebTypeOK
  <2>3. QED BY <2>1, <2>2, GuardedAll DEF GuardedInv
<1>2. ASSUME NEW c \in WebCalls, NEW request \in WebRequests, CallRequest(c, request) PROVE GuardedInv'
  BY <1>2, RequestStep
<1>3. ASSUME NEW c \in WebCalls, NEW request \in WebRequests, CallFetch(c, request) PROVE GuardedInv'
  <2>1. UNCHANGED <<webConfig, dns, clock>> BY <1>3 DEF CallFetch, OnlyCalls
  <2>2. request.tool = "fetch" BY <1>3 DEF CallFetch
  <2>3. \/ Becomes(c, NewCall(request, "ended", "thrown")) \/ Becomes(c, NewCall(request, "ended", "error"))
        \/ Becomes(c, NewCall(request, "resolve", "none"))
    BY <1>3, Zenon DEF CallFetch
  <2>4. /\ "thrown" \in WebResults /\ "error" \in WebResults /\ "none" \in WebResults
        /\ "ended" \in {"link", "ended"} \cup Hopping /\ "resolve" \in {"link", "ended"} \cup Hopping
    BY DEF WebResults, Hopping
  <2>5. QED BY <2>1, <2>2, <2>3, <2>4, BeginsOther
<1>4. ASSUME NEW c \in WebCalls, NEW request \in WebRequests, CallSearch(c, request) PROVE GuardedInv'
  <2>1. UNCHANGED <<webConfig, dns, clock>> BY <1>4 DEF CallSearch, OnlyCalls
  <2>2. request.tool = "search" BY <1>4 DEF CallSearch
  <2>3. \/ Becomes(c, NewCall(request, "ended", "thrown")) \/ Becomes(c, NewCall(request, "ended", "error"))
        \/ Becomes(c, NewCall(request, "link", "none"))
    BY <1>4, Zenon DEF CallSearch
  <2>4. /\ "thrown" \in WebResults /\ "error" \in WebResults /\ "none" \in WebResults
        /\ "ended" \in {"link", "ended"} \cup Hopping /\ "link" \in {"link", "ended"} \cup Hopping
    BY DEF WebResults, Hopping
  <2>5. QED BY <2>1, <2>2, <2>3, <2>4, BeginsOther
<1>5. ASSUME NEW c \in WebCalls, NEW yes \in BOOLEAN, OwnerAnswers(c, yes) PROVE GuardedInv'
  BY <1>5, OwnerAnswersStep
<1>6. ASSUME NEW c \in WebCalls, Resolve(c) \/ Curl(c) PROVE GuardedInv' BY <1>6, ResolveStep, CurlStep
<1>7. ASSUME NEW c \in WebCalls, NEW response \in Responses, Redirected(c, response) PROVE GuardedInv'
  BY <1>7, RedirectedStep
<1>8. ASSUME NEW c \in WebCalls, NEW response \in Responses, Returns(c, response) PROVE GuardedInv'
  <2>1. UNCHANGED <<webConfig, dns, clock>> BY <1>8 DEF Returns, OnlyCalls
  <2>2. webCalls[c].at = "connected" BY <1>8 DEF Returns, Is
  <2>3. EndsAs(c, "error") \/ EndsAs(c, "ok") BY <1>8, Zenon DEF Returns
  <2>4. "error" \in WebResults /\ "ok" \in WebResults BY DEF WebResults
  <2>5. QED BY <2>1, <2>2, <2>3, <2>4, EndsAsStep
<1>9. ASSUME NEW c \in WebCalls, NEW how \in {"error", "thrown"}, CurlFails(c, how) PROVE GuardedInv'
  <2>1. UNCHANGED <<webConfig, dns, clock>> BY <1>9 DEF CurlFails
  <2>2. webCalls[c].at # "idle" /\ webCalls[c].at # "ended" BY <1>9 DEF CurlFails, Is
  <2>3. QED BY <1>9, <2>1, <2>2, FailsStep DEF CurlFails
<1>10. ASSUME NEW c \in WebCalls,
              \/ SkipLink(c) \/ CacheHit(c) \/ ChainEnds(c)
              \/ \E response \in Responses : ProviderAnswers(c, response)
       PROVE  GuardedInv'
  BY <1>10, SearchSteps
<1>11. ASSUME NEW c \in WebCalls, AskProvider(c) PROVE GuardedInv' BY <1>11, AsksStep
<1>12. CASE TimePasses
  <2>1. webCalls' = webCalls /\ dns' = dns /\ clock' = clock + 1 /\ webConfig' = webConfig
    BY <1>12 DEF TimePasses
  <2>2. WebTypeOK' BY <2>1 DEF GuardedInv, WebTypeOK
  <2>3. QED BY <2>1, <2>2, GuardedAll DEF GuardedInv
<1>13. ASSUME NEW name \in HostNames, NEW answer \in DnsAnswers, DnsChanges(name, answer) PROVE GuardedInv'
  <2>1. webCalls' = webCalls /\ clock' = clock /\ webConfig' = webConfig /\ dns' = [dns EXCEPT ![name] = answer]
    BY <1>13 DEF DnsChanges
  <2>2. WebTypeOK' BY <2>1 DEF GuardedInv, WebTypeOK
  <2>3. QED BY <2>1, <2>2, GuardedAll DEF GuardedInv
<1>14. QED BY <1>1, <1>2, <1>3, <1>4, <1>5, <1>6, <1>7, <1>8, <1>9, <1>10, <1>11, <1>12, <1>13, Zenon DEF WebNext

\* At the start there is no call.
LEMMA GuardedInit == WebInit => GuardedInv
<1> SUFFICES ASSUME WebInit PROVE GuardedInv OBVIOUS
<1>1. webCalls = [c \in WebCalls |-> NoCall] /\ dns \in [HostNames -> DnsAnswers] /\ clock = 0 BY DEF WebInit
<1>2. WebTypeOK BY <1>1 DEF WebTypeOK
<1>3. QED BY <1>1, <1>2 DEF GuardedInv, Guarded

\* Every variable of the web tools a reader cares for keeps to its type, whatever servers,
\* names and the owner answer.
LEMMA GuardedAlways == WebSpec => []GuardedInv
BY GuardedInit, GuardedStep, PTL DEF WebSpec

\* No hop of any tool connects to a private address, and requests go out as they were
\* allowed, approved and asked for.
THEOREM HopsStayOutside == WebSpec => []HopsAreGuarded
<1>1. GuardedInv => HopsAreGuarded
  <2> SUFFICES ASSUME GuardedInv, NEW c \in WebCalls, webCalls[c] # NoCall, webCalls[c].reached # <<>>
               PROVE  LET call == webCalls[c]
                      IN  /\ ~Private(call.reached)
                          /\ call.request.tool = "request" =>
                                /\ NeedsApproval(call.request.method) => call.approved
                                /\ HostAllowed(call.request.url)
                                /\ call.method \in {"GET", call.request.method}
                                /\ call.body = IF call.method = call.request.method THEN call.request.body
                                               ELSE "none"
    BY Zenon DEF HopsAreGuarded
  <2> DEFINE call == webCalls[c]
  <2>1. call \in WebCall /\ Guarded(call) /\ call # NoCall /\ call.reached # <<>> BY DEF GuardedInv, WebTypeOK
  <2> HIDE DEF call
  <2>2. call.reached \in Address BY <2>1 DEF WebCall
  <2>3. ~IsBlockedIp(call.reached) BY <2>1 DEF Guarded
  <2>4. ~Private(call.reached) BY <2>2, <2>3, PrivateIsBlocked
  <2>5. call.at # "ended" BY <2>1 DEF Guarded
  <2>6. call.request.tool = "request" => call.at # "asking"
    BY <2>1, <2>5 DEF Guarded
  <2>7. QED BY <2>1, <2>4, <2>5, <2>6 DEF Guarded, call
<1>2. QED BY <1>1, GuardedAlways, PTL

-----------------------------------------------------------------------------
(* The searches.                                                           *)

\* The configuration stays, and with it the chain.
LEMMA ChainKept == ASSUME webConfig' = webConfig PROVE Chain' = Chain
BY Zenon DEF Chain

\* And what a search knows of given answers.
LEMMA SearchedKept ==
    ASSUME webConfig' = webConfig
    PROVE  \A call, said, now : Searched(call, said, now) => Searched(call, said, now)'
<1>1. \A name : Usable(name)' = Usable(name) BY ConfigKept
<1>2. Chain' = Chain BY ChainKept
<1>3. \A said, name, query, latest : SaidNothing(said, name, query, latest) =>
                                     SaidNothing(said, name, query, latest)'
  BY <1>1, Zenon DEF SaidNothing
<1>4. \A said, name, query, end : SaidResults(said, name, query, end) => SaidResults(said, name, query, end)'
  BY <1>1, Zenon DEF SaidResults
<1> SUFFICES ASSUME NEW call, NEW said, NEW now, Searched(call, said, now), call # NoCall,
                    call.request.tool = "search"
             PROVE  Searched(call, said, now)'
  BY Zenon DEF Searched
<1>5. QED BY <1>1, <1>2, <1>3, <1>4, Zenon DEF Searched

\* More answers and a later time take nothing away from it.
LEMMA SearchedStays ==
    ASSUME NEW call \in WebCall, NEW said, NEW more, said \subseteq more, NEW now \in Nat, NEW later \in Nat,
           now <= later, \A a \in said : a.at \in Nat, Searched(call, said, now)
    PROVE  Searched(call, more, later)
<1>1. \A name, query : SaidNothing(said, name, query, now) => SaidNothing(more, name, query, later)
  BY DEF SaidNothing
<1>2. \A name, query, end : SaidNothing(said, name, query, end) => SaidNothing(more, name, query, end)
  BY Zenon DEF SaidNothing
<1>3. \A name, query, end : SaidResults(said, name, query, end) => SaidResults(more, name, query, end)
  BY Zenon DEF SaidResults
<1>4. call.ended \in Nat BY DEF WebCall
<1>5. call.ended <= now => call.ended <= later BY <1>4
<1>6. QED BY <1>1, <1>2, <1>3, <1>5, Zenon DEF Searched

\* A step that gives one call its next record, with what the search cache and the answers
\* become.
LEMMA SearchedMoves ==
    ASSUME SearchInv, GuardedInv', NEW c \in WebCalls, NEW call, Becomes(c, call),
           webConfig' = webConfig, clock' = clock, answered \subseteq answered',
           Searched(call, answered', clock), cache' \in Seq(Entries(answered')), AnswersInv'
    PROVE  SearchInv'
<1>1. ASSUME NEW d \in WebCalls PROVE Searched(webCalls[d], answered, clock)'
  <2>1. webCalls'[d] = IF d = c THEN call ELSE webCalls[d]
    BY DEF Becomes, SearchInv, GuardedInv, WebTypeOK
  <2>2. clock \in Nat /\ (\A a \in answered : a.at \in Nat) /\ clock <= clock
    BY DEF SearchInv, AnswersInv, GuardedInv, WebTypeOK
  <2>3. webCalls[d] \in WebCall \cup {NoCall} /\ Searched(webCalls[d], answered, clock)
    BY DEF SearchInv, GuardedInv, WebTypeOK
  <2>4. webCalls[d] \in WebCall => Searched(webCalls[d], answered', clock)
    BY <2>2, <2>3, SearchedStays
  <2>5. webCalls[d] = NoCall => Searched(webCalls[d], answered', clock) BY Zenon DEF Searched
  <2>6. Searched(webCalls'[d], answered', clock) BY <2>1, <2>3, <2>4, <2>5
  <2>7. QED BY <2>6, SearchedKept, Zenon
<1>2. cache' \in Seq(Entries(answered)') BY DEF Entries
<1>3. QED BY <1>1, <1>2 DEF SearchInv

\* The cache holds what it held where an entry goes, and what was answered where one comes.
LEMMA WithoutIs == ASSUME NEW E, cache \in Seq(E), NEW key PROVE Without(key) \in Seq(E)
<1>1. CASE \E i \in DOMAIN cache : cache[i].key = key
  <2> DEFINE i == CHOOSE i \in DOMAIN cache : cache[i].key = key
  <2>1. i \in DOMAIN cache BY <1>1, Zenon
  <2>2. Without(key) = RemoveAt(cache, i) BY <1>1, Zenon DEF Without
  <2> HIDE DEF i
  <2>3. i \in 1 .. Len(cache) BY <2>1
  <2>4. SubSeq(cache, 1, i - 1) \in Seq(E) /\ SubSeq(cache, i + 1, Len(cache)) \in Seq(E)
    BY <2>3, SubSeqProperties
  <2>5. QED BY <2>2, <2>4, ConcatProperties DEF RemoveAt
<1>2. CASE ~\E i \in DOMAIN cache : cache[i].key = key BY <1>2, Zenon DEF Without
<1>3. QED BY <1>1, <1>2

LEMMA CacheSetIs ==
    ASSUME NEW E, cache \in Seq(E), NEW key, NEW found, CacheSize \in Nat, CacheTtl \in Nat,
           [key |-> key, found |-> found, expiresAt |-> clock + CacheTtl] \in E
    PROVE  CacheSet(key, found) \in Seq(E)
<1> DEFINE stored == Append(Without(key), [key |-> key, found |-> found, expiresAt |-> clock + CacheTtl])
           first == IF Len(stored) - CacheSize > 0 THEN Len(stored) - CacheSize + 1 ELSE 1
<1>1. Without(key) \in Seq(E) BY WithoutIs
<1>2. stored \in Seq(E) BY <1>1
<1>3. CacheSet(key, found) = IF CacheTtl = 0 THEN cache ELSE SubSeq(stored, first, Len(stored))
  BY Zenon DEF CacheSet
<1> HIDE DEF stored
<1>4. SubSeq(stored, first, Len(stored)) \in Seq(E)
  <2>1. Len(stored) \in Nat /\ first \in Nat /\ first >= 1 BY <1>2
  <2> HIDE DEF first
  <2>2. QED BY <1>2, <2>1, SubSeqProperties
<1>5. QED BY <1>3, <1>4

\* The entries of more answers.
LEMMA EntriesGrow == \A said, more : said \subseteq more => Seq(Entries(said)) \subseteq Seq(Entries(more))
<1> SUFFICES ASSUME NEW said, NEW more, said \subseteq more PROVE Seq(Entries(said)) \subseteq Seq(Entries(more))
  OBVIOUS
<1>1. Entries(said) \subseteq Entries(more) BY DEF Entries
<1>2. QED BY <1>1, SeqMonotonic

\* The same where nothing is answered.
LEMMA OnlyMoves ==
    ASSUME SearchInv, GuardedInv', NEW c \in WebCalls, NEW call, Becomes(c, call),
           UNCHANGED <<webConfig, cache, clock, answered>>, Searched(call, answered, clock)
    PROVE  SearchInv'
<1>1. Searched(call, answered', clock) /\ answered \subseteq answered' /\ cache' \in Seq(Entries(answered'))
  BY DEF SearchInv
<1>2. AnswersInv' BY DEF SearchInv, AnswersInv
<1>3. QED BY <1>1, <1>2, SearchedMoves

\* A call of the other tools knows nothing of searches.
LEMMA NoSearch == \A call, said, now : call.request.tool # "search" => Searched(call, said, now)
BY Zenon DEF Searched

\* What a search under way knows, when more has been answered meanwhile.
LEMMA KnownOf ==
    ASSUME SearchInv, NEW c \in WebCalls, webCalls[c].at # "idle", webCalls[c].request.tool = "search",
           NEW said, answered \subseteq said
    PROVE  LET call == webCalls[c]
               query == call.request.query
           IN  /\ call \in WebCall /\ call.ended <= clock /\ clock \in Nat /\ call.ended \in Nat
               /\ call.at # "ended" =>
                     /\ call.result = "none"
                     /\ \A link \in DOMAIN call.told :
                           \/ call.told[link] \in {"failed", "unusable"}
                           \/ call.told[link] = "empty" /\ SaidNothing(said, Chain[link], query, clock)
               /\ call.at \in Hopping => Usable(Chain[Len(call.told) + 1])
<1> DEFINE call == webCalls[c]
<1>1. GuardedInv BY DEF SearchInv
<1>2. call \in WebCall /\ call # NoCall BY <1>1, UnderWay
<1>3. clock \in Nat /\ (\A a \in answered : a.at \in Nat) /\ clock <= clock
  BY DEF SearchInv, AnswersInv, GuardedInv, WebTypeOK
<1>4. Searched(call, answered, clock) BY DEF SearchInv
<1>5. call.request.tool = "search" OBVIOUS
<1> HIDE DEF call
<1>6. Searched(call, said, clock) BY <1>2, <1>3, <1>4, SearchedStays
<1>7. /\ call.ended <= clock
      /\ call.at # "ended" =>
            /\ call.result = "none"
            /\ \A link \in DOMAIN call.told :
                  \/ call.told[link] \in {"failed", "unusable"}
                  \/ call.told[link] = "empty" /\ SaidNothing(said, Chain[link], call.request.query, clock)
      /\ call.at \in Hopping => Usable(Chain[Len(call.told) + 1])
  BY <1>2, <1>5, <1>6, Zenon DEF Searched
<1>8. call.ended \in Nat BY <1>2 DEF WebCall
<1>9. QED BY <1>2, <1>3, <1>7, <1>8, Zenon DEF call

\* A link that told no results of its own goes on with the chain.
LEMMA TellsKnown ==
    ASSUME SearchInv, NEW c \in WebCalls, webCalls[c].at # "idle", webCalls[c].at # "ended",
           webCalls[c].request.tool = "search", NEW said, answered \subseteq said, NEW outcome \in LinkOutcomes,
           \/ outcome \in {"failed", "unusable"}
           \/ outcome = "empty" /\ SaidNothing(said, NextName(c), webCalls[c].request.query, clock)
    PROVE  Searched([webCalls[c] EXCEPT !.at = "link", !.told = Append(@, outcome)], said, clock)
<1> DEFINE old == webCalls[c]
           told == Append(old.told, outcome)
           call == [old EXCEPT !.at = "link", !.told = told]
<1>1. old \in WebCall /\ old.result = "none" /\ old.ended <= clock BY KnownOf
<1>2. \A link \in DOMAIN old.told :
         \/ old.told[link] \in {"failed", "unusable"}
         \/ old.told[link] = "empty" /\ SaidNothing(said, Chain[link], old.request.query, clock)
  BY KnownOf
<1>3. \/ outcome \in {"failed", "unusable"}
      \/ outcome = "empty" /\ SaidNothing(said, Chain[Len(old.told) + 1], old.request.query, clock)
  BY Zenon DEF NextName
<1>4. [old EXCEPT !.at = "link", !.told = Append(@, outcome)] = call OBVIOUS
<1> SUFFICES Searched(call, said, clock) BY <1>4
<1> HIDE DEF old
<1>5. old.told \in Seq(LinkOutcomes) BY <1>1 DEF WebCall
<1>6. /\ DOMAIN told = 1 .. (Len(old.told) + 1) /\ DOMAIN old.told = 1 .. Len(old.told)
      /\ Len(old.told) \in Nat /\ told[Len(old.told) + 1] = outcome
      /\ \A link \in DOMAIN old.told : told[link] = old.told[link]
  BY <1>5
<1> HIDE DEF told
<1>7. \A link \in DOMAIN told :
         \/ told[link] \in {"failed", "unusable"}
         \/ told[link] = "empty" /\ SaidNothing(said, Chain[link], old.request.query, clock)
  <2> TAKE link \in DOMAIN told
  <2>1. link \in DOMAIN old.told \/ link = Len(old.told) + 1 BY <1>6
  <2>2. QED BY <1>2, <1>3, <1>6, <2>1
<1>8. /\ call.at = "link" /\ call.request = old.request /\ call.told = told /\ call.result = "none"
      /\ call.ended = old.ended
  BY <1>1 DEF WebCall
<1> HIDE DEF call
<1>9. call.at \notin Hopping BY <1>8 DEF Hopping
<1>10. QED BY <1>1, <1>7, <1>8, <1>9 DEF Searched

\* And one that told results ends the search.
LEMMA FindsKnown ==
    ASSUME SearchInv, NEW c \in WebCalls, webCalls[c].at # "idle", webCalls[c].request.tool = "search",
           NEW how \in LinkOutcomes, NEW said,
           SaidResults(said, NextName(c), webCalls[c].request.query, clock)
    PROVE  Searched(Ended(webCalls[c].request, Append(webCalls[c].told, how), "found"), said, clock)
<1> DEFINE old == webCalls[c]
           told == Append(old.told, how)
           result == "found"
           call == Ended(old.request, told, result)
<1>1. GuardedInv BY DEF SearchInv
<1>2. old \in WebCall /\ clock \in Nat BY <1>1, UnderWay DEF GuardedInv, WebTypeOK
<1>3. old.request \in WebRequests /\ told \in Seq(LinkOutcomes) /\ Len(told) = Len(old.told) + 1
  BY <1>2 DEF WebCall
<1>4. result \in WebResults BY DEF WebResults
<1>5. SaidResults(said, Chain[Len(told)], old.request.query, clock) BY <1>3, Zenon DEF NextName
<1>6. call = Ended(old.request, told, result) OBVIOUS
<1> HIDE DEF old, told, result, call
<1>7. call.at = "ended" /\ call.request = old.request /\ call.told = told /\ call.result = result /\ call.ended = clock
  BY <1>2, <1>3, <1>4, <1>6, EndedIs
<1>8. call.result = "found" BY <1>7 DEF result
<1>9. call.at \notin Hopping BY <1>7 DEF Hopping
<1>10. Searched(call, said, clock) BY <1>2, <1>5, <1>7, <1>8, <1>9 DEF Searched
<1>11. QED BY <1>10 DEF call, old, told, result

\* A failure in the loop over the hops.
LEMMA FailsKnown ==
    ASSUME SearchInv, GuardedInv', NEW c \in WebCalls, webCalls[c].at # "idle", webCalls[c].at # "ended",
           NEW how, Fails(c, how), UNCHANGED <<webConfig, cache, clock, answered>>
    PROVE  SearchInv'
<1> DEFINE old == webCalls[c]
<1>1. GuardedInv BY DEF SearchInv
<1>2. old \in WebCall BY <1>1, UnderWay
<1>3. old.request \in WebRequests /\ old.told \in Seq(LinkOutcomes) /\ clock \in Nat
  BY <1>1, <1>2 DEF WebCall, GuardedInv, WebTypeOK
<1>4. old.request.tool \in {"request", "fetch", "search"} BY <1>3, WebAssumption
<1>5. CASE old.request.tool = "search"
  <2> DEFINE failed == "failed"
             call == [old EXCEPT !.at = "link", !.told = Append(@, failed)]
  <2>1. Becomes(c, call) BY <1>5, Zenon DEF Fails
  <2>2. failed \in LinkOutcomes /\ failed \in {"failed", "unusable"} BY DEF LinkOutcomes
  <2>3. call = [webCalls[c] EXCEPT !.at = "link", !.told = Append(@, failed)] OBVIOUS
  <2> HIDE DEF call, failed
  <2>4. Searched(call, answered, clock) BY <1>5, <2>2, <2>3, TellsKnown
  <2>5. QED BY <2>1, <2>4, OnlyMoves
<1>6. CASE old.request.tool # "search"
  <2>1. PICK result : Becomes(c, Ended(old.request, old.told, result))
    BY <1>4, <1>6, Zenon DEF Fails, EndsAs
  <2> DEFINE call == Ended(old.request, old.told, result)
  <2>2. call.request = old.request BY DEF Ended, NewCall
  <2>3. call.request.tool # "search" BY <1>6, <2>2
  <2>4. Becomes(c, call) BY <2>1
  <2> HIDE DEF call
  <2>5. Searched(call, answered, clock) BY <2>3, NoSearch
  <2>6. QED BY <2>4, <2>5, OnlyMoves
<1>7. QED BY <1>5, <1>6

\* A hop goes on, and the search it is of stays where it is.
LEMMA HopKnown ==
    ASSUME SearchInv, GuardedInv', NEW c \in WebCalls, webCalls[c].at \in Hopping,
           NEW call, Becomes(c, call), UNCHANGED <<webConfig, cache, clock, answered>>,
           call.at \in Hopping, call.request = webCalls[c].request, call.told = webCalls[c].told,
           call.result = webCalls[c].result, call.ended = webCalls[c].ended
    PROVE  SearchInv'
<1> DEFINE old == webCalls[c]
<1>1. old.at # "idle" /\ call.at # "ended" /\ old.at # "ended" BY DEF Hopping
<1>2. Searched(old, answered, clock) /\ old # NoCall BY <1>1 DEF SearchInv, NoCall
<1>3. Searched(call, answered, clock) BY <1>1, <1>2, Zenon DEF Searched
<1>4. QED BY <1>3, OnlyMoves

\* A call begins, of which nothing is told.
LEMMA BeginsKnown ==
    ASSUME SearchInv, GuardedInv', NEW c \in WebCalls, NEW request \in WebRequests,
           NEW place, place \notin Hopping \/ request.tool # "search",
           NEW result \in {"none", "error", "thrown"}, place # "ended" => result = "none",
           Becomes(c, NewCall(request, place, result)), UNCHANGED <<webConfig, cache, clock, answered>>
    PROVE  SearchInv'
<1> DEFINE call == NewCall(request, place, result)
<1>1. /\ call.at = place /\ call.request = request /\ call.told = <<>> /\ call.result = result
      /\ call.ended = clock
  BY DEF NewCall
<1>2. clock \in Nat BY DEF SearchInv, GuardedInv, WebTypeOK
<1>3. Becomes(c, call) OBVIOUS
<1> HIDE DEF call
<1>4. DOMAIN call.told = {} BY <1>1
<1>5. Searched(call, answered, clock) BY <1>1, <1>2, <1>4 DEF Searched
<1>6. QED BY <1>3, <1>5, OnlyMoves

\* At a link of the chain a search is under way.
LEMMA AtLinkIs ==
    ASSUME SearchInv, NEW c \in WebCalls, webCalls[c].at = "link"
    PROVE  webCalls[c].request.tool = "search"
<1>1. GuardedInv BY DEF SearchInv
<1>2. Guarded(webCalls[c]) /\ webCalls[c] # NoCall BY <1>1, UnderWay
<1>3. QED BY <1>2 DEF Guarded

\* A provider that cannot be used is passed over.
LEMMA SkipLinkKnown ==
    ASSUME SearchInv, GuardedInv', NEW c \in WebCalls, SkipLink(c)
    PROVE  SearchInv'
<1> DEFINE unusable == "unusable"
           call == [webCalls[c] EXCEPT !.at = "link", !.told = Append(@, unusable)]
<1>1. webCalls[c].at = "link" BY DEF SkipLink, AtLink, Is
<1>2. webCalls[c].request.tool = "search" BY <1>1, AtLinkIs
<1>3. UNCHANGED <<webConfig, cache, clock, answered>> BY DEF SkipLink, OnlyCalls
<1>4. Becomes(c, call) BY Zenon DEF SkipLink, Tells
<1>5. unusable \in LinkOutcomes /\ unusable \in {"failed", "unusable"} BY DEF LinkOutcomes
<1>6. call = [webCalls[c] EXCEPT !.at = "link", !.told = Append(@, unusable)] OBVIOUS
<1> HIDE DEF unusable, call
<1>7. Searched(call, answered, clock) BY <1>1, <1>2, <1>5, <1>6, TellsKnown
<1>8. QED BY <1>3, <1>4, <1>7, OnlyMoves

\* An entry that is still good is an answer that is not too old.
LEMMA HitIsAnswer ==
    ASSUME SearchInv, NEW c \in WebCalls, NEW name, Usable(name), NEW hit \in CacheGet(Key(c, name))
    PROVE  /\ hit.found = TRUE => SaidResults(answered, name, webCalls[c].request.query, clock)
           /\ hit.found = FALSE => SaidNothing(answered, name, webCalls[c].request.query, clock)
           /\ hit.found \in BOOLEAN
<1>1. hit \in ToSet(cache) /\ hit.key = Key(c, name) /\ hit.expiresAt > clock BY DEF CacheGet
<1>2. PICK i \in DOMAIN cache : hit = cache[i] BY <1>1 DEF ToSet
<1>3. hit \in Entries(answered)
  <2>1. cache \in Seq(Entries(answered)) BY DEF SearchInv
  <2> DEFINE E == Entries(answered)
  <2> HIDE DEF E
  <2>2. cache \in Seq(E) BY <2>1 DEF E
  <2>3. cache[i] \in E BY <1>2, <2>2
  <2>4. QED BY <1>2, <2>3 DEF E
<1>4. PICK a \in answered : hit = [key |-> a.key, found |-> a.found, expiresAt |-> a.at + CacheTtl]
  BY <1>3 DEF Entries
<1>5. a.key = [provider |-> name, query |-> webCalls[c].request.query] BY <1>1, <1>4 DEF Key
<1>6. a.at \in 0 .. clock /\ a.found \in BOOLEAN /\ clock \in Nat
  BY DEF SearchInv, AnswersInv, GuardedInv, WebTypeOK
<1>7. CacheTtl \in Nat BY WebAssumption
<1>8. a.at <= clock /\ clock < a.at + CacheTtl BY <1>1, <1>4, <1>6, <1>7
<1>9. hit.found = a.found BY <1>4
<1>10. QED BY <1>5, <1>6, <1>8, <1>9, Zenon DEF SaidResults, SaidNothing

\* The cache has the answer.
LEMMA CacheHitKnown ==
    ASSUME SearchInv, GuardedInv', NEW c \in WebCalls, CacheHit(c)
    PROVE  SearchInv'
<1> DEFINE name == NextName(c)
           query == webCalls[c].request.query
<1>1. webCalls[c].at = "link" BY DEF CacheHit, AtLink, Is
<1>2. webCalls[c].request.tool = "search" BY <1>1, AtLinkIs
<1>3. UNCHANGED <<webConfig, cache, clock, answered>> /\ Usable(name) BY DEF CacheHit, OnlyCalls
<1>4. PICK hit \in CacheGet(Key(c, name)) : IF hit.found THEN Finds(c, "cached") ELSE Tells(c, "empty")
  BY Zenon DEF CacheHit
<1>5. /\ hit.found = TRUE => SaidResults(answered, name, query, clock)
      /\ hit.found = FALSE => SaidNothing(answered, name, query, clock)
      /\ hit.found \in BOOLEAN
  BY <1>3, <1>4, HitIsAnswer
<1>6. CASE hit.found = TRUE
  <2> DEFINE cached == "cached"
             call == Ended(webCalls[c].request, Append(webCalls[c].told, cached), "found")
  <2>1. Becomes(c, call) BY <1>4, <1>6, Zenon DEF Finds
  <2>2. cached \in LinkOutcomes BY DEF LinkOutcomes
  <2>3. call = Ended(webCalls[c].request, Append(webCalls[c].told, cached), "found") OBVIOUS
  <2> HIDE DEF cached, call
  <2>4. Searched(call, answered, clock) BY <1>1, <1>2, <1>5, <1>6, <2>2, <2>3, FindsKnown
  <2>5. QED BY <1>3, <2>1, <2>4, OnlyMoves
<1>7. CASE hit.found = FALSE
  <2> DEFINE empty == "empty"
             call == [webCalls[c] EXCEPT !.at = "link", !.told = Append(@, empty)]
  <2>1. Becomes(c, call) BY <1>4, <1>7, Zenon DEF Tells
  <2>2. empty \in LinkOutcomes /\ empty = "empty" BY DEF LinkOutcomes
  <2>3. call = [webCalls[c] EXCEPT !.at = "link", !.told = Append(@, empty)] OBVIOUS
  <2> HIDE DEF empty, call
  <2>4. Searched(call, answered, clock) BY <1>1, <1>2, <1>5, <1>7, <2>2, <2>3, TellsKnown
  <2>5. QED BY <1>3, <2>1, <2>4, OnlyMoves
<1>8. QED BY <1>5, <1>6, <1>7

\* The chain is over.
LEMMA ChainEndsKnown ==
    ASSUME SearchInv, GuardedInv', NEW c \in WebCalls, ChainEnds(c)
    PROVE  SearchInv'
<1> DEFINE old == webCalls[c]
           result == IF Contains(old.told, "empty") THEN "empty" ELSE "error"
           call == Ended(old.request, old.told, result)
<1>1. old.at = "link" BY DEF ChainEnds, Is
<1>2. old.request.tool = "search" BY <1>1, AtLinkIs
<1>3. UNCHANGED <<webConfig, cache, clock, answered>> BY DEF ChainEnds, OnlyCalls
<1>4. Becomes(c, call) BY Zenon DEF ChainEnds, EndsAs
<1>5. /\ old \in WebCall /\ clock \in Nat
      /\ \A link \in DOMAIN old.told :
            \/ old.told[link] \in {"failed", "unusable"}
            \/ old.told[link] = "empty" /\ SaidNothing(answered, Chain[link], old.request.query, clock)
  BY <1>1, <1>2, KnownOf
<1>6. call = Ended(old.request, old.told, result) OBVIOUS
<1> HIDE DEF old, call
<1>7. old.told \in Seq(LinkOutcomes) /\ old.request \in WebRequests BY <1>5 DEF WebCall
<1>8. \/ result = "empty" /\ \E link \in DOMAIN old.told : old.told[link] = "empty"
      \/ result = "error" /\ \A link \in DOMAIN old.told : old.told[link] # "empty"
  <2>1. DOMAIN old.told = 1 .. Len(old.told) BY <1>7
  <2>2. QED BY <2>1, Zenon DEF Contains
<1>9. result \in WebResults BY DEF WebResults
<1> HIDE DEF result
<1>10. /\ call.at = "ended" /\ call.request = old.request /\ call.told = old.told /\ call.result = result
       /\ call.ended = clock
  BY <1>5, <1>6, <1>7, <1>9, EndedIs
<1>11. call.at \notin Hopping BY <1>10 DEF Hopping
<1>12. CASE result = "empty"
  <2>1. \E link \in DOMAIN old.told : SaidNothing(answered, Chain[link], old.request.query, clock)
    BY <1>5, <1>8, <1>12
  <2>2. Searched(call, answered, clock) BY <1>5, <1>10, <1>11, <1>12, <2>1 DEF Searched
  <2>3. QED BY <1>3, <1>4, <2>2, OnlyMoves
<1>13. CASE result = "error"
  <2>1. \A link \in DOMAIN old.told : old.told[link] \in {"failed", "unusable"}
    BY <1>5, <1>8, <1>13, Zenon
  <2>2. Searched(call, answered, clock) BY <1>5, <1>10, <1>11, <1>13, <2>1 DEF Searched
  <2>3. QED BY <1>3, <1>4, <2>2, OnlyMoves
<1>14. QED BY <1>8, <1>12, <1>13

\* A provider is asked, and what the cache had of it goes.
LEMMA AskProviderKnown ==
    ASSUME SearchInv, GuardedInv', NEW c \in WebCalls, AskProvider(c)
    PROVE  SearchInv'
<1> DEFINE old == webCalls[c]
           name == NextName(c)
           url == ProviderUrls[name]
           method == IF name = "exa" THEN "POST" ELSE "GET"
           body == IF name = "exa" THEN "text" ELSE "none"
           failed == "failed"
           asking == [old EXCEPT !.at = "resolve", !.url = url, !.hop = 0, !.method = method, !.body = body]
           blank == [old EXCEPT !.at = "link", !.told = Append(@, failed)]
<1>1. old.at = "link" /\ Usable(name) BY DEF AskProvider, AtLink, Is
<1>2. old.request.tool = "search" BY <1>1, AtLinkIs
<1>3. UNCHANGED <<webConfig, clock, answered>> BY DEF AskProvider
<1>4. cache' \in Seq(Entries(answered'))
  <2> DEFINE E == Entries(answered)
  <2>1. cache \in Seq(E) BY DEF SearchInv
  <2>2. cache' = IF CacheTtl = 0 THEN cache ELSE Without(Key(c, name)) BY Zenon DEF AskProvider
  <2>3. E = Entries(answered') BY <1>3
  <2> HIDE DEF E
  <2>4. cache' \in Seq(E) BY <2>1, <2>2, WithoutIs
  <2>5. QED BY <2>3, <2>4
<1>5. AnswersInv' BY <1>3 DEF SearchInv, AnswersInv
<1>6. answered \subseteq answered' BY <1>3
<1>7. Becomes(c, blank) \/ Becomes(c, asking) BY Zenon DEF AskProvider, Tells
<1>8. CASE Becomes(c, blank)
  <2>1. failed \in LinkOutcomes /\ failed \in {"failed", "unusable"} BY DEF LinkOutcomes
  <2>2. blank = [webCalls[c] EXCEPT !.at = "link", !.told = Append(@, failed)] OBVIOUS
  <2> HIDE DEF blank, failed
  <2>3. Searched(blank, answered', clock) BY <1>1, <1>2, <1>6, <2>1, <2>2, TellsKnown
  <2>4. QED BY <1>3, <1>4, <1>5, <1>6, <1>8, <2>3, SearchedMoves
<1>9. CASE Becomes(c, asking)
  <2>1. /\ old \in WebCall /\ old.ended <= clock /\ old.result = "none"
        /\ \A link \in DOMAIN old.told :
              \/ old.told[link] \in {"failed", "unusable"}
              \/ old.told[link] = "empty" /\ SaidNothing(answered', Chain[link], old.request.query, clock)
    BY <1>1, <1>2, <1>6, KnownOf
  <2>2. Usable(Chain[Len(old.told) + 1]) BY <1>1, Zenon DEF NextName
  <2> HIDE DEF old, name, url, method, body
  <2>3. /\ asking.at = "resolve" /\ asking.request = old.request /\ asking.told = old.told
        /\ asking.result = old.result /\ asking.ended = old.ended
    BY <2>1 DEF WebCall
  <2> HIDE DEF asking
  <2>4. asking.at \in Hopping BY <2>3 DEF Hopping
  <2>5. Searched(asking, answered', clock) BY <1>2, <2>1, <2>2, <2>3, <2>4 DEF Searched
  <2>6. QED BY <1>3, <1>4, <1>5, <1>6, <1>9, <2>5, SearchedMoves
<1>10. QED BY <1>7, <1>8, <1>9

\* A provider answers: what it says now is what the search tells or returns, and what the
\* cache keeps.
LEMMA ProviderAnswersKnown ==
    ASSUME SearchInv, GuardedInv', NEW c \in WebCalls, NEW response, ProviderAnswers(c, response)
    PROVE  SearchInv'
<1> DEFINE old == webCalls[c]
           name == NextName(c)
           query == old.request.query
           outcome == Outcome(name, Parsed(response))
           results == outcome = "found"
           answer == [key |-> Key(c, name), found |-> results, at |-> clock]
<1>1. old.at = "connected" /\ old.request.tool = "search" BY DEF ProviderAnswers, Is
<1>2. webConfig' = webConfig /\ clock' = clock BY DEF ProviderAnswers
<1>3. IF results THEN Finds(c, "found") ELSE Tells(c, outcome) BY Zenon DEF ProviderAnswers
<1>4. IF outcome = "failed" THEN UNCHANGED <<cache, answered>>
      ELSE cache' = CacheSet(Key(c, name), results) /\ answered' = answered \cup {answer}
  BY Zenon DEF ProviderAnswers
<1>5. outcome \in {"failed", "found", "empty"} BY OutcomeIs, Zenon
<1>6. Usable(name)
  <2>1. old.at \in Hopping BY <1>1 DEF Hopping
  <2>2. old.at # "idle" BY <1>1
  <2>3. Usable(Chain[Len(old.told) + 1]) BY <1>1, <2>1, <2>2, KnownOf
  <2>4. QED BY <2>3, Zenon DEF NextName
<1>7. Key(c, name) = [provider |-> name, query |-> query] BY DEF Key
<1>8. clock \in Nat /\ (\A a \in answered : a.at \in 0 .. clock /\ a.found \in BOOLEAN)
  BY DEF SearchInv, AnswersInv, GuardedInv, WebTypeOK
<1>9. CacheTtl \in Nat /\ CacheSize \in Nat BY WebAssumption
<1> HIDE DEF name, query, outcome
<1>10. answered \subseteq answered' BY <1>4
<1>11. cache' \in Seq(Entries(answered')) /\ AnswersInv'
  <2>1. CASE outcome = "failed" BY <1>2, <1>4, <2>1 DEF SearchInv, AnswersInv
  <2>2. CASE outcome # "failed"
    <3>1. \A a \in answered' : a.at \in 0 .. clock /\ a.found \in BOOLEAN
      <4>1. answer.at = clock /\ answer.found = results OBVIOUS
      <4>2. results \in BOOLEAN BY Zenon
      <4>3. answered' = answered \cup {answer} BY <1>4, <2>2
      <4>4. clock \in 0 .. clock BY <1>8
      <4> HIDE DEF answer, results
      <4>5. QED BY <1>8, <4>1, <4>2, <4>3, <4>4
    <3> DEFINE E == Entries(answered')
    <3>2. [key |-> Key(c, name), found |-> results, expiresAt |-> clock + CacheTtl] \in E
      <4>1. answer \in answered' BY <1>4, <2>2
      <4>2. answer.key = Key(c, name) /\ answer.found = results /\ answer.at = clock OBVIOUS
      <4> HIDE DEF answer
      <4>3. QED BY <4>1, <4>2 DEF Entries
    <3>3. cache \in Seq(E)
      <4>1. Seq(Entries(answered)) \subseteq Seq(E) BY <1>10, EntriesGrow
      <4>2. QED BY <4>1 DEF SearchInv
    <3> HIDE DEF E, results
    <3>4. CacheSet(Key(c, name), results) \in Seq(E) BY <1>9, <3>2, <3>3, CacheSetIs
    <3>5. cache' = CacheSet(Key(c, name), results) BY <1>4, <2>2
    <3>6. cache' \in Seq(Entries(answered')) BY <3>4, <3>5 DEF E
    <3>7. QED BY <1>2, <3>1, <3>6 DEF AnswersInv
  <2>3. QED BY <2>1, <2>2
<1>12. outcome # "failed" => answer \in answered' BY <1>4
<1>13. /\ answer.key = [provider |-> name, query |-> query] /\ answer.found = results
       /\ answer.at = clock /\ answer.at <= clock
  BY <1>7, <1>8
<1>14. old.at # "idle" /\ old.at # "ended" BY <1>1
<1> HIDE DEF answer
<1>15. CASE outcome = "found"
  <2> DEFINE how == "found"
             call == Ended(old.request, Append(old.told, how), "found")
  <2>1. Becomes(c, call) BY <1>3, <1>15, Zenon DEF Finds
  <2>2. how \in LinkOutcomes BY DEF LinkOutcomes
  <2>3. results = TRUE BY <1>15
  <2>4. SaidResults(answered', name, query, clock) BY <1>6, <1>12, <1>13, <1>15, <2>3, Zenon DEF SaidResults
  <2>5. SaidResults(answered', NextName(c), webCalls[c].request.query, clock) BY <2>4 DEF name, query
  <2>6. call = Ended(webCalls[c].request, Append(webCalls[c].told, how), "found") OBVIOUS
  <2> HIDE DEF how, call
  <2>7. Searched(call, answered', clock) BY <1>1, <1>14, <2>2, <2>5, <2>6, FindsKnown
  <2>8. QED BY <1>2, <1>10, <1>11, <2>1, <2>7, SearchedMoves
<1>16. CASE outcome # "found"
  <2> DEFINE call == [old EXCEPT !.at = "link", !.told = Append(@, outcome)]
  <2>1. Becomes(c, call) BY <1>3, <1>16, Zenon DEF Tells
  <2>2. outcome \in LinkOutcomes BY <1>5 DEF LinkOutcomes
  <2>3. results = FALSE BY <1>16
  <2>4. outcome = "empty" => SaidNothing(answered', name, query, clock)
    BY <1>6, <1>12, <1>13, <2>3, Zenon DEF SaidNothing
  <2>5. \/ outcome \in {"failed", "unusable"}
        \/ outcome = "empty" /\ SaidNothing(answered', NextName(c), webCalls[c].request.query, clock)
    BY <1>5, <1>16, <2>4 DEF name, query
  <2>6. call = [webCalls[c] EXCEPT !.at = "link", !.told = Append(@, outcome)] OBVIOUS
  <2> HIDE DEF call
  <2>7. Searched(call, answered', clock) BY <1>1, <1>10, <1>14, <2>2, <2>5, <2>6, TellsKnown
  <2>8. QED BY <1>2, <1>10, <1>11, <2>1, <2>7, SearchedMoves
<1>17. QED BY <1>15, <1>16

\* Every step keeps what a search knows.
LEMMA SearchStep == SearchInv /\ [WebNext]_webVars => SearchInv'
<1> SUFFICES ASSUME SearchInv, [WebNext]_webVars PROVE SearchInv' OBVIOUS
<1>1. GuardedInv /\ GuardedInv'
  <2>1. GuardedInv BY DEF SearchInv
  <2>2. QED BY <2>1, GuardedStep
<1>2. ASSUME webConfig' = webConfig, webCalls' = webCalls, cache' = cache, answered' = answered,
             clock' \in Nat, clock <= clock'
      PROVE  SearchInv'
  <2>1. clock \in Nat /\ (\A a \in answered : a.at \in Nat) /\ answered \subseteq answered
    BY DEF SearchInv, AnswersInv, GuardedInv, WebTypeOK
  <2>2. ASSUME NEW c \in WebCalls PROVE Searched(webCalls[c], answered, clock)'
    <3>1. webCalls[c] \in WebCall \cup {NoCall} /\ Searched(webCalls[c], answered, clock)
      BY DEF SearchInv, GuardedInv, WebTypeOK
    <3>2. webCalls[c] \in WebCall => Searched(webCalls[c], answered, clock')
      BY <1>2, <2>1, <3>1, SearchedStays
    <3>3. webCalls[c] = NoCall => Searched(webCalls[c], answered, clock') BY Zenon DEF Searched
    <3>4. Searched(webCalls'[c], answered', clock') BY <1>2, <3>1, <3>2, <3>3
    <3>5. QED BY <1>2, <3>4, SearchedKept, Zenon
  <2>3. AnswersInv' BY <1>2, <2>1 DEF SearchInv, AnswersInv
  <2>4. cache' \in Seq(Entries(answered)') BY <1>2 DEF SearchInv, Entries
  <2>5. QED BY <1>1, <2>2, <2>3, <2>4 DEF SearchInv
<1>3. clock \in Nat BY <1>1 DEF GuardedInv, WebTypeOK
<1>4. CASE UNCHANGED webVars \/ TimePasses \/ \E name \in HostNames, answer \in DnsAnswers : DnsChanges(name, answer)
  <2>1. /\ webConfig' = webConfig /\ webCalls' = webCalls /\ cache' = cache /\ answered' = answered
        /\ clock' = clock \/ clock' = clock + 1
    BY <1>4, Zenon DEF webVars, TimePasses, DnsChanges
  <2>2. clock' \in Nat /\ clock <= clock' BY <1>3, <2>1
  <2>3. QED BY <1>2, <2>1, <2>2
<1>5. ASSUME NEW c \in WebCalls, NEW request \in WebRequests,
             CallRequest(c, request) \/ CallFetch(c, request) \/ CallSearch(c, request)
      PROVE  SearchInv'
  <2>1. UNCHANGED <<webConfig, cache, clock, answered>>
    BY <1>5 DEF CallRequest, CallFetch, CallSearch, OnlyCalls
  <2>2. \E place \in WebPlaces, result \in {"none", "error", "thrown"} :
           /\ Becomes(c, NewCall(request, place, result))
           /\ place \notin Hopping \/ request.tool # "search"
           /\ place # "ended" => result = "none"
    <3>1. /\ "ended" \in WebPlaces \ Hopping /\ "link" \in WebPlaces \ Hopping /\ "asking" \in WebPlaces \ Hopping
          /\ "resolve" \in WebPlaces
      BY DEF WebPlaces, Hopping
    <3>2. CASE CallRequest(c, request) BY <1>5, <3>1, <3>2, Zenon DEF CallRequest
    <3>3. CASE CallFetch(c, request) BY <1>5, <3>1, <3>3, Zenon DEF CallFetch
    <3>4. CASE CallSearch(c, request) BY <1>5, <3>1, <3>4, Zenon DEF CallSearch
    <3>5. QED BY <1>5, <3>2, <3>3, <3>4
  <2>3. QED BY <1>1, <1>5, <2>1, <2>2, BeginsKnown
<1>6. ASSUME NEW c \in WebCalls, NEW yes \in BOOLEAN, OwnerAnswers(c, yes) PROVE SearchInv'
  <2>1. UNCHANGED <<webConfig, cache, clock, answered>> BY <1>6 DEF OwnerAnswers, OnlyCalls
  <2>2. webCalls[c].at = "asking" BY <1>6 DEF OwnerAnswers, Is
  <2>3. webCalls[c] \in WebCall /\ webCalls[c].request.tool = "request"
    BY <1>1, <2>2, UnderWay DEF Guarded
  <2>4. PICK call : Becomes(c, call) /\ call.request = webCalls[c].request
    <3>1. Ended(webCalls[c].request, webCalls[c].told, "thrown").request = webCalls[c].request
      BY DEF Ended, NewCall
    <3>2. [webCalls[c] EXCEPT !.at = "resolve", !.approved = TRUE].request = webCalls[c].request
      BY <2>3 DEF WebCall
    <3>3. QED BY <1>6, <3>1, <3>2, Zenon DEF OwnerAnswers, EndsAs
  <2>5. call.request.tool # "search" BY <2>3, <2>4
  <2>6. Searched(call, answered, clock) BY <2>5, NoSearch
  <2>7. QED BY <1>1, <2>1, <2>4, <2>6, OnlyMoves
<1>7. ASSUME NEW c \in WebCalls, Resolve(c) PROVE SearchInv'
  <2> DEFINE old == webCalls[c]
             pin == Head(Lookup(webCalls[c].url))
             call == [old EXCEPT !.at = "curl", !.pinned = pin]
  <2>1. UNCHANGED <<webConfig, cache, clock, answered>> BY <1>7 DEF Resolve, OnlyCalls
  <2>2. old.at = "resolve" BY <1>7 DEF Resolve, Is
  <2>3. Becomes(c, call) \/ Fails(c, "error") BY <1>7, Zenon DEF Resolve
  <2>4. CASE Fails(c, "error") BY <1>1, <2>1, <2>2, <2>4, FailsKnown
  <2>5. CASE Becomes(c, call)
    <3>1. old \in WebCall BY <1>1, <2>2, UnderWay
    <3>2. old.at \in Hopping BY <2>2 DEF Hopping
    <3> HIDE DEF old, pin
    <3>3. /\ call.at = "curl" /\ call.request = old.request /\ call.told = old.told
          /\ call.result = old.result /\ call.ended = old.ended
      BY <3>1 DEF WebCall
    <3> HIDE DEF call
    <3>4. call.at \in Hopping BY <3>3 DEF Hopping
    <3>5. QED BY <1>1, <2>1, <2>5, <3>2, <3>3, <3>4, HopKnown DEF old
  <2>6. QED BY <2>3, <2>4, <2>5
<1>8. ASSUME NEW c \in WebCalls, Curl(c) PROVE SearchInv'
  <2> DEFINE old == webCalls[c]
             call == [old EXCEPT !.at = "connected", !.reached = old.pinned]
  <2>1. UNCHANGED <<webConfig, cache, clock, answered>> BY <1>8 DEF Curl, OnlyCalls
  <2>2. old.at = "curl" BY <1>8 DEF Curl, Is
  <2>3. Becomes(c, call) BY <1>8, Zenon DEF Curl
  <2>4. old \in WebCall BY <1>1, <2>2, UnderWay
  <2>5. old.at \in Hopping BY <2>2 DEF Hopping
  <2> HIDE DEF old
  <2>6. /\ call.at = "connected" /\ call.request = old.request /\ call.told = old.told
        /\ call.result = old.result /\ call.ended = old.ended
    BY <2>4 DEF WebCall
  <2> HIDE DEF call
  <2>7. call.at \in Hopping BY <2>6 DEF Hopping
  <2>8. QED BY <1>1, <2>1, <2>3, <2>5, <2>6, <2>7, HopKnown DEF old
<1>9. ASSUME NEW c \in WebCalls, NEW response \in Responses, Redirected(c, response) PROVE SearchInv'
  <2> DEFINE old == webCalls[c]
             call == NextHop(old, Parsed(response))
  <2>1. UNCHANGED <<webConfig, cache, clock, answered>> BY <1>9 DEF Redirected, OnlyCalls
  <2>2. old.at = "connected" BY <1>9 DEF Redirected, Is
  <2>3. Becomes(c, call) \/ Fails(c, "error") \/ Fails(c, "thrown") BY <1>9, Zenon DEF Redirected
  <2>4. CASE Fails(c, "error") \/ Fails(c, "thrown") BY <1>1, <2>1, <2>2, <2>4, FailsKnown
  <2>5. CASE Becomes(c, call)
    <3>1. old \in WebCall BY <1>1, <2>2, UnderWay
    <3>2. old.at \in Hopping BY <2>2 DEF Hopping
    <3> DEFINE demoted == old.request.tool = "request" /\ Parsed(response).status \in {301, 302, 303}
               method == IF demoted THEN "GET" ELSE old.method
               body == IF demoted THEN "none" ELSE old.body
               url == Parsed(response).redirect
    <3>3. call = [old EXCEPT !.at = "resolve", !.url = url, !.hop = old.hop + 1, !.method = method, !.body = body]
      BY Zenon DEF NextHop
    <3> HIDE DEF old, call, url, method, body, demoted
    <3>4. /\ call.at = "resolve" /\ call.request = old.request /\ call.told = old.told
          /\ call.result = old.result /\ call.ended = old.ended
      BY <3>1, <3>3 DEF WebCall
    <3>5. call.at \in Hopping BY <3>4 DEF Hopping
    <3>6. QED BY <1>1, <2>1, <2>5, <3>2, <3>4, <3>5, HopKnown DEF old
  <2>6. QED BY <2>3, <2>4, <2>5
<1>10. ASSUME NEW c \in WebCalls, NEW response \in Responses, Returns(c, response) PROVE SearchInv'
  <2>1. UNCHANGED <<webConfig, cache, clock, answered>> BY <1>10 DEF Returns, OnlyCalls
  <2>2. PICK result : Becomes(c, Ended(webCalls[c].request, webCalls[c].told, result))
    BY <1>10, Zenon DEF Returns, EndsAs
  <2> DEFINE call == Ended(webCalls[c].request, webCalls[c].told, result)
  <2>3. call.request = webCalls[c].request BY DEF Ended, NewCall
  <2>4. call.request.tool # "search" BY <1>10, <2>3 DEF Returns
  <2>5. Becomes(c, call) BY <2>2
  <2> HIDE DEF call
  <2>6. Searched(call, answered, clock) BY <2>4, NoSearch
  <2>7. QED BY <1>1, <2>1, <2>5, <2>6, OnlyMoves
<1>11. ASSUME NEW c \in WebCalls, NEW how \in {"error", "thrown"}, CurlFails(c, how) PROVE SearchInv'
  <2>1. UNCHANGED <<webConfig, cache, clock, answered>> BY <1>11 DEF CurlFails
  <2>2. webCalls[c].at # "idle" /\ webCalls[c].at # "ended" BY <1>11 DEF CurlFails, Is
  <2>3. Fails(c, how) BY <1>11 DEF CurlFails
  <2>4. QED BY <1>1, <2>1, <2>2, <2>3, FailsKnown
<1>12. ASSUME NEW c \in WebCalls, NEW response \in Responses, ProviderAnswers(c, response) PROVE SearchInv'
  BY <1>1, <1>12, ProviderAnswersKnown
<1>13. ASSUME NEW c \in WebCalls, SkipLink(c) \/ CacheHit(c) \/ AskProvider(c) \/ ChainEnds(c) PROVE SearchInv'
  BY <1>1, <1>13, SkipLinkKnown, CacheHitKnown, AskProviderKnown, ChainEndsKnown
<1>14. QED
  BY <1>4, <1>5, <1>6, <1>7, <1>8, <1>9, <1>10, <1>11, <1>12, <1>13, Zenon DEF WebNext

\* At the start nothing was answered and nothing is cached.
LEMMA SearchInit == WebInit => SearchInv
<1> SUFFICES ASSUME WebInit PROVE SearchInv OBVIOUS
<1>1. \A c \in WebCalls : webCalls[c] = NoCall BY DEF WebInit
<1>2. \A c \in WebCalls : Searched(webCalls[c], answered, clock) BY <1>1, Zenon DEF Searched
<1>3. answered = {} /\ cache = <<>> BY DEF WebInit
<1>4. QED BY <1>2, <1>3, GuardedInit DEF SearchInv, AnswersInv

\* A search returns what a usable provider of its chain answered to that query, fresh or less
\* than CacheTtl old, and no results only where one answered with nothing, however many
\* searches share the cache and whatever fails.
THEOREM SearchesAreHonest == WebSpec => []SearchHonest
<1>1. SearchInv => SearchHonest
  <2> SUFFICES ASSUME SearchInv, NEW c \in WebCalls, webCalls[c] # NoCall, webCalls[c].request.tool = "search"
               PROVE  LET call == webCalls[c]
                          Backed(link, found) ==
                              \E a \in answered :
                                  /\ a.key = Key(c, Chain[link]) /\ a.found = found /\ Usable(Chain[link])
                                  /\ a.at <= call.ended
                                  /\ found => a.at = call.ended \/ call.ended < a.at + CacheTtl
                      IN  /\ call.result = "found" => Backed(Len(call.told), TRUE)
                          /\ call.result = "empty" => \E link \in DOMAIN call.told : Backed(link, FALSE)
                          /\ call.result = "error" =>
                                \A link \in DOMAIN call.told : call.told[link] \in {"failed", "unusable"}
    BY Zenon DEF SearchHonest
  <2>1. Searched(webCalls[c], answered, clock) BY DEF SearchInv
  <2>2. QED BY <2>1, Zenon DEF Searched, SaidResults, SaidNothing, Key
<1>2. QED BY <1>1, SearchInit, SearchStep, PTL DEF WebSpec

-----------------------------------------------------------------------------
(* Archives: what paths lead to.                                            *)

Nodes == [kind : {"nothing", "directory", "file", "symlink"}, by : Extractions \cup {Unset},
          size : Nat, to : PathNames]
Trees == [TreePaths -> Nodes]

\* What is said of the tree is said of the tree that is, and of the next one.
LEMMA InTheTree ==
    /\ \A p : NodeAt(p) = AtIn(tree, p) /\ NodeAt(p)' = AtIn(tree', p)
    /\ \A p : Real(p) = RealIn(tree, p) /\ Real(p)' = RealIn(tree', p)
    /\ \A p : Located(p) = LocatedIn(tree, p) /\ Located(p)' = LocatedIn(tree', p)
BY DEF NodeAt, Real, Located

\* The directories of a path are paths.
LEMMA Fronts ==
    ASSUME NEW S, NEW p \in Seq(S)
    PROVE  /\ Front(p) \in Seq(S) /\ (p # <<>> => Len(Front(p)) = Len(p) - 1 /\ Last(p) \in S)
           /\ \A i \in 0 .. Len(p) : SubSeq(p, 1, i) \in Seq(S) /\ Len(SubSeq(p, 1, i)) = i
           /\ \A i \in 1 .. Len(p) : Front(SubSeq(p, 1, i)) = SubSeq(p, 1, i - 1)
           /\ \A i \in 0 .. Len(p), j \in 0 .. Len(p) : j <= i => SubSeq(SubSeq(p, 1, i), 1, j) = SubSeq(p, 1, j)
           /\ \A s \in S : Front(Append(p, s)) = p
<1>1. Front(p) \in Seq(S) /\ (p # <<>> => Len(Front(p)) = Len(p) - 1 /\ Last(p) \in S)
  <2>1. Len(p) \in Nat /\ (p # <<>> => Len(p) # 0) OBVIOUS
  <2>2. CASE p = <<>> BY <2>2 DEF Front
  <2>3. CASE p # <<>>
    <3>1. Len(p) \in 1 .. Len(p) /\ Len(p) - 1 \in Nat BY <2>1, <2>3
    <3>2. p[Len(p)] \in S BY <3>1
    <3>3. Front(p) = SubSeq(p, 1, Len(p) - 1) BY DEF Front
    <3>4. \A n \in Nat : n <= Len(p) => SubSeq(p, 1, n) \in Seq(S) /\ Len(SubSeq(p, 1, n)) = n OBVIOUS
    <3>5. Front(p) \in Seq(S) /\ Len(Front(p)) = Len(p) - 1
      <4> DEFINE n == Len(p) - 1
      <4>1. n \in Nat /\ n <= Len(p) BY <2>1, <3>1
      <4>2. Front(p) = SubSeq(p, 1, n) BY <3>3
      <4> HIDE DEF n
      <4>3. Front(p) \in Seq(S) /\ Len(Front(p)) = n BY <3>4, <4>1, <4>2
      <4>4. QED BY <4>3 DEF n
    <3>6. QED BY <3>2, <3>5 DEF Last
  <2>4. QED BY <2>2, <2>3
<1>2. \A i \in 0 .. Len(p) : SubSeq(p, 1, i) \in Seq(S) /\ Len(SubSeq(p, 1, i)) = i
  OBVIOUS
<1>3. \A i \in 0 .. Len(p), j \in 0 .. Len(p) : j <= i => SubSeq(SubSeq(p, 1, i), 1, j) = SubSeq(p, 1, j)
  OBVIOUS
<1>4. \A i \in 1 .. Len(p) : Front(SubSeq(p, 1, i)) = SubSeq(p, 1, i - 1)
  BY <1>2, <1>3 DEF Front
<1>5. \A s \in S : Front(Append(p, s)) = p
  BY DEF Front
<1>6. QED BY <1>1, <1>2, <1>3, <1>4, <1>5

\* A path and one that is above it, or below it.
Beside(p, q) == IsPrefix(p, q) \/ IsPrefix(q, p)

\* A path with a segment more, or less, and what is above both.
LEMMA PathsAbove ==
    ASSUME NEW S, NEW d \in Seq(S)
    PROVE  /\ IsPrefix(d, d) /\ IsPrefix(<<>>, d) /\ IsPrefix(Front(d), d)
           /\ \A s \in S : IsPrefix(d, Append(d, s))
           /\ \A i \in 0 .. Len(d) : IsPrefix(SubSeq(d, 1, i), d)
           /\ \A q \in Seq(S), i \in 0 .. Len(d) : Beside(q, d) => Beside(q, SubSeq(d, 1, i))
           /\ \A q \in Seq(S) : IsPrefix(d, q) => \A i \in 0 .. Len(d) : IsPrefix(SubSeq(d, 1, i), q)
<1>1. Len(d) \in Nat /\ SubSeq(d, 1, Len(d)) = d
  <2>1. Len(d) \in Nat OBVIOUS
  <2>2. SubSeq(d, 1, Len(d)) = d BY SubSeqFull
  <2>3. QED BY <2>1, <2>2
<1>2. \A i \in 0 .. Len(d) : SubSeq(d, 1, i) \in Seq(S) /\ Len(SubSeq(d, 1, i)) = i BY Fronts
<1>3. \A i \in 0 .. Len(d), j \in 0 .. Len(d) : j <= i => SubSeq(SubSeq(d, 1, i), 1, j) = SubSeq(d, 1, j)
  BY Fronts
<1>4. \A i \in 0 .. Len(d) : IsPrefix(SubSeq(d, 1, i), d)
  <2> TAKE i \in 0 .. Len(d)
  <2>1. SubSeq(SubSeq(d, 1, i), 1, i) = SubSeq(d, 1, i) /\ Len(SubSeq(d, 1, i)) = i /\ i <= Len(d)
    BY <1>1, <1>2, <1>3
  <2>2. QED BY <2>1 DEF IsPrefix
<1>5. IsPrefix(d, d)
  <2>1. Len(d) \in 0 .. Len(d) BY <1>1
  <2>2. QED BY <1>1, <1>4, <2>1
<1>6. IsPrefix(<<>>, d)
  <2>1. 0 \in 0 .. Len(d) BY <1>1
  <2>2. SubSeq(d, 1, 0) = <<>> BY <1>2, <2>1
  <2>3. QED BY <1>4, <2>1, <2>2
<1>7. IsPrefix(Front(d), d)
  <2>1. CASE d = <<>>
    <3>1. SubSeq(<<>>, 1, Len(<<>>) - 1) = <<>> OBVIOUS
    <3>2. Front(d) = <<>> BY <2>1, <3>1 DEF Front
    <3>3. QED BY <1>6, <3>2
  <2>2. CASE d # <<>>
    <3>1. Len(d) - 1 \in 0 .. Len(d) BY <1>1, <2>2
    <3>2. QED BY <1>4, <3>1 DEF Front
  <2>3. QED BY <2>1, <2>2
<1>8. \A s \in S : IsPrefix(d, Append(d, s))
  <2> TAKE s \in S
  <2> DEFINE z == Append(d, s)
  <2>1. z \in Seq(S) /\ Len(z) = Len(d) + 1 /\ \A i \in 1 .. Len(d) : z[i] = d[i] OBVIOUS
  <2> HIDE DEF z
  <2>2. SubSeq(z, 1, Len(d)) = d BY <1>1, <2>1
  <2>3. Len(d) <= Len(z) BY <1>1, <2>1
  <2>4. IsPrefix(d, z) BY <1>1, <2>2, <2>3 DEF IsPrefix
  <2>5. QED BY <2>4 DEF z
<1>9. ASSUME NEW q \in Seq(S), IsPrefix(d, q), NEW i \in 0 .. Len(d) PROVE IsPrefix(SubSeq(d, 1, i), q)
  <2>1. Len(q) \in Nat /\ Len(d) <= Len(q) /\ SubSeq(q, 1, Len(d)) = d BY <1>1, <1>9 DEF IsPrefix
  <2>2. i \in 0 .. Len(q) /\ Len(d) \in 0 .. Len(q) /\ i <= Len(d) BY <1>1, <2>1
  <2>3. SubSeq(SubSeq(q, 1, Len(d)), 1, i) = SubSeq(q, 1, i) BY <2>2, Fronts
  <2>4. SubSeq(d, 1, i) = SubSeq(q, 1, i) BY <2>1, <2>3
  <2>5. Len(SubSeq(d, 1, i)) = i /\ SubSeq(SubSeq(d, 1, i), 1, i) = SubSeq(d, 1, i) BY <1>1, <1>2, <1>3
  <2>6. QED BY <2>2, <2>4, <2>5 DEF IsPrefix
<1>10. ASSUME NEW q \in Seq(S), NEW i \in 0 .. Len(d), Beside(q, d) PROVE Beside(q, SubSeq(d, 1, i))
  <2>1. CASE IsPrefix(d, q) BY <1>9, <2>1 DEF Beside
  <2>2. CASE IsPrefix(q, d)
    <3>1. Len(q) \in Nat /\ Len(q) <= Len(d) /\ SubSeq(q, 1, Len(q)) = q /\ SubSeq(d, 1, Len(q)) = q
      BY <2>2 DEF IsPrefix
    <3>2. Len(q) \in 0 .. Len(d) BY <1>1, <3>1
    <3>3. CASE Len(q) <= i
      <4>1. SubSeq(SubSeq(d, 1, i), 1, Len(q)) = SubSeq(d, 1, Len(q)) BY <1>3, <3>2, <3>3
      <4>2. QED BY <1>2, <3>1, <3>3, <4>1 DEF IsPrefix, Beside
    <3>4. CASE ~ (Len(q) <= i)
      <4>1. i \in 0 .. Len(q) /\ i <= Len(q) BY <3>1, <3>4
      <4>2. SubSeq(SubSeq(d, 1, Len(q)), 1, i) = SubSeq(d, 1, i) BY <1>3, <3>2, <4>1
      <4>3. SubSeq(q, 1, i) = SubSeq(d, 1, i) BY <3>1, <4>2
      <4>4. SubSeq(SubSeq(d, 1, i), 1, i) = SubSeq(d, 1, i) /\ Len(SubSeq(d, 1, i)) = i BY <1>2, <1>3
      <4>5. QED BY <4>1, <4>3, <4>4 DEF IsPrefix, Beside
    <3>5. QED BY <3>3, <3>4
  <2>3. QED BY <1>10, <2>1, <2>2 DEF Beside
<1>11. \A q \in Seq(S), i \in 0 .. Len(d) : Beside(q, d) => Beside(q, SubSeq(d, 1, i)) BY <1>10
<1>12. \A q \in Seq(S) : IsPrefix(d, q) => \A i \in 0 .. Len(d) : IsPrefix(SubSeq(d, 1, i), q) BY <1>9
<1>13. QED BY <1>4, <1>5, <1>6, <1>7, <1>8, <1>11, <1>12

\* A sequence with one element more.
LEMMA OneElementMore ==
    ASSUME NEW S, NEW d \in Seq(S), NEW s \in S
    PROVE  /\ Append(d, s) \in Seq(S) /\ Len(Append(d, s)) = Len(d) + 1 /\ Append(d, s) = d \o <<s>>
           /\ (\A j \in 1 .. Len(d) : Append(d, s)[j] = d[j]) /\ Append(d, s)[Len(d) + 1] = s
           /\ <<s>> \in Seq(S) /\ Front(Append(d, s)) = d /\ Last(Append(d, s)) = s
<1>1. Append(d, s) = d \o <<s>> BY AppendIsConcat
<1>2. <<s>> \in Seq(S) OBVIOUS
<1>3. Front(Append(d, s)) = d BY Fronts
<1>4. /\ Append(d, s) \in Seq(S) /\ Len(Append(d, s)) = Len(d) + 1
      /\ (\A j \in 1 .. Len(d) : Append(d, s)[j] = d[j]) /\ Append(d, s)[Len(d) + 1] = s
  BY AppendProperties
<1>5. Last(Append(d, s)) = s BY <1>4 DEF Last
<1>6. QED BY <1>1, <1>2, <1>3, <1>4, <1>5

\* A path with one segment more.
LEMMA OneMore ==
    ASSUME NEW d \in Seq(STRING), NEW s \in STRING
    PROVE  /\ Append(d, s) \in Seq(STRING) /\ Len(Append(d, s)) = Len(d) + 1 /\ Append(d, s) = d \o <<s>>
           /\ (\A j \in 1 .. Len(d) : Append(d, s)[j] = d[j]) /\ Append(d, s)[Len(d) + 1] = s
           /\ <<s>> \in Seq(STRING) /\ Front(Append(d, s)) = d /\ Last(Append(d, s)) = s
BY OneElementMore, Zenon

\* Names in paths: with a name more, and above them.
LEMMA PlainFronts ==
    ASSUME NEW p \in PlainPaths
    PROVE  /\ p \in PathNames /\ Front(p) \in PlainPaths
           /\ p # <<>> => Last(p) \in STRING \ Dots /\ p = Append(Front(p), Last(p))
           /\ \A s \in STRING \ Dots : Append(p, s) \in PlainPaths
           /\ \A q \in PathNames : IsPrefix(q, p) => q \in PlainPaths
<1>1. p \in Seq(STRING) /\ Len(p) \in Nat /\ DOMAIN p = 1 .. Len(p) /\ \A i \in 1 .. Len(p) : p[i] \notin Dots
  BY DEF PlainPaths, PathNames
<1>2. ASSUME NEW q \in Seq(STRING), IsPrefix(q, p) PROVE q \in PlainPaths
  <2>1. Len(q) \in Nat /\ Len(q) <= Len(p) /\ SubSeq(q, 1, Len(q)) = SubSeq(p, 1, Len(q)) BY <1>2 DEF IsPrefix
  <2>2. \A i \in 1 .. Len(q) : q[i] = p[i]
    <3>1. SubSeq(q, 1, Len(q)) = q OBVIOUS
    <3>2. \A i \in 1 .. Len(q) : SubSeq(p, 1, Len(q))[i] = p[i] BY <1>1, <2>1
    <3>3. QED BY <2>1, <3>1, <3>2
  <2>3. \A i \in 1 .. Len(q) : i \in 1 .. Len(p) BY <1>1, <2>1
  <2>4. DOMAIN q = 1 .. Len(q) OBVIOUS
  <2>5. QED BY <1>1, <2>2, <2>3, <2>4 DEF PlainPaths, PathNames
<1>3. Front(p) \in Seq(STRING) /\ IsPrefix(Front(p), p)
  <2>1. p \in Seq(STRING) BY <1>1
  <2>2. Front(p) \in Seq(STRING) BY <2>1, Fronts
  <2>3. IsPrefix(Front(p), p)
    <3>1. \A d \in Seq(STRING) : IsPrefix(Front(d), d) BY PathsAbove
    <3>2. QED BY <2>1, <3>1
  <2>4. QED BY <2>2, <2>3
<1>4. ASSUME p # <<>> PROVE Last(p) \in STRING \ Dots /\ p = Append(Front(p), Last(p))
  <2>1. Len(p) \in 1 .. Len(p) BY <1>1, <1>4
  <2>2. Last(p) = p[Len(p)] /\ p[Len(p)] \in STRING \ Dots BY <1>1, <2>1 DEF Last
  <2>3. p = Append(Front(p), Last(p))
    <3>1. Len(Front(p)) = Len(p) - 1 BY <1>1, <1>4, Fronts
    <3> DEFINE f == Front(p)
               s == Last(p)
    <3>2. f \in Seq(STRING) /\ s \in STRING /\ s = p[Len(p)] BY <1>3, <2>2
    <3>3. \A i \in 1 .. Len(p) - 1 : f[i] = p[i] BY <1>1, <1>4 DEF Front
    <3>4. Len(f) = Len(p) - 1 BY <3>1
    <3> HIDE DEF f, s
    <3> DEFINE z == Append(f, s)
    <3>5. z \in Seq(STRING) /\ Len(z) = Len(f) + 1 /\ (\A i \in 1 .. Len(f) : z[i] = f[i]) /\ z[Len(f) + 1] = s
      BY <3>2, AppendProperties
    <3> HIDE DEF z
    <3>6. Len(f) + 1 = Len(p) /\ \A i \in 1 .. Len(p) : i \in 1 .. Len(p) - 1 \/ i = Len(p)
      <4>1. \A n \in Nat : n - 1 + 1 = n /\ \A i \in 1 .. n : i \in 1 .. n - 1 \/ i = n OBVIOUS
      <4>2. QED BY <1>1, <3>4, <4>1
    <3>7. Len(z) = Len(p) /\ \A i \in 1 .. Len(p) : z[i] = p[i] BY <3>2, <3>3, <3>4, <3>5, <3>6
    <3>8. z = p BY <1>1, <3>5, <3>7, SeqEqual
    <3>9. QED BY <3>8 DEF f, s, z
  <2>4. QED BY <2>2, <2>3
<1>5. ASSUME NEW s \in STRING \ Dots PROVE Append(p, s) \in PlainPaths
  <2> DEFINE z == Append(p, s)
  <2>1. z \in Seq(STRING) /\ Len(z) = Len(p) + 1 /\ (\A i \in 1 .. Len(p) : z[i] = p[i]) /\ z[Len(p) + 1] = s
    <3>1. p \in Seq(STRING) /\ s \in STRING BY <1>1, <1>5
    <3>2. QED BY <3>1, OneMore
  <2> HIDE DEF z
  <2>2. \A i \in 1 .. Len(z) : i \in 1 .. Len(p) \/ i = Len(p) + 1 BY <1>1, <2>1
  <2>3. \A i \in 1 .. Len(z) : z[i] \notin Dots BY <1>1, <1>5, <2>1, <2>2
  <2>4. DOMAIN z = 1 .. Len(z) BY <2>1
  <2>5. z \in PlainPaths BY <2>1, <2>3, <2>4 DEF PlainPaths, PathNames
  <2>6. QED BY <2>5 DEF z
<1>6. QED BY <1>1, <1>2, <1>3, <1>4, <1>5 DEF PathNames

\* ".", ".." and the empty one are no segments, whatever the path they lead from; and one
\* segment leads no further than up or down.
LEMMA ResolvedType ==
    ASSUME NEW from \in PathNames, NEW name \in PathNames
    PROVE  /\ Resolved(from, name) \in PathNames
           /\ from \in PlainPaths => Resolved(from, name) \in PlainPaths
           /\ Len(name) <= 1 => Beside(from, Resolved(from, name))
<1> DEFINE n == Len(name)
           Next1(i, d) == CASE name[i] \in {".", ""} -> d
                           [] name[i] = ".." -> IF d = <<>> THEN <<>> ELSE Front(d)
                           [] OTHER -> Append(d, name[i])
           step == [v \in (1 .. n) \X PathNames |-> Next1(v[1], v[2])]
           Body(f) == [i \in 0 .. n |-> IF i = 0 THEN from ELSE Next1(i, f[i - 1])]
<1>1. n \in Nat /\ \A i \in 1 .. n : name[i] \in STRING BY DEF PathNames
<1>2. ASSUME NEW i \in 1 .. n, NEW d \in PathNames PROVE Next1(i, d) \in PathNames
  <2>1. Front(d) \in PathNames BY Fronts DEF PathNames
  <2>2. Append(d, name[i]) \in PathNames BY <1>1 DEF PathNames
  <2>3. <<>> \in PathNames BY DEF PathNames
  <2>4. QED BY <2>1, <2>2, <2>3
<1> HIDE DEF Next1
<1>3. step \in [(1 .. n) \X PathNames -> PathNames] BY <1>2
<1>4. PICK f \in [0 .. n -> PathNames] : f[0] = from /\ \A i \in 1 .. n : f[i] = step[<<i, f[i - 1]>>]
  <2> HIDE DEF step, n
  <2>1. FromTheStart(n, PathNames, from, step) BY <1>1, <1>3 DEF FromTheStart
  <2>2. QED BY <2>1, RecursionUp
<1>5. \A i \in 1 .. n : f[i] = Next1(i, f[i - 1])
  <2> HIDE DEF n
  <2>1. \A i \in 1 .. n : f[i - 1] \in PathNames BY <1>1, <1>4
  <2>2. QED BY <1>4, <2>1
<1>6. f = Body(f)
  <2> HIDE DEF n
  <2>1. \A i \in 0 .. n : f[i] = IF i = 0 THEN from ELSE Next1(i, f[i - 1]) BY <1>1, <1>4, <1>5
  <2>2. QED BY <1>4, <2>1
<1> DEFINE chosen == CHOOSE dir : dir = Body(dir)
<1>7. chosen = Body(chosen) BY <1>6
<1>8. Resolved(from, name) = chosen[n] BY DEF Resolved, Next1
<1> HIDE DEF chosen
<1>9. \A i \in 0 .. n : chosen[i] = IF i = 0 THEN from ELSE Next1(i, chosen[i - 1])
  <2> HIDE DEF n
  <2>1. QED BY <1>7
<1> DEFINE G == {i \in 0 .. n : chosen[i] \in PathNames}
<1>10. 0 \in G BY <1>1, <1>9
<1>11. ASSUME NEW i \in 1 .. n, i - 1 \in G PROVE i \in G BY <1>2, <1>9, <1>11
<1>12. 0 .. n \subseteq G
  <2> HIDE DEF G, n
  <2>1. QED BY <1>1, <1>10, <1>11, Upward
<1>13. n \in G
  <2> HIDE DEF G, n
  <2>1. QED BY <1>1, <1>12
<1>14. ASSUME from \in PlainPaths PROVE chosen[n] \in PlainPaths
  <2> DEFINE H == {i \in 0 .. n : chosen[i] \in PlainPaths}
  <2>1. 0 \in H BY <1>1, <1>9, <1>14
  <2>2. ASSUME NEW i \in 1 .. n, i - 1 \in H PROVE i \in H
    <3> DEFINE d == chosen[i - 1]
    <3>1. d \in PlainPaths /\ chosen[i] = Next1(i, d) BY <1>1, <1>9, <2>2
    <3>2. name[i] \in STRING BY <1>1
    <3> HIDE DEF d, n
    <3>3. Front(d) \in PlainPaths /\ <<>> \in PlainPaths
      <4>1. <<>> \in PlainPaths BY DEF PlainPaths, PathNames
      <4>2. QED BY <3>1, <4>1, PlainFronts
    <3>4. name[i] \notin {".", "", ".."} => Append(d, name[i]) \in PlainPaths BY <3>1, <3>2, PlainFronts DEF Dots
    <3>5. Next1(i, d) \in PlainPaths BY <3>1, <3>3, <3>4 DEF Next1
    <3>6. i \in 0 .. n BY <1>1
    <3>7. QED BY <3>1, <3>5, <3>6
  <2>3. 0 .. n \subseteq H
    <3> HIDE DEF H, n
    <3>1. QED BY <1>1, <2>1, <2>2, Upward
  <2>4. n \in H
    <3> HIDE DEF H, n
    <3>1. QED BY <1>1, <2>3
  <2>5. QED BY <2>4
<1>15. ASSUME n <= 1 PROVE Beside(from, chosen[n])
  <2>1. from \in Seq(STRING) BY DEF PathNames
  <2>2. IsPrefix(from, from) /\ IsPrefix(Front(from), from) /\ IsPrefix(<<>>, from)
        /\ \A s \in STRING : IsPrefix(from, Append(from, s))
    BY <2>1, PathsAbove
  <2>3. chosen[0] = from BY <1>1, <1>9
  <2>4. CASE n = 0 BY <2>2, <2>3, <2>4 DEF Beside
  <2>5. CASE n = 1
    <3>1. 1 \in 1 .. n /\ name[1] \in STRING /\ 1 - 1 = 0 BY <1>1, <2>5
    <3> HIDE DEF n
    <3>2. chosen[1] = Next1(1, from) BY <1>9, <2>3, <3>1
    <3>3. QED BY <2>2, <2>5, <3>1, <3>2 DEF Beside, Next1
  <2>6. n = 0 \/ n = 1 BY <1>1, <1>15
  <2>7. QED BY <2>4, <2>5, <2>6
<1>16. QED BY <1>8, <1>13, <1>14, <1>15

\* One turn on the way is taken.
On(t, q) == {i \in DOMAIN q : Turns(t, SubSeq(q, 1, i))}
Hopped(t, q) ==
    IF On(t, q) = {} THEN q
    ELSE Turned(t, SubSeq(q, 1, Min(On(t, q)))) \o SubSeq(q, Min(On(t, q)) + 1, Len(q))
Hops(hop, t, p) == hop[0] = p /\ \A k \in 1 .. MaxHops : hop[k] = Hopped(t, hop[k - 1])

\* The first turn on the way, where there is one.
LEMMA FirstOn ==
    ASSUME NEW t, NEW q \in PathNames, On(t, q) # {}
    PROVE  LET i == Min(On(t, q))
           IN  i \in On(t, q) /\ i \in 1 .. Len(q) /\ \A j \in 1 .. i - 1 : j \notin On(t, q)
<1> DEFINE T == On(t, q)
<1>1. DOMAIN q = 1 .. Len(q) /\ Len(q) \in Nat BY DEF PathNames
<1>2. T \in SUBSET Nat /\ T \subseteq 1 .. Len(q) BY <1>1 DEF On
<1> HIDE DEF T
<1>3. PICK d \in T : \A e \in T : d <= e BY <1>2, Least DEF T
<1>4. Min(T) \in T /\ \A e \in T : Min(T) <= e
  <2>1. \E x \in T : \A y \in T : x <= y BY <1>3
  <2>2. QED BY <2>1 DEF Min
<1>5. \A j \in 1 .. Min(T) - 1 : j \notin T
  <2> DEFINE m == Min(T)
  <2>1. m \in Nat /\ \A e \in T : m <= e /\ e \in Nat BY <1>2, <1>4
  <2> HIDE DEF m
  <2>2. \A j \in 1 .. m - 1 : j \notin T BY <2>1
  <2>3. QED BY <2>2 DEF m
<1>6. QED BY <1>2, <1>4, <1>5 DEF T

\* What a path turns into is a path.
LEMMA TurnedType ==
    ASSUME NEW t \in Trees, NEW p \in PathNames
    PROVE  AtIn(t, p) \in Nodes /\ Turned(t, p) \in PathNames
<1>1. AtIn(t, p) \in Nodes BY DEF AtIn, Trees, Nodes, Nothing, Directory, Node, PathNames
<1>2. AtIn(t, p).to \in PathNames BY <1>1 DEF Nodes
<1>3. Front(p) \in PathNames /\ Front(Front(p)) \in PathNames
  <2>1. \A q \in PathNames : Front(q) \in PathNames BY Fronts DEF PathNames
  <2>2. QED BY <2>1
<1>4. Front(p) \o AtIn(t, p).to \in PathNames
  <2> DEFINE a == Front(p)
             b == AtIn(t, p).to
  <2>1. a \in PathNames /\ b \in PathNames BY <1>2, <1>3
  <2> HIDE DEF a, b
  <2>2. a \o b \in PathNames BY <2>1 DEF PathNames
  <2>3. QED BY <2>2 DEF a, b
<1>5. QED BY <1>1, <1>2, <1>3, <1>4 DEF Turned

\* And so is where a turn leads from a path.
LEMMA HoppedType ==
    ASSUME NEW t \in Trees, NEW q \in PathNames
    PROVE  Hopped(t, q) \in PathNames
<1>1. CASE On(t, q) = {} BY <1>1 DEF Hopped
<1>2. CASE On(t, q) # {}
  <2> DEFINE i == Min(On(t, q))
  <2>1. i \in On(t, q) /\ i \in 1 .. Len(q) BY <1>2, FirstOn
  <2> HIDE DEF i
  <2>2. SubSeq(q, 1, i) \in PathNames /\ SubSeq(q, i + 1, Len(q)) \in PathNames BY <2>1 DEF PathNames
  <2>3. Turned(t, SubSeq(q, 1, i)) \in PathNames BY <2>2, TurnedType
  <2>4. Turned(t, SubSeq(q, 1, i)) \o SubSeq(q, i + 1, Len(q)) \in PathNames BY <2>2, <2>3 DEF PathNames
  <2>5. QED BY <1>2, <2>4 DEF Hopped, i
<1>3. QED BY <1>1, <1>2

\* Where a path leads is what the hops come to.
LEMMA RealIs ==
    ASSUME NEW t \in Trees, NEW p \in PathNames
    PROVE  \E hop \in [0 .. MaxHops -> PathNames] : Hops(hop, t, p) /\ RealIn(t, p) = hop[MaxHops]

<1> DEFINE n == MaxHops
           step == [v \in (1 .. n) \X PathNames |-> Hopped(t, v[2])]
           Body(f) == [k \in 0 .. n |-> IF k = 0 THEN p ELSE Hopped(t, f[k - 1])]
<1>1. n \in Nat BY ArchiveAssumption
<1>2. \A q \in PathNames : Hopped(t, q) \in PathNames BY HoppedType
<1>3. step \in [(1 .. n) \X PathNames -> PathNames] BY <1>2
<1>4. PICK f \in [0 .. n -> PathNames] : f[0] = p /\ \A i \in 1 .. n : f[i] = step[<<i, f[i - 1]>>]
  <2> HIDE DEF step, n
  <2>1. FromTheStart(n, PathNames, p, step) BY <1>1, <1>3 DEF FromTheStart
  <2>2. QED BY <2>1, RecursionUp
<1>5. \A i \in 1 .. n : f[i] = Hopped(t, f[i - 1])
  <2> HIDE DEF n
  <2>1. \A i \in 1 .. n : f[i - 1] \in PathNames BY <1>1, <1>4
  <2>2. QED BY <1>4, <2>1
<1>6. f = Body(f)
  <2> HIDE DEF n
  <2>1. \A i \in 0 .. n : f[i] = IF i = 0 THEN p ELSE Hopped(t, f[i - 1]) BY <1>1, <1>4, <1>5
  <2>2. QED BY <1>4, <2>1
<1> DEFINE chosen == CHOOSE hop : hop = Body(hop)
<1>7. chosen = Body(chosen) BY <1>6
<1>8. RealIn(t, p) = chosen[n] BY DEF RealIn, Hopped, On
<1> HIDE DEF chosen
<1>9. \A i \in 0 .. n : chosen[i] = IF i = 0 THEN p ELSE Hopped(t, chosen[i - 1])
  <2> HIDE DEF n
  <2>1. QED BY <1>7
<1> DEFINE G == {i \in 0 .. n : chosen[i] \in PathNames}
<1>10. 0 \in G BY <1>1, <1>9
<1>11. ASSUME NEW i \in 1 .. n, i - 1 \in G PROVE i \in G BY <1>2, <1>9, <1>11
<1>12. 0 .. n \subseteq G
  <2> HIDE DEF G, n
  <2>1. QED BY <1>1, <1>10, <1>11, Upward
<1>13. chosen \in [0 .. n -> PathNames]
  <2>1. \A i \in 0 .. n : chosen[i] \in PathNames BY <1>12
  <2> HIDE DEF n
  <2>2. chosen = [k \in 0 .. n |-> chosen[k]] BY <1>7
  <2>3. QED BY <2>1, <2>2
<1>14. Hops(chosen, t, p)
  <2> HIDE DEF n
  <2>1. chosen[0] = p /\ \A i \in 1 .. n : chosen[i] = Hopped(t, chosen[i - 1]) BY <1>1, <1>9
  <2>2. QED BY <2>1 DEF Hops, n
<1>15. QED BY <1>8, <1>13, <1>14

\* Where a path leads is a path, and the root leads nowhere else.
LEMMA RealType ==
    ASSUME NEW t \in Trees, NEW p \in PathNames
    PROVE  RealIn(t, p) \in PathNames /\ RealIn(t, <<>>) = <<>>
<1>1. RealIn(t, p) \in PathNames
  <2>1. PICK hop \in [0 .. MaxHops -> PathNames] : Hops(hop, t, p) /\ RealIn(t, p) = hop[MaxHops] BY RealIs
  <2>2. MaxHops \in 0 .. MaxHops BY ArchiveAssumption
  <2>3. QED BY <2>1, <2>2
<1>2. RealIn(t, <<>>) = <<>>
  <2>1. <<>> \in PathNames BY DEF PathNames
  <2>2. PICK hop \in [0 .. MaxHops -> PathNames] : Hops(hop, t, <<>>) /\ RealIn(t, <<>>) = hop[MaxHops]
    BY <2>1, RealIs
  <2> DEFINE G == {k \in 0 .. MaxHops : hop[k] = <<>>}
  <2>3. MaxHops \in Nat BY ArchiveAssumption
  <2>4. 0 \in G BY <2>2, <2>3 DEF Hops
  <2>5. Hopped(t, <<>>) = <<>>
    <3>1. DOMAIN <<>> = {} OBVIOUS
    <3>2. On(t, <<>>) = {} BY <3>1 DEF On
    <3>3. QED BY <3>2 DEF Hopped
  <2>6. ASSUME NEW k \in 1 .. MaxHops, k - 1 \in G PROVE k \in G BY <2>2, <2>5, <2>6 DEF Hops
  <2>7. 0 .. MaxHops \subseteq G
    <3> HIDE DEF G
    <3>1. QED BY <2>3, <2>4, <2>6, Upward
  <2>8. MaxHops \in G BY <2>3, <2>7
  <2>9. QED BY <2>2, <2>8
<1>3. QED BY <1>1, <1>2

\* What is there is in a directory, as is the directory that it is in.
RootedIn(t) == \A p \in TreePaths : t[p].kind # "nothing" => AtIn(t, Front(p)).kind = "directory"

\* Above what is there, all the way, are directories.
LEMMA AboveAreDirectories ==
    ASSUME NEW t \in Trees, RootedIn(t), NEW p \in PathNames, AtIn(t, p).kind # "nothing",
           NEW j \in 0 .. Len(p), j < Len(p)
    PROVE  AtIn(t, SubSeq(p, 1, j)).kind = "directory"
<1> DEFINE n == Len(p)
           at(i) == AtIn(t, SubSeq(p, 1, i)).kind
<1>1. n \in Nat /\ SubSeq(p, 1, n) = p BY DEF PathNames
<1>2. ASSUME NEW i \in 1 .. n, at(i) # "nothing" PROVE at(i - 1) = "directory"
  <2> DEFINE q == SubSeq(p, 1, i)
  <2>1. q \in PathNames /\ Len(q) = i /\ Front(q) = SubSeq(p, 1, i - 1)
    <3>1. i \in 0 .. Len(p) /\ i \in 1 .. Len(p) /\ p \in Seq(STRING) BY <1>1 DEF PathNames
    <3>2. SubSeq(p, 1, i) \in Seq(STRING) /\ Len(SubSeq(p, 1, i)) = i BY <3>1, Fronts
    <3>3. Front(SubSeq(p, 1, i)) = SubSeq(p, 1, i - 1) BY <3>1, Fronts
    <3>4. QED BY <3>2, <3>3 DEF PathNames
  <2> HIDE DEF q
  <2>2. AtIn(t, q).kind # "nothing" BY <1>2 DEF q
  <2>3. CASE q \in TreePaths BY <2>1, <2>2, <2>3 DEF RootedIn, AtIn
  <2>4. CASE q \notin TreePaths
    <3>1. IsPrefix(q, Dest) BY <2>2, <2>4 DEF AtIn, Nothing, Node
    <3>2. IsPrefix(SubSeq(p, 1, i - 1), Dest)
      <4>1. q \in Seq(STRING) /\ Dest \in Seq(STRING) /\ i - 1 \in 0 .. Len(q)
        BY <1>1, <2>1, ArchiveAssumption DEF PathNames, PlainPaths
      <4>2. IsPrefix(SubSeq(q, 1, i - 1), Dest) BY <3>1, <4>1, PathsAbove
      <4>3. SubSeq(SubSeq(p, 1, i), 1, i - 1) = SubSeq(p, 1, i - 1)
        <5>1. i - 1 \in 0 .. Len(p) /\ i \in 0 .. Len(p) /\ i - 1 <= i BY <1>1
        <5>2. p \in Seq(STRING) BY DEF PathNames
        <5>3. QED BY <5>1, <5>2, Fronts
      <4>4. QED BY <4>2, <4>3 DEF q
    <3>3. SubSeq(p, 1, i - 1) \notin TreePaths BY <3>2, ArchiveAssumption
    <3>4. QED BY <3>2, <3>3 DEF AtIn, Directory, Node
  <2>5. QED BY <2>3, <2>4
<1> DEFINE G == {k \in 0 .. n : k = 0 \/ at(n - k) = "directory"}
<1>3. 0 \in G BY <1>1
<1>4. ASSUME NEW k \in 1 .. n, k - 1 \in G PROVE k \in G
  <2>1. n - (k - 1) \in 1 .. n /\ n - (k - 1) - 1 = n - k BY <1>1
  <2>2. at(n - (k - 1)) # "nothing"
    <3>1. CASE k - 1 = 0
      <4>1. n - (k - 1) = n BY <1>1, <3>1
      <4>2. QED BY <1>1, <4>1
    <3>2. CASE k - 1 # 0 BY <1>4, <3>2
    <3>3. QED BY <3>1, <3>2
  <2> HIDE DEF at, n
  <2>3. at(n - (k - 1) - 1) = "directory" BY <1>2, <2>1, <2>2
  <2>4. at(n - k) = "directory" BY <2>1, <2>3
  <2>5. k \in 0 .. n BY <1>1
  <2>6. QED BY <2>4, <2>5
<1>5. 0 .. n \subseteq G
  <2> HIDE DEF G, n
  <2>1. QED BY <1>1, <1>3, <1>4, Upward
<1>6. n - j \in 0 .. n /\ n - (n - j) = j /\ n - j # 0
  <2>1. j \in 0 .. n /\ j < n OBVIOUS
  <2> HIDE DEF n
  <2>2. QED BY <1>1, <2>1
<1> HIDE DEF at, n
<1>7. at(n - (n - j)) = "directory" BY <1>5, <1>6
<1>8. at(j) = "directory" BY <1>6, <1>7
<1>9. QED BY <1>8 DEF at

\* After the last turn nothing changes.
LEMMA NoMoreHops ==
    ASSUME NEW t, NEW p, NEW hop, Hops(hop, t, p), NEW k \in 0 .. MaxHops, On(t, hop[k]) = {}
    PROVE  hop[MaxHops] = hop[k]
<1> DEFINE G == {m \in 0 .. MaxHops : k <= m => hop[m] = hop[k]}
<1>1. MaxHops \in Nat BY ArchiveAssumption
<1>2. 0 \in G BY <1>1
<1>3. ASSUME NEW m \in 1 .. MaxHops, m - 1 \in G PROVE m \in G
  <2>1. CASE k <= m - 1
    <3>1. hop[m - 1] = hop[k] BY <1>3, <2>1
    <3>2. hop[m] = Hopped(t, hop[m - 1]) BY DEF Hops
    <3>3. hop[m] = hop[k] BY <3>1, <3>2 DEF Hopped
    <3>4. QED BY <3>3
  <2>2. CASE ~ (k <= m - 1)
    <3>1. k = m \/ ~ (k <= m) BY <1>1, <2>2
    <3>2. QED BY <3>1
  <2>3. QED BY <2>1, <2>2
<1>4. 0 .. MaxHops \subseteq G
  <2> HIDE DEF G
  <2>1. QED BY <1>1, <1>2, <1>3, Upward
<1>5. MaxHops \in G /\ k <= MaxHops BY <1>1, <1>4
<1>6. QED BY <1>5

\* As far as there is something, it is there still, and the links are the same ones.
Stays(t, u) ==
    \A q \in TreePaths :
        /\ t[q].kind # "nothing" => u[q].kind # "nothing"
        /\ t[q].kind = "directory" => u[q].kind = "directory"
LinksStay(t, u) ==
    \A q \in TreePaths : t[q].kind # "nothing" =>
        /\ u[q].kind = "symlink" <=> t[q].kind = "symlink"
        /\ t[q].kind = "symlink" => u[q].to = t[q].to

\* While nothing is taken away, what is at a path stays there, and directories stay directories.
LEMMA AtStays ==
    ASSUME NEW t, NEW u, Stays(t, u), NEW p
    PROVE  /\ AtIn(t, p).kind # "nothing" => AtIn(u, p).kind # "nothing"
           /\ AtIn(t, p).kind = "directory" => AtIn(u, p).kind = "directory"
BY DEF AtIn, Stays

\* What is there has a name, and a directory is no turn.
LEMMA NamedIs ==
    ASSUME NEW t \in Trees, NEW c \in PathNames, c # <<>>
    PROVE  /\ AtIn(t, c).kind # "nothing" => Last(c) \notin Dots
           /\ AtIn(t, c).kind = "directory" => ~ Turns(t, c)
           /\ Last(c) \in Dots => c \notin TreePaths
<1>1. c \in PlainPaths => Last(c) \notin Dots BY PlainFronts
<1>2. TreePaths \subseteq PlainPaths /\ Dest \in PlainPaths BY ArchiveAssumption
<1>3. AtIn(t, c).kind # "nothing" => c \in TreePaths \/ IsPrefix(c, Dest) BY DEF AtIn, Nothing, Node
<1>4. IsPrefix(c, Dest) => c \in PlainPaths BY <1>2, PlainFronts
<1>5. QED BY <1>1, <1>2, <1>3, <1>4 DEF Turns

\* On the way to what is there nothing turns, and nothing will.
LEMMA NoTurnAbove ==
    ASSUME NEW t \in Trees, NEW u \in Trees, RootedIn(t), Stays(t, u),
           NEW q \in PathNames, AtIn(t, q).kind # "nothing", NEW j \in 1 .. Len(q), j < Len(q)
    PROVE  ~ Turns(t, SubSeq(q, 1, j)) /\ ~ Turns(u, SubSeq(q, 1, j))
<1> DEFINE c == SubSeq(q, 1, j)
<1>1. q \in Seq(STRING) /\ Len(q) \in Nat /\ j \in 0 .. Len(q) BY DEF PathNames
<1>2. c \in PathNames /\ Len(c) = j /\ c # <<>>
  <2>1. SubSeq(q, 1, j) \in Seq(STRING) /\ Len(SubSeq(q, 1, j)) = j BY <1>1, Fronts
  <2>2. Len(<<>>) = 0 /\ j # 0 BY <1>1
  <2>3. QED BY <2>1, <2>2 DEF PathNames
<1>3. AtIn(t, c).kind = "directory" BY <1>1, AboveAreDirectories
<1> HIDE DEF c
<1>4. AtIn(u, c).kind = "directory" BY <1>3, AtStays
<1>5. ~ Turns(t, c) /\ ~ Turns(u, c) BY <1>2, <1>3, <1>4, NamedIs
<1>6. QED BY <1>5 DEF c

\* A turn stays one, and leads where it did; and it stays the first one.
LEMMA TurnsStay ==
    ASSUME NEW t \in Trees, NEW u \in Trees, RootedIn(t), Stays(t, u), LinksStay(t, u),
           NEW q \in PathNames, NEW i \in 1 .. Len(q), Turns(t, SubSeq(q, 1, i))
    PROVE  /\ Turns(u, SubSeq(q, 1, i)) /\ Turned(u, SubSeq(q, 1, i)) = Turned(t, SubSeq(q, 1, i))
           /\ \A j \in 1 .. i - 1 : ~ Turns(u, SubSeq(q, 1, j))
<1> DEFINE r == SubSeq(q, 1, i)
<1>1. q \in Seq(STRING) /\ Len(q) \in Nat /\ i \in 0 .. Len(q) /\ i - 1 \in 0 .. Len(q) BY DEF PathNames
<1>2. r \in PathNames /\ Len(r) = i /\ r # <<>> /\ Front(r) = SubSeq(q, 1, i - 1)
  <2>1. SubSeq(q, 1, i) \in Seq(STRING) /\ Len(SubSeq(q, 1, i)) = i BY <1>1, Fronts
  <2>2. Front(SubSeq(q, 1, i)) = SubSeq(q, 1, i - 1) BY <1>1, Fronts
  <2>3. Len(<<>>) = 0 /\ i # 0 BY <1>1
  <2>4. QED BY <2>1, <2>2, <2>3 DEF PathNames
<1>3. ASSUME NEW s \in PathNames, NEW j \in 1 .. Len(s), AtIn(t, s).kind # "nothing", j < Len(s)
      PROVE  ~ Turns(u, SubSeq(s, 1, j))
  BY <1>3, NoTurnAbove
<1>4. CASE AtIn(t, r).kind = "symlink"
  <2>1. r \in TreePaths /\ t[r].kind = "symlink" BY <1>4 DEF AtIn, Directory, Nothing, Node
  <2>2. u[r].kind = "symlink" /\ u[r].to = t[r].to BY <2>1 DEF LinksStay
  <2>3. AtIn(u, r).kind = "symlink" /\ AtIn(u, r).to = AtIn(t, r).to BY <2>1, <2>2 DEF AtIn
  <2> HIDE DEF r
  <2>4. Turns(u, r) /\ Turned(u, r) = Turned(t, r) BY <1>4, <2>3 DEF Turns, Turned
  <2>5. ASSUME NEW j \in 1 .. i - 1 PROVE ~ Turns(u, SubSeq(q, 1, j))
    <3>1. j \in 1 .. Len(r) /\ j < Len(r) /\ j \in 0 .. Len(q) /\ j <= i BY <1>1, <1>2
    <3>2. ~ Turns(u, SubSeq(r, 1, j)) BY <1>2, <1>3, <1>4, <3>1
    <3>3. SubSeq(SubSeq(q, 1, i), 1, j) = SubSeq(q, 1, j) BY <1>1, <3>1, Fronts
    <3>4. QED BY <3>2, <3>3 DEF r
  <2>6. QED BY <2>4, <2>5 DEF r
<1>5. CASE AtIn(t, r).kind # "symlink"
  <2>1. Last(r) \in Dots /\ AtIn(t, Front(r)).kind = "directory" BY <1>5 DEF Turns
  <2> HIDE DEF r
  <2>2. r \notin TreePaths BY <1>2, <2>1, NamedIs
  <2>3. AtIn(u, r) = AtIn(t, r) BY <2>2 DEF AtIn
  <2>4. AtIn(u, Front(r)).kind = "directory" BY <2>1, AtStays
  <2>5. Turns(u, r) /\ Turned(u, r) = Turned(t, r) BY <2>1, <2>3, <2>4 DEF Turns, Turned
  <2>6. ASSUME NEW j \in 1 .. i - 1 PROVE ~ Turns(u, SubSeq(q, 1, j))
    <3> DEFINE s == SubSeq(q, 1, i - 1)
    <3>1. s \in PathNames /\ Len(s) = i - 1
      <4>1. SubSeq(q, 1, i - 1) \in Seq(STRING) /\ Len(SubSeq(q, 1, i - 1)) = i - 1 BY <1>1, Fronts
      <4>2. QED BY <4>1 DEF PathNames
    <3>2. AtIn(t, s).kind = "directory" /\ AtIn(u, s).kind = "directory" BY <1>2, <2>1, <2>4
    <3>3. j \in 0 .. Len(q) /\ i - 1 \in 0 .. Len(q) /\ j <= i - 1 BY <1>1
    <3>4. SubSeq(SubSeq(q, 1, i - 1), 1, j) = SubSeq(q, 1, j) BY <1>1, <3>3, Fronts
    <3> HIDE DEF s
    <3>5. SubSeq(s, 1, j) = SubSeq(q, 1, j) BY <3>4 DEF s
    <3>6. CASE j = i - 1
      <4>1. SubSeq(s, 1, j) = s BY <3>1, <3>6, SubSeqFull DEF PathNames
      <4>2. s # <<>>
        <5>1. Len(<<>>) = 0 /\ i - 1 # 0 BY <1>1
        <5>2. QED BY <3>1, <5>1
      <4>3. ~ Turns(u, s) BY <3>1, <3>2, <4>2, NamedIs
      <4>4. QED BY <3>5, <4>1, <4>3
    <3>7. CASE j # i - 1
      <4>1. j \in 1 .. Len(s) /\ j < Len(s) BY <1>1, <3>1, <3>7
      <4>2. ~ Turns(u, SubSeq(s, 1, j)) BY <1>3, <3>1, <3>2, <4>1
      <4>3. QED BY <3>5, <4>2
    <3>8. QED BY <3>6, <3>7
  <2>7. QED BY <2>5, <2>6 DEF r
<1>6. QED BY <1>4, <1>5

\* A path leads where it did, unless it turns where it came to its end.
LEMMA HopsStay ==
    ASSUME NEW t \in Trees, NEW u \in Trees, RootedIn(t), Stays(t, u), LinksStay(t, u), NEW p \in PathNames,
           On(u, RealIn(t, p)) \subseteq On(t, RealIn(t, p))
    PROVE  RealIn(u, p) = RealIn(t, p)
<1>1. PICK hop \in [0 .. MaxHops -> PathNames] : Hops(hop, t, p) /\ RealIn(t, p) = hop[MaxHops] BY RealIs
<1>2. PICK pass \in [0 .. MaxHops -> PathNames] : Hops(pass, u, p) /\ RealIn(u, p) = pass[MaxHops] BY RealIs
<1>3. MaxHops \in Nat BY ArchiveAssumption
<1> DEFINE G == {k \in 0 .. MaxHops : pass[k] = hop[k]}
<1>4. 0 \in G BY <1>1, <1>2, <1>3 DEF Hops
<1>5. ASSUME NEW k \in 1 .. MaxHops, k - 1 \in G PROVE k \in G
  <2> DEFINE q == hop[k - 1]
  <2>1. k - 1 \in 0 .. MaxHops BY <1>3
  <2>2. q \in PathNames BY <1>1, <2>1
  <2>3. hop[k] = Hopped(t, q) /\ pass[k] = Hopped(u, q) BY <1>1, <1>2, <1>5 DEF Hops
  <2>4. On(t, q) = {} => RealIn(t, p) = q BY <1>1, <2>1, NoMoreHops
  <2> HIDE DEF q
  <2>5. DOMAIN q = 1 .. Len(q) /\ Len(q) \in Nat BY <2>2 DEF PathNames
  <2>6. Hopped(u, q) = Hopped(t, q)
    <3>1. CASE On(t, q) = {}
      <4>1. On(u, q) = {} BY <2>4, <3>1
      <4>2. QED BY <3>1, <4>1 DEF Hopped
    <3>2. CASE On(t, q) # {}
      <4> DEFINE i == Min(On(t, q))
                 m == Min(On(u, q))
      <4>1. i \in On(t, q) /\ i \in 1 .. Len(q) BY <2>2, <3>2, FirstOn
      <4> HIDE DEF i
      <4>2. Turns(t, SubSeq(q, 1, i)) BY <4>1 DEF On
      <4>3. /\ Turns(u, SubSeq(q, 1, i)) /\ Turned(u, SubSeq(q, 1, i)) = Turned(t, SubSeq(q, 1, i))
            /\ \A j \in 1 .. i - 1 : ~ Turns(u, SubSeq(q, 1, j))
        BY <2>2, <4>1, <4>2, TurnsStay
      <4>4. i \in On(u, q) BY <2>5, <4>1, <4>3 DEF On
      <4>5. m \in On(u, q) /\ m \in 1 .. Len(q) /\ \A j \in 1 .. m - 1 : j \notin On(u, q)
        BY <2>2, <4>4, FirstOn
      <4> HIDE DEF m
      <4>6. m = i
        <5>1. ASSUME i < m PROVE FALSE
          <6>1. i \in 1 .. m - 1 BY <2>5, <4>1, <4>5, <5>1
          <6>2. QED BY <4>4, <4>5, <6>1
        <5>2. ASSUME m < i PROVE FALSE
          <6>1. m \in 1 .. i - 1 BY <2>5, <4>1, <4>5, <5>2
          <6>2. QED BY <4>3, <4>5, <6>1 DEF On
        <5>3. QED BY <2>5, <4>1, <4>5, <5>1, <5>2
      <4>7. QED BY <3>2, <4>3, <4>4, <4>6 DEF Hopped, i, m
    <3>3. QED BY <3>1, <3>2
  <2>7. QED BY <2>3, <2>6
<1>6. 0 .. MaxHops \subseteq G
  <2> HIDE DEF G
  <2>1. QED BY <1>3, <1>4, <1>5, Upward
<1>7. pass[MaxHops] = hop[MaxHops] BY <1>3, <1>6
<1>8. QED BY <1>1, <1>2, <1>7

\* What is there is behind the same paths, whatever comes where there was nothing.
LEMMA PathsStay ==
    ASSUME NEW t \in Trees, NEW u \in Trees, RootedIn(t), Stays(t, u), LinksStay(t, u),
           NEW p \in PathNames, AtIn(t, RealIn(t, p)).kind # "nothing"
    PROVE  RealIn(u, p) = RealIn(t, p)
<1> DEFINE q == RealIn(t, p)
<1>1. q \in PathNames BY RealType
<1> HIDE DEF q
<1>2. q \in Seq(STRING) /\ Len(q) \in Nat /\ DOMAIN q = 1 .. Len(q) /\ SubSeq(q, 1, Len(q)) = q
  BY <1>1, SubSeqFull DEF PathNames
<1>3. AtIn(t, q).kind # "nothing" BY DEF q
<1>4. ASSUME NEW i \in On(u, q) PROVE i \in On(t, q)
  <2>1. i \in 1 .. Len(q) /\ Turns(u, SubSeq(q, 1, i)) BY <1>2 DEF On
  <2>2. CASE i < Len(q) BY <1>1, <1>3, <2>1, <2>2, NoTurnAbove
  <2>3. CASE ~ (i < Len(q))
    <3>1. i = Len(q) /\ q # <<>>
      <4>1. i = Len(q) /\ Len(q) # 0
        <5>1. \A n \in Nat : \A k \in 1 .. n : ~ (k < n) => k = n /\ n # 0 OBVIOUS
        <5>2. Len(q) \in Nat /\ i \in 1 .. Len(q) BY <1>2, <2>1
        <5>3. QED BY <2>3, <5>1, <5>2
      <4>2. Len(<<>>) = 0 OBVIOUS
      <4>3. QED BY <4>1, <4>2
    <3>2. Turns(u, q) BY <1>2, <2>1, <3>1
    <3>3. Last(q) \notin Dots BY <1>1, <1>3, <3>1, NamedIs
    <3>4. AtIn(u, q).kind = "symlink" BY <3>2, <3>3 DEF Turns
    <3>5. q \in TreePaths /\ u[q].kind = "symlink" BY <3>4 DEF AtIn, Directory, Nothing, Node
    <3>6. t[q].kind = "symlink" BY <1>3, <3>5 DEF AtIn, LinksStay
    <3>7. Turns(t, q) BY <3>5, <3>6 DEF AtIn, Turns
    <3>8. QED BY <1>2, <2>1, <3>1, <3>7 DEF On
  <2>4. QED BY <2>2, <2>3
<1>5. On(u, RealIn(t, p)) \subseteq On(t, RealIn(t, p)) BY <1>4 DEF q
<1>6. QED BY <1>5, HopsStay

\* So are places without dots, while no link comes.
NoNewLinks(t, u) == \A q \in TreePaths : u[q].kind = "symlink" => t[q].kind = "symlink"
LEMMA PlacesStay ==
    ASSUME NEW t \in Trees, NEW u \in Trees, RootedIn(t), Stays(t, u), LinksStay(t, u), NoNewLinks(t, u),
           NEW p \in PathNames, RealIn(t, p) \in PlainPaths
    PROVE  RealIn(u, p) = RealIn(t, p)
<1> DEFINE q == RealIn(t, p)
<1>1. q \in PlainPaths /\ q \in PathNames BY RealType
<1> HIDE DEF q
<1>2. q \in Seq(STRING) /\ Len(q) \in Nat /\ DOMAIN q = 1 .. Len(q) BY <1>1 DEF PathNames
<1>3. ASSUME NEW i \in On(u, q) PROVE i \in On(t, q)
  <2> DEFINE c == SubSeq(q, 1, i)
  <2>1. i \in 1 .. Len(q) /\ Turns(u, c) BY <1>2 DEF On
  <2>2. c \in PathNames /\ c # <<>> /\ IsPrefix(c, q)
    <3>1. i \in 0 .. Len(q) /\ i # 0 /\ Len(<<>>) = 0 BY <1>2, <2>1
    <3>2. SubSeq(q, 1, i) \in Seq(STRING) /\ Len(SubSeq(q, 1, i)) = i BY <1>2, <3>1, Fronts
    <3>3. IsPrefix(SubSeq(q, 1, i), q) BY <1>2, <3>1, PathsAbove
    <3>4. QED BY <3>1, <3>2, <3>3 DEF PathNames
  <2> HIDE DEF c
  <2>3. c \in PlainPaths BY <1>1, <2>2, PlainFronts
  <2>4. Last(c) \notin Dots BY <2>2, <2>3, PlainFronts
  <2>5. AtIn(u, c).kind = "symlink" BY <2>1, <2>4 DEF Turns
  <2>6. c \in TreePaths /\ u[c].kind = "symlink" BY <2>5 DEF AtIn, Directory, Nothing, Node
  <2>7. Turns(t, c) BY <2>6 DEF NoNewLinks, AtIn, Turns
  <2>8. QED BY <1>2, <2>1, <2>7 DEF On, c
<1>4. On(u, RealIn(t, p)) \subseteq On(t, RealIn(t, p)) BY <1>3 DEF q
<1>5. QED BY <1>4, HopsStay

\* What is left of a path after one of its segments.
LEMMA RestOf ==
    ASSUME NEW q \in Seq(STRING), NEW i \in 1 .. Len(q)
    PROVE  LET a == SubSeq(q, i + 1, Len(q))
           IN  Len(a) = Len(q) - i /\ \A j \in 1 .. Len(q) - i : a[j] = q[i + j]
<1> DEFINE S == STRING
           n == Len(q)
           a == SubSeq(q, i + 1, n)
<1>1. q \in Seq(S) /\ n \in Nat OBVIOUS
<1> HIDE DEF S
<1>2. i \in Nat /\ i + 1 \in Nat /\ i + 1 >= 1 /\ i <= n BY <1>1
<1>3. Len(a) = IF i + 1 <= n THEN n - (i + 1) + 1 ELSE 0 BY <1>1, <1>2
<1>4. \A k, m \in Nat : k <= m => (IF k + 1 <= m THEN m - (k + 1) + 1 ELSE 0) = m - k OBVIOUS
<1>5. Len(a) = n - i
  <2> HIDE DEF a, n
  <2>1. QED BY <1>1, <1>2, <1>3, <1>4
<1>6. ASSUME NEW j \in 1 .. n - i PROVE a[j] = q[i + j]
  <2>1. j \in Nat /\ j >= 1 /\ i + 1 + j - 1 = i + j /\ i + j <= n BY <1>1, <1>2
  <2>2. j \in 1 .. n - (i + 1) + 1 BY <1>1, <1>2, <2>1
  <2>3. QED BY <1>1, <1>2, <2>1, <2>2
<1>7. QED BY <1>5, <1>6

\* What is in a directory is behind the paths that lead to it.
LEMMA BehindDirectory ==
    ASSUME NEW t \in Trees, NEW b \in PathNames, NEW s \in STRING, ~ Turns(t, Append(RealIn(t, b), s))
    PROVE  RealIn(t, Append(b, s)) = Append(RealIn(t, b), s)
<1> DEFINE p == Append(b, s)
<1>1. p \in PathNames BY OneMore DEF PathNames
<1> HIDE DEF p
<1>2. PICK hop \in [0 .. MaxHops -> PathNames] : Hops(hop, t, b) /\ RealIn(t, b) = hop[MaxHops] BY RealIs
<1>3. PICK pass \in [0 .. MaxHops -> PathNames] : Hops(pass, t, p) /\ RealIn(t, p) = pass[MaxHops]
  BY <1>1, RealIs
<1>4. MaxHops \in Nat BY ArchiveAssumption
<1> DEFINE G == {k \in 0 .. MaxHops : pass[k] = Append(hop[k], s)}
<1>5. 0 \in G
  <2>1. pass[0] = p /\ hop[0] = b BY <1>2, <1>3 DEF Hops
  <2>2. 0 \in 0 .. MaxHops BY <1>4
  <2>3. QED BY <2>1, <2>2 DEF p
<1>6. ASSUME NEW k \in 1 .. MaxHops, k - 1 \in G PROVE k \in G
  <2> DEFINE q == hop[k - 1]
             z == Append(q, s)
  <2>1. k - 1 \in 0 .. MaxHops BY <1>4
  <2>2. q \in PathNames BY <1>2, <2>1
  <2>3. hop[k] = Hopped(t, q) /\ pass[k] = Hopped(t, z) BY <1>2, <1>3, <1>6 DEF Hops
  <2>4. On(t, q) = {} => RealIn(t, b) = q BY <1>2, <2>1, NoMoreHops
  <2> HIDE DEF q
  <2>5. q \in Seq(STRING) /\ DOMAIN q = 1 .. Len(q) /\ Len(q) \in Nat BY <2>2 DEF PathNames
  <2>6. z \in Seq(STRING) /\ Len(z) = Len(q) + 1 BY <2>5, AppendProperties
  <2>7. Front(z) = q BY <2>5, Fronts
  <2>8. ~ Turns(t, z) \/ On(t, q) # {} BY <2>4
  <2> HIDE DEF z
  <2>9. DOMAIN z = 1 .. Len(q) + 1 /\ SubSeq(z, 1, Len(q)) = q
    <3>1. Len(z) - 1 = Len(q) BY <2>5, <2>6
    <3>2. QED BY <2>6, <2>7, <3>1 DEF Front
  <2>10. \A i \in 1 .. Len(q) : SubSeq(z, 1, i) = SubSeq(q, 1, i)
    <3> TAKE i \in 1 .. Len(q)
    <3>1. Len(q) \in 0 .. Len(z) /\ i \in 0 .. Len(z) /\ i <= Len(q) BY <2>5, <2>6
    <3>2. SubSeq(SubSeq(z, 1, Len(q)), 1, i) = SubSeq(z, 1, i) BY <2>6, <3>1, Fronts
    <3>3. QED BY <2>9, <3>2
  <2>11. \A i \in 1 .. Len(q) : i \in On(t, z) <=> i \in On(t, q)
    <3>1. \A i \in 1 .. Len(q) : i \in 1 .. Len(q) + 1 BY <2>5
    <3>2. QED BY <2>5, <2>9, <2>10, <3>1 DEF On
  <2>12. Hopped(t, z) = Append(Hopped(t, q), s)
    <3>1. CASE On(t, q) = {}
      <4>1. SubSeq(z, 1, Len(q) + 1) = z BY <2>6, SubSeqFull
      <4>2. ASSUME NEW i \in On(t, z) PROVE FALSE
        <5>1. i \in 1 .. Len(q) + 1 /\ Turns(t, SubSeq(z, 1, i)) BY <2>9, <4>2 DEF On
        <5>2. i \in 1 .. Len(q) \/ i = Len(q) + 1 BY <2>5, <5>1
        <5>3. QED BY <2>8, <2>11, <3>1, <4>1, <4>2, <5>1, <5>2
      <4>3. On(t, z) = {} BY <4>2
      <4>4. QED BY <3>1, <4>3 DEF Hopped, z
    <3>2. CASE On(t, q) # {}
      <4> DEFINE i == Min(On(t, q))
                 m == Min(On(t, z))
      <4>1. i \in On(t, q) /\ i \in 1 .. Len(q) /\ \A j \in 1 .. i - 1 : j \notin On(t, q)
        BY <2>2, <3>2, FirstOn
      <4> HIDE DEF i
      <4>2. i \in On(t, z) BY <2>11, <4>1
      <4>3. m \in On(t, z) /\ m \in 1 .. Len(z) /\ \A j \in 1 .. m - 1 : j \notin On(t, z)
        BY <2>6, <4>2, FirstOn DEF PathNames
      <4> HIDE DEF m
      <4>4. m = i
        <5>1. i \in Nat /\ m \in Nat /\ i \in 1 .. Len(q) BY <2>5, <2>6, <4>1, <4>3
        <5>2. ASSUME i < m PROVE FALSE
          <6>1. i \in 1 .. m - 1 BY <4>1, <5>1, <5>2
          <6>2. QED BY <4>2, <4>3, <6>1
        <5>3. ASSUME m < i PROVE FALSE
          <6>1. m \in 1 .. i - 1 /\ m \in 1 .. Len(q) BY <2>5, <4>3, <5>1, <5>3
          <6>2. QED BY <2>11, <4>1, <4>3, <6>1
        <5>4. QED BY <5>1, <5>2, <5>3
      <4> DEFINE r == SubSeq(q, 1, i)
                 a == SubSeq(q, i + 1, Len(q))
                 c == SubSeq(z, i + 1, Len(z))
      <4>5. r \in PathNames /\ a \in PathNames BY <2>5, <4>1 DEF PathNames
      <4>6. c = Append(a, s)
        <5>1. i \in 1 .. Len(q) /\ i + 1 \in 1 .. Len(q) + 1 /\ i \in Nat BY <2>5, <4>1
        <5>2. /\ Len(c) = Len(q) + 1 - i
              /\ \A j \in 1 .. Len(q) + 1 - i : c[j] = z[i + j]
          BY <2>5, <2>6, <5>1
        <5>3. c \in Seq(STRING) BY <2>6, <5>1
        <5>4. Len(a) = Len(q) - i /\ \A j \in 1 .. Len(q) - i : a[j] = q[i + j]
          <6>1. q \in Seq(STRING) BY <2>5
          <6>2. QED BY <5>1, <6>1, RestOf
        <5>5. a \in Seq(STRING) BY <4>5 DEF PathNames
        <5>6. (\A j \in 1 .. Len(q) : z[j] = q[j]) /\ z[Len(q) + 1] = s BY <2>5, OneMore DEF z
        <5> HIDE DEF a, c
        <5> DEFINE w == Append(a, s)
        <5>7. /\ w \in Seq(STRING) /\ Len(w) = Len(a) + 1
              /\ (\A j \in 1 .. Len(a) : w[j] = a[j]) /\ w[Len(a) + 1] = s
          BY <5>5, OneMore
        <5> HIDE DEF w
        <5>8. ASSUME NEW j \in 1 .. Len(c) PROVE c[j] = w[j]
          <6>1. j \in 1 .. Len(q) - i \/ j = Len(q) - i + 1
            <7>1. \A n \in Nat : \A m1 \in 1 .. n : \A j1 \in 1 .. n + 1 - m1 : j1 \in 1 .. n - m1 \/ j1 = n - m1 + 1
              OBVIOUS
            <7>2. j \in 1 .. Len(q) + 1 - i BY <5>2, <5>8
            <7>3. QED BY <2>5, <5>1, <7>1, <7>2
          <6>2. CASE j \in 1 .. Len(q) - i
            <7>1. i + j \in 1 .. Len(q) /\ j \in 1 .. Len(q) + 1 - i BY <2>5, <5>1, <6>2
            <7>2. QED BY <5>2, <5>4, <5>6, <5>7, <6>2, <7>1
          <6>3. CASE j = Len(q) - i + 1
            <7>1. \A n \in Nat : \A m1 \in 1 .. n : /\ m1 + (n - m1 + 1) = n + 1
                                                  /\ n - m1 + 1 \in 1 .. n + 1 - m1
              OBVIOUS
            <7>2. i + j = Len(q) + 1 /\ j \in 1 .. Len(q) + 1 - i /\ j = Len(a) + 1
              <8>1. Len(q) \in Nat BY <2>5
              <8>2. i + j = Len(q) + 1 /\ j \in 1 .. Len(q) + 1 - i BY <5>1, <6>3, <7>1, <8>1
              <8>3. QED BY <5>4, <6>3, <8>2
            <7>3. QED BY <5>2, <5>6, <5>7, <7>2
          <6>4. QED BY <6>1, <6>2, <6>3
        <5>9. Len(c) = Len(w) BY <2>5, <5>1, <5>2, <5>4, <5>7
        <5>10. c = w BY <5>3, <5>7, <5>8, <5>9, SeqEqual
        <5>11. QED BY <5>10 DEF w
      <4>7. SubSeq(z, 1, i) = r BY <2>10, <4>1
      <4> HIDE DEF a, c, r
      <4>8. Turned(t, r) \in PathNames BY <4>5, TurnedType
      <4>9. Turned(t, r) \o c = Append(Turned(t, r) \o a, s)
        <5> DEFINE v == Turned(t, r)
        <5>1. v \in Seq(STRING) /\ a \in Seq(STRING) BY <4>5, <4>8 DEF PathNames
        <5> HIDE DEF v
        <5>2. Append(a, s) = a \o <<s>> BY <5>1, OneMore
        <5>7. <<s>> \in Seq(STRING) BY <5>1, OneMore
        <5>3. v \o a \in Seq(STRING) BY <5>1
        <5>4. Append(v \o a, s) = (v \o a) \o <<s>> BY <5>3, OneMore
        <5>5. (v \o a) \o <<s>> = v \o (a \o <<s>>) BY <5>1, <5>7, ConcatAssociative
        <5>6. QED BY <4>6, <5>2, <5>4, <5>5 DEF v
      <4>10. Hopped(t, z) = Turned(t, r) \o c BY <4>2, <4>4, <4>7 DEF Hopped, m, c
      <4>11. Hopped(t, q) = Turned(t, r) \o a BY <3>2 DEF Hopped, i, a, r
      <4>12. QED BY <4>9, <4>10, <4>11
    <3>3. QED BY <3>1, <3>2
  <2>13. k \in 0 .. MaxHops BY <1>4
  <2>14. QED BY <2>3, <2>12, <2>13
<1>7. 0 .. MaxHops \subseteq G
  <2> HIDE DEF G
  <2>1. QED BY <1>4, <1>5, <1>6, Upward
<1>8. pass[MaxHops] = Append(hop[MaxHops], s) BY <1>4, <1>7
<1>9. QED BY <1>2, <1>3, <1>8 DEF p

\* No links, and every file under one name: what is there is where its path says.
Simple(t) ==
    /\ \A q \in TreePaths : t[q].kind # "symlink"
    /\ \A q, r \in TreePaths : t[q].kind = "file" /\ t[r].kind = "file" /\ t[q].to = t[r].to => q = r
LEMMA SimplePaths ==
    ASSUME NEW t \in Trees, Simple(t), NEW p \in PlainPaths
    PROVE  RealIn(t, p) = p
<1>1. p \in Seq(STRING) /\ p \in PathNames /\ Len(p) \in Nat /\ DOMAIN p = 1 .. Len(p)
  <2>1. p \in PathNames BY PlainFronts
  <2>2. QED BY <2>1 DEF PathNames
<1>2. ASSUME NEW i \in On(t, p) PROVE FALSE
  <2> DEFINE c == SubSeq(p, 1, i)
  <2>1. i \in 1 .. Len(p) /\ Turns(t, c) BY <1>1 DEF On
  <2>2. c \in PathNames /\ c # <<>> /\ IsPrefix(c, p)
    <3>1. i \in 0 .. Len(p) /\ i # 0 /\ Len(<<>>) = 0 BY <1>1, <2>1
    <3>2. SubSeq(p, 1, i) \in Seq(STRING) /\ Len(SubSeq(p, 1, i)) = i BY <1>1, <3>1, Fronts
    <3>3. IsPrefix(SubSeq(p, 1, i), p) BY <1>1, <3>1, PathsAbove
    <3>4. QED BY <3>1, <3>2, <3>3 DEF PathNames
  <2> HIDE DEF c
  <2>3. c \in PlainPaths BY <2>2, PlainFronts
  <2>4. Last(c) \notin Dots BY <2>2, <2>3, PlainFronts
  <2>5. AtIn(t, c).kind = "symlink" BY <2>1, <2>4 DEF Turns
  <2>6. QED BY <2>5 DEF Simple, AtIn, Directory, Nothing, Node
<1>3. PICK hop \in [0 .. MaxHops -> PathNames] : Hops(hop, t, p) /\ RealIn(t, p) = hop[MaxHops] BY <1>1, RealIs
<1>4. hop[0] = p /\ 0 \in 0 .. MaxHops BY <1>3, ArchiveAssumption DEF Hops
<1>5. On(t, hop[0]) = {} BY <1>2, <1>4
<1>6. QED BY <1>3, <1>4, <1>5, NoMoreHops

-----------------------------------------------------------------------------
(* Archives: what they hold.                                                *)

\* The image of a finite set is no larger.
LEMMA ImageIs ==
    ASSUME NEW S, IsFiniteSet(S), NEW f, NEW T, T = {f[x] : x \in S}
    PROVE  IsFiniteSet(T) /\ Cardinality(T) <= Cardinality(S)
<1> DEFINE g == [x \in S |-> f[x]]
<1>1. g \in [S -> T] OBVIOUS
<1>2. \A y \in T : \E x \in S : g[x] = y OBVIOUS
<1> HIDE DEF g
<1>3. g \in Surjection(S, T) BY <1>1, <1>2 DEF Surjection
<1>4. QED BY <1>3, FS_Surjection

\* Of some places up to n one is the last.
LEMMA Greatest ==
    ASSUME NEW n \in Nat, NEW T, T \subseteq 1 .. n, T # {}
    PROVE  Max(T) \in T
<1> DEFINE D == {k \in Nat : k <= n /\ n - k \in T}
<1>1. D \in SUBSET Nat /\ D # {}
  <2>1. PICK i \in T : TRUE OBVIOUS
  <2>2. n - i \in Nat /\ n - i <= n /\ n - (n - i) = i BY <2>1
  <2>3. n - i \in D BY <2>1, <2>2
  <2>4. QED BY <2>3
<1>2. PICK d \in D : \A e \in D : d <= e
  <2> HIDE DEF D
  <2>1. QED BY <1>1, Least
<1>3. n - d \in T /\ d \in Nat /\ d <= n BY <1>2
<1>4. ASSUME NEW y \in T PROVE n - d >= y
  <2>1. y \in 1 .. n BY <1>4
  <2>2. n - y \in Nat /\ n - y <= n /\ n - (n - y) = y BY <2>1
  <2>3. n - y \in D BY <1>4, <2>2
  <2>4. d <= n - y BY <1>2, <2>3
  <2>5. QED BY <1>3, <2>1, <2>4
<1>5. \E x \in T : \A y \in T : x >= y BY <1>3, <1>4
<1>6. QED BY <1>5 DEF Max

\* The entries that are walked are entries, in every format.
LEMMA WalkedType ==
    ASSUME NEW order \in Orders, NEW format
    PROVE  Walked(order.archive, format) \in Seq(ArchiveEntry)
<1> DEFINE entries == order.archive.entries
<1>1. /\ entries \in Seq(ArchiveEntry)
      /\ order.archive.gzName \in PathNames /\ order.archive.gzSize \in Nat
  BY ArchiveAssumption
<1> HIDE DEF entries
<1>2. DOMAIN entries = 1 .. Len(entries) /\ Len(entries) \in Nat /\ \A i \in 1 .. Len(entries) : entries[i] \in ArchiveEntry
  BY <1>1
<1>3. ZipEntries(entries) \in Seq(ArchiveEntry)
  <2> DEFINE D == 1 .. Len(entries)
             named(i) == {j \in DOMAIN entries : entries[j].name = entries[i].name}
             first == {i \in DOMAIN entries : i = Min(named(i))}
             all == [i \in DOMAIN entries |-> i]
             kept == Kept(all, first)
  <2>1. all \in Seq(D)
    <3>1. all \in [1 .. Len(entries) -> D] BY <1>2
    <3> HIDE DEF all, D
    <3>2. QED BY <1>2, <3>1
  <2> HIDE DEF all, first
  <2>2. kept \in Seq(D \cap first) BY <2>1, KeptType
  <2>3. Len(kept) \in Nat /\ DOMAIN kept = 1 .. Len(kept) /\ \A i \in 1 .. Len(kept) : kept[i] \in D
    <3> DEFINE Z == D \cap first
    <3>1. kept \in Seq(Z) /\ Z \subseteq D BY <2>2
    <3> HIDE DEF Z, kept, D
    <3>2. QED BY <3>1
  <2>4. ASSUME NEW i \in D PROVE entries[Max(named(i))] \in ArchiveEntry
    <3>1. named(i) \subseteq 1 .. Len(entries) /\ i \in named(i) BY <1>2, <2>4
    <3>2. Max(named(i)) \in named(i)
      <4> DEFINE T == named(i)
      <4>1. T \subseteq 1 .. Len(entries) /\ T # {} /\ Len(entries) \in Nat BY <1>2, <3>1
      <4> HIDE DEF T
      <4>2. Max(T) \in T BY <4>1, Greatest
      <4>3. QED BY <4>2 DEF T
    <3>3. QED BY <1>2, <3>1, <3>2
  <2>5. ZipEntries(entries) = [i \in DOMAIN kept |-> entries[Max(named(kept[i]))]] BY DEF ZipEntries, first, all
  <2> DEFINE of(i) == entries[Max(named(i))]
  <2> HIDE DEF kept
  <2>6. \A i \in 1 .. Len(kept) : of(kept[i]) \in ArchiveEntry BY <2>3, <2>4
  <2>7. ZipEntries(entries) = [i \in 1 .. Len(kept) |-> of(kept[i])] BY <2>3, <2>5
  <2> HIDE DEF of
  <2>8. QED BY <2>3, <2>6, <2>7
<1>5. ASSUME NEW e \in ArchiveEntry PROVE [e EXCEPT !.name = Normalised(@)] \in ArchiveEntry
  <2>1. e.name \in PathNames BY DEF ArchiveEntry
  <2>2. Normalised(e.name) \in PathNames
    <3> DEFINE n == e.name
    <3> HIDE DEF n
    <3>1. n \in Seq(STRING) /\ n # <<>> => Tail(n) \in Seq(STRING) BY HeadTailProperties
    <3>2. n \in PathNames => Normalised(n) \in PathNames BY <3>1 DEF Normalised, PathNames
    <3>3. QED BY <2>1, <3>2 DEF n
  <2>3. QED BY <2>2 DEF ArchiveEntry
<1>6. TarEntries(entries) \in Seq(ArchiveEntry)
  <2>1. TarEntries(entries) = [i \in 1 .. Len(entries) |-> [entries[i] EXCEPT !.name = Normalised(@)]]
    BY <1>2 DEF TarEntries
  <2>2. \A i \in 1 .. Len(entries) : [entries[i] EXCEPT !.name = Normalised(@)] \in ArchiveEntry
    BY <1>2, <1>5
  <2>3. QED BY <1>2, <2>1, <2>2
<1>7. GzEntries(order.archive) \in Seq(ArchiveEntry)
  <2> DEFINE e == [name |-> order.archive.gzName, kind |-> "file", size |-> order.archive.gzSize, to |-> <<>>]
  <2>1. <<>> \in PathNames /\ "file" \in EntryKinds BY DEF PathNames, EntryKinds
  <2>2. e \in ArchiveEntry BY <1>1, <2>1 DEF ArchiveEntry
  <2>3. GzEntries(order.archive) = <<e>> BY DEF GzEntries
  <2> HIDE DEF e
  <2>4. QED BY <2>2, <2>3
<1>8. QED BY <1>3, <1>6, <1>7 DEF Walked, entries

\* read_entry finds the first file of a name.
LEMMA ReadsTheFirst ==
    ASSUME NEW archive, NEW format, NEW walked \in Seq(ArchiveEntry), walked = Walked(archive, format),
           NEW i \in 1 .. Len(walked), walked[i].kind = "file",
           \A j \in 1 .. i - 1 : walked[j].name # walked[i].name
    PROVE  ReadEntry(archive, format, walked[i].name) = walked[i].size
<1> DEFINE hits == {k \in DOMAIN walked : walked[k].name = walked[i].name}
<1>1. Len(walked) \in Nat /\ DOMAIN walked = 1 .. Len(walked) OBVIOUS
<1>2. i \in hits /\ i \in Nat /\ \A k \in hits : k \in Nat BY <1>1
<1>3. \A k \in hits : i <= k
  <2>1. ASSUME NEW k \in hits, k < i PROVE FALSE
    <3>1. k \in 1 .. i - 1 BY <1>1, <2>1
    <3>2. QED BY <2>1, <3>1
  <2> HIDE DEF hits
  <2>2. QED BY <1>2, <2>1
<1> HIDE DEF hits
<1>4. Min(hits) = i
  <2> DEFINE m == Min(hits)
  <2>1. m \in hits /\ \A y \in hits : m <= y BY <1>2, <1>3 DEF Min
  <2> HIDE DEF m
  <2>2. m = i BY <1>2, <1>3, <2>1
  <2>3. QED BY <2>2 DEF m
<1>5. QED BY <1>2, <1>4 DEF ReadEntry, hits

-----------------------------------------------------------------------------
(* Archives: what is an extraction's.                                       *)

FilesIn(t, x) == {t[p] : p \in {q \in TreePaths : t[q].kind = "file" /\ t[q].by = x}}

\* An extraction has finitely many files, each of a size.
LEMMA FilesAre ==
    ASSUME NEW t \in Trees, NEW x
    PROVE  IsFiniteSet(FilesIn(t, x)) /\ \A file \in FilesIn(t, x) : file.size \in Nat
<1> DEFINE S == {q \in TreePaths : t[q].kind = "file" /\ t[q].by = x}
<1>1. IsFiniteSet(TreePaths) /\ S \in SUBSET TreePaths BY ArchiveAssumption
<1>2. IsFiniteSet(S) BY <1>1, FS_Subset
<1>3. FilesIn(t, x) = {t[p] : p \in S} BY DEF FilesIn
<1>4. \A p \in S : t[p].size \in Nat BY DEF Trees, Nodes
<1> HIDE DEF S
<1>5. IsFiniteSet(FilesIn(t, x)) BY <1>2, <1>3, ImageIs
<1>6. QED BY <1>3, <1>4, <1>5

\* The bytes of files, of fewer, and of one more.
LEMMA BytesAre ==
    ASSUME NEW F, IsFiniteSet(F), \A f \in F : f.size \in Nat
    PROVE  /\ Bytes(F) \in Nat /\ (F = {} => Bytes(F) = 0)
           /\ \A f : f \notin F /\ f.size \in Nat => Bytes(F \cup {f}) = Bytes(F) + f.size
<1> DEFINE size == [f \in F |-> f.size]
<1>1. \A f \in F : size[f] \in Nat /\ size[f] = size[f] OBVIOUS
<1>2. Bytes(F) = SumOver(size, F) BY DEF Bytes
<1> HIDE DEF size
<1>3. Bytes(F) \in Nat /\ (F = {} => Bytes(F) = 0) BY <1>1, <1>2, SumSame
<1>4. ASSUME NEW f, f \notin F, f.size \in Nat PROVE Bytes(F \cup {f}) = Bytes(F) + f.size
  <2> DEFINE R == F \cup {f}
             wide == [g \in R |-> g.size]
  <2>1. \A g \in R : wide[g] \in Nat BY <1>4
  <2>2. \A g \in F : size[g] \in Nat /\ size[g] = wide[g] BY DEF size
  <2>3. wide[f] = f.size OBVIOUS
  <2>4. Bytes(R) = SumOver(wide, R) BY DEF Bytes
  <2> HIDE DEF wide
  <2>5. SumOver(wide, F \cup {f}) = SumOver(wide, F) + wide[f] BY <1>4, <2>1, SumMore
  <2>6. SumOver(size, F) = SumOver(wide, F) BY <2>2, SumSame
  <2>7. QED BY <1>2, <2>3, <2>4, <2>5, <2>6
<1>5. QED BY <1>3, <1>4

\* Fewer files have no more bytes.
LEMMA FewerBytes ==
    ASSUME NEW F, IsFiniteSet(F), \A f \in F : f.size \in Nat, NEW E \in SUBSET F
    PROVE  Bytes(E) <= Bytes(F) /\ Bytes(E) \in Nat
<1> DEFINE D == F \ E
           P == {T \in SUBSET D : Bytes(E) <= Bytes(E \cup T)}
<1>1. IsFiniteSet(E) /\ IsFiniteSet(D) /\ E \cup D = F
  <2>1. D \in SUBSET F OBVIOUS
  <2>2. QED BY <2>1, FS_Subset
<1>2. ASSUME NEW T \in SUBSET D
      PROVE  IsFiniteSet(E \cup T) /\ Bytes(E \cup T) \in Nat /\ \A f \in E \cup T : f.size \in Nat
  <2>1. E \cup T \in SUBSET F OBVIOUS
  <2> DEFINE R == E \cup T
  <2> HIDE DEF R
  <2>2. R \in SUBSET F BY <2>1 DEF R
  <2>3. IsFiniteSet(R) /\ \A f \in R : f.size \in Nat BY <2>2, FS_Subset
  <2>4. Bytes(R) \in Nat BY <2>3, BytesAre
  <2>5. QED BY <2>3, <2>4 DEF R
<1>3. ASSUME NEW T \in SUBSET D, \A f \in T : T \ {f} \in P PROVE T \in P
  <2>1. CASE T = {}
    <3>1. E \cup T = E BY <2>1
    <3>2. Bytes(E) \in Nat BY <1>2, <3>1
    <3>3. QED BY <3>1, <3>2
  <2>2. CASE T # {}
    <3>1. PICK f \in T : TRUE BY <2>2
    <3> DEFINE U == E \cup (T \ {f})
    <3>2. T \ {f} \in SUBSET D /\ U \cup {f} = E \cup T /\ f \notin U /\ f \in F BY <3>1
    <3>3. Bytes(E) <= Bytes(U) BY <1>3, <3>1
    <3>4. IsFiniteSet(U) /\ Bytes(U) \in Nat /\ \A g \in U : g.size \in Nat BY <1>2, <3>2
    <3>5. f.size \in Nat BY <3>2
    <3> HIDE DEF U
    <3>6. Bytes(U \cup {f}) = Bytes(U) + f.size BY <3>2, <3>4, <3>5, BytesAre
    <3>7. Bytes(E) \in Nat
      <4>1. {} \in SUBSET D /\ E \cup {} = E OBVIOUS
      <4>2. QED BY <1>2, <4>1
    <3>8. Bytes(E) <= Bytes(E \cup T)
      <4> DEFINE a == Bytes(U)
                 b == f.size
                 c == Bytes(E)
      <4>1. a \in Nat /\ b \in Nat /\ c \in Nat /\ c <= a /\ Bytes(E \cup T) = a + b
        BY <3>2, <3>3, <3>4, <3>5, <3>6, <3>7, Zenon
      <4> SUFFICES c <= Bytes(E \cup T) OBVIOUS
      <4> HIDE DEF a, b, c
      <4>2. QED BY <4>1
    <3>9. QED BY <3>8
  <2>3. QED BY <2>1, <2>2
<1>4. SUBSET D \subseteq P
  <2> HIDE DEF P, D
  <2>1. QED BY <1>1, <1>3, BySize
<1>5. D \in P BY <1>4
<1>6. Bytes(E) \in Nat
  <2>1. {} \in SUBSET D /\ E \cup {} = E OBVIOUS
  <2>2. QED BY <1>2, <2>1
<1>7. QED BY <1>1, <1>5, <1>6

\* With one file more, the bytes are its own at most, and the files one more at most.
LEMMA OneFileMore ==
    ASSUME NEW F, IsFiniteSet(F), \A f \in F : f.size \in Nat,
           NEW file, file.size \in Nat, NEW E \in SUBSET (F \cup {file})
    PROVE  /\ Bytes(E) <= Bytes(F) + file.size /\ Cardinality(E) <= Cardinality(F) + 1
           /\ Bytes(E) \in Nat /\ Bytes(F) \in Nat /\ Cardinality(E) \in Nat /\ Cardinality(F) \in Nat
<1> DEFINE R == F \cup {file}
<1>1. IsFiniteSet(R) /\ Cardinality(R) <= Cardinality(F) + 1 /\ Cardinality(F) \in Nat
  <2>1. IsFiniteSet(R) /\ Cardinality(R) = IF file \in F THEN Cardinality(F) ELSE Cardinality(F) + 1
    BY FS_AddElement
  <2>2. Cardinality(F) \in Nat BY FS_CardinalityType
  <2> HIDE DEF R
  <2>3. QED BY <2>1, <2>2
<1>2. \A f \in R : f.size \in Nat OBVIOUS
<1>3. Bytes(R) <= Bytes(F) + file.size /\ Bytes(R) \in Nat /\ Bytes(F) \in Nat
  <2>1. Bytes(F) \in Nat BY BytesAre
  <2>2. CASE file \in F
    <3>1. R = F BY <2>2
    <3> HIDE DEF R
    <3>2. QED BY <2>1, <3>1
  <2>3. CASE file \notin F
    <3>1. Bytes(R) = Bytes(F) + file.size BY <2>3, BytesAre
    <3> HIDE DEF R
    <3>2. QED BY <2>1, <3>1
  <2>4. QED BY <2>2, <2>3
<1> HIDE DEF R
<1>4. E \in SUBSET R BY DEF R
<1>5. Bytes(E) <= Bytes(R) /\ Bytes(E) \in Nat BY <1>1, <1>2, <1>4, FewerBytes
<1>6. IsFiniteSet(E) /\ Cardinality(E) <= Cardinality(R) BY <1>1, <1>4, FS_Subset
<1>7. Cardinality(E) \in Nat /\ Cardinality(R) \in Nat BY <1>1, <1>6, FS_CardinalityType
<1>8. QED
  <2> DEFINE a == Bytes(E)
             b == Bytes(R)
             c == Bytes(F)
             d == Cardinality(E)
             e == Cardinality(R)
             g == Cardinality(F)
             h == file.size
  <2>1. /\ a \in Nat /\ b \in Nat /\ c \in Nat /\ d \in Nat /\ e \in Nat /\ g \in Nat /\ h \in Nat
        /\ a <= b /\ b <= c + h /\ d <= e /\ e <= g + 1
    BY <1>1, <1>3, <1>5, <1>6, <1>7, Zenon
  <2> HIDE DEF a, b, c, d, e, g, h
  <2>2. a <= c + h /\ d <= g + 1 BY <2>1
  <2>3. QED BY <2>1, <2>2 DEF a, b, c, d, e, g, h

\* Where there is no file there is a name for one.
LEMMA NewFileId ==
    ASSUME NEW t \in Trees, NEW p \in TreePaths, t[p].kind # "file"
    PROVE  \E id \in TreePaths : \A q \in TreePaths : t[q].kind = "file" => t[q].to # id
<1> DEFINE S == {q \in TreePaths : t[q].kind = "file"}
           to == [q \in S |-> t[q].to]
           T == {to[q] : q \in S}
           O == TreePaths \ {p}
<1>1. SUFFICES ASSUME TreePaths \subseteq T PROVE FALSE
  <2>1. PICK id \in TreePaths : id \notin T BY <1>1
  <2>2. \A q \in TreePaths : t[q].kind = "file" => t[q].to # id BY <2>1
  <2>3. QED BY <2>2
<1>2. IsFiniteSet(TreePaths) BY ArchiveAssumption
<1>3. S \in SUBSET O /\ p \in TreePaths OBVIOUS
<1>4. IsFiniteSet(O) /\ Cardinality(O) = Cardinality(TreePaths) - 1 BY <1>2, <1>3, FS_RemoveElement
<1> HIDE DEF O, S
<1>5. IsFiniteSet(S) /\ Cardinality(S) <= Cardinality(O) BY <1>3, <1>4, FS_Subset
<1> HIDE DEF to
<1>6. IsFiniteSet(T) /\ Cardinality(T) <= Cardinality(S) BY <1>5, ImageIs
<1> HIDE DEF T
<1>7. TreePaths \in SUBSET T BY <1>1
<1>8. Cardinality(TreePaths) <= Cardinality(T) BY <1>6, <1>7, FS_Subset
<1>9. Cardinality(TreePaths) \in Nat /\ Cardinality(T) \in Nat /\ Cardinality(S) \in Nat /\ Cardinality(O) \in Nat
  BY <1>2, <1>4, <1>5, <1>6, FS_CardinalityType
<1>10. QED BY <1>4, <1>5, <1>6, <1>8, <1>9

-----------------------------------------------------------------------------
(* Archives: how the tree changes.                                          *)

FilesStay(t, u) == \A q \in TreePaths : t[q].kind = "file" => u[q] = t[q]
OwnFilesStay(t, u, x) == FilesIn(u, x) \subseteq FilesIn(t, x)

\* What an extraction does that stays in destDir: nothing changes elsewhere, and there are
\* no links to lead out of it.
KeepsIn(t, u) == Simple(u) /\ \A p \in TreePaths : ~ IsPrefix(Dest, p) => u[p] = t[p]

\* What was there keeps the tree rooted, if what is new is in a directory.
LEMMA RootsStay ==
    ASSUME NEW t \in Trees, NEW u \in Trees, RootedIn(t), Stays(t, u),
           \A p \in TreePaths : t[p].kind = "nothing" /\ u[p].kind # "nothing" => AtIn(u, Front(p)).kind = "directory"
    PROVE  RootedIn(u)
<1> SUFFICES ASSUME NEW p \in TreePaths, u[p].kind # "nothing" PROVE AtIn(u, Front(p)).kind = "directory"
  BY DEF RootedIn
<1>1. CASE t[p].kind = "nothing" BY <1>1
<1>2. CASE t[p].kind # "nothing"
  <2>1. AtIn(t, Front(p)).kind = "directory" BY <1>2 DEF RootedIn
  <2>2. QED BY <2>1, AtStays
<1>3. QED BY <1>1, <1>2

\* The root is there, and it is above destDir.
LEMMA TheRoot ==
    ASSUME NEW t \in Trees
    PROVE  /\ <<>> \in PathNames /\ <<>> \notin TreePaths /\ IsPrefix(<<>>, Dest)
           /\ AtIn(t, <<>>).kind = "directory" /\ RealIn(t, <<>>) = <<>>
           /\ \A p \in TreePaths : p \in PathNames /\ p # <<>> /\ (Beside(Dest, p) => IsPrefix(Dest, p))
<1>1. Dest \in Seq(STRING) /\ TreePaths \subseteq PathNames BY ArchiveAssumption DEF PlainPaths, PathNames
<1>2. <<>> \in PathNames BY DEF PathNames
<1>3. IsPrefix(<<>>, Dest) BY <1>1, PathsAbove
<1>4. <<>> \notin TreePaths BY <1>3, ArchiveAssumption
<1>5. AtIn(t, <<>>).kind = "directory" BY <1>3, <1>4 DEF AtIn, Directory, Node
<1>6. RealIn(t, <<>>) = <<>> BY <1>2, RealType
<1>7. ASSUME NEW p \in TreePaths, Beside(Dest, p) PROVE IsPrefix(Dest, p)
  <2>1. ~ IsPrefix(p, Dest) BY ArchiveAssumption
  <2>2. QED BY <1>7, <2>1 DEF Beside
<1>8. QED BY <1>1, <1>2, <1>3, <1>4, <1>5, <1>6, <1>7

\* mkdir: directories, where there was nothing.
LEMMA DirectoriesMade ==
    ASSUME tree \in Trees, RootedIn(tree), NEW dir \in PathNames, CanMkdir(dir), tree' = Mkdir(dir)
    PROVE  /\ tree' \in Trees /\ RootedIn(tree') /\ LinksStay(tree, tree') /\ Stays(tree, tree')
           /\ FilesStay(tree, tree') /\ \A x : OwnFilesStay(tree, tree', x)
           /\ AtIn(tree', RealIn(tree', dir)).kind = "directory"
           /\ \A s \in STRING \ Dots :
                 tree' = tree \/ AtIn(tree', RealIn(tree', Append(dir, s))).kind # "file"
           /\ Simple(tree) /\ dir \in PlainPaths /\ Beside(Dest, dir) => KeepsIn(tree, tree')
<1> DEFINE t == tree
           u == tree'
           made == IF IsThere(dir) THEN {} ELSE {Real(a) : a \in {b \in Ancestors(dir) : Makeable(b)}}
<1>1. \A p \in made : p \in TreePaths /\ t[p].kind = "nothing" BY DEF Makeable
<1>2. u = [p \in TreePaths |-> IF p \in made THEN Directory ELSE t[p]] BY DEF Mkdir
<1>3. Directory \in Nodes /\ Directory.kind = "directory" BY DEF Directory, Node, Nodes, PathNames
<1>4. \A p : Real(p) = RealIn(t, p) /\ NodeAt(p) = AtIn(t, p) /\ Located(p) = LocatedIn(t, p) BY InTheTree
<1>5. \A b \in Ancestors(dir) : Makeable(b) =>
          /\ RealIn(t, b) = LocatedIn(t, b) /\ RealIn(t, b) \in TreePaths /\ t[RealIn(t, b)].kind = "nothing"
          /\ ~ IsThere(dir) => RealIn(t, b) \in made
  BY <1>4 DEF Makeable
<1>6. \A b : IsThere(b) <=> AtIn(t, RealIn(t, b)).kind = "directory" BY <1>4 DEF IsThere
<1>7. \A p \in made : ~ IsThere(dir) /\ \E b \in Ancestors(dir) : Makeable(b) /\ p = RealIn(t, b) BY <1>4
<1>8. t \in Trees /\ RootedIn(t) OBVIOUS
<1>9. ~ IsThere(dir) => \A b \in Ancestors(dir) : IsThere(b) \/ Makeable(b) BY DEF CanMkdir
<1>10. IsThere(dir) => made = {} OBVIOUS
<1> HIDE DEF made, t, u
<1>11. u \in Trees BY <1>2, <1>3, <1>8 DEF Trees
<1>12. \A p \in TreePaths : u[p] = t[p] \/ (p \in made /\ t[p].kind = "nothing" /\ u[p] = Directory)
  <2>1. ASSUME NEW p \in TreePaths PROVE u[p] = t[p] \/ (p \in made /\ t[p].kind = "nothing" /\ u[p] = Directory)
    <3>1. u[p] = IF p \in made THEN Directory ELSE t[p] BY <1>2
    <3>2. CASE p \in made BY <1>1, <3>1, <3>2
    <3>3. CASE p \notin made BY <3>1, <3>3
    <3>4. QED BY <3>2, <3>3
  <2>2. QED BY <2>1
<1>13. Stays(t, u) /\ FilesStay(t, u) /\ LinksStay(t, u) /\ NoNewLinks(t, u)
  BY <1>3, <1>12 DEF Stays, FilesStay, LinksStay, NoNewLinks
<1>14. \A x : OwnFilesStay(t, u, x) BY <1>3, <1>12 DEF OwnFilesStay, FilesIn
<1>15. dir \in Seq(STRING) /\ Len(dir) \in Nat /\ TreePaths \subseteq PlainPaths
  BY ArchiveAssumption DEF PathNames
<1>16. ASSUME NEW i \in 1 .. Len(dir)
       PROVE  /\ SubSeq(dir, 1, i) \in PathNames /\ SubSeq(dir, 1, i) # <<>> /\ Last(SubSeq(dir, 1, i)) \in STRING
              /\ Front(SubSeq(dir, 1, i)) = SubSeq(dir, 1, i - 1) /\ SubSeq(dir, 1, i - 1) \in PathNames
  <2>1. i \in 0 .. Len(dir) /\ i - 1 \in 0 .. Len(dir) /\ Len(<<>>) = 0 /\ i # 0 BY <1>15
  <2>2. SubSeq(dir, 1, i) \in Seq(STRING) /\ Len(SubSeq(dir, 1, i)) = i BY <1>15, <2>1, Fronts
  <2>3. Front(SubSeq(dir, 1, i)) = SubSeq(dir, 1, i - 1) BY <1>15, Fronts
  <2>4. SubSeq(dir, 1, i - 1) \in Seq(STRING) BY <1>15, <2>1, Fronts
  <2>5. SubSeq(dir, 1, i) # <<>> BY <2>1, <2>2
  <2>6. Last(SubSeq(dir, 1, i)) \in STRING BY <2>2, <2>5, Fronts
  <2>7. QED BY <2>2, <2>3, <2>4, <2>5, <2>6 DEF PathNames
<1>17. ASSUME NEW a \in Ancestors(dir), ~ IsThere(dir)
       PROVE  AtIn(u, RealIn(t, a)).kind = "directory" /\ RealIn(u, a) = RealIn(t, a)
  <2>1. a \in PathNames BY <1>16 DEF Ancestors
  <2>2. CASE IsThere(a)
    <3>1. AtIn(t, RealIn(t, a)).kind = "directory" BY <1>6, <2>2
    <3>2. AtIn(u, RealIn(t, a)).kind = "directory" BY <1>13, <3>1, AtStays
    <3>3. RealIn(u, a) = RealIn(t, a) BY <1>8, <1>11, <1>13, <2>1, <3>1, PathsStay
    <3>4. QED BY <3>2, <3>3
  <2>3. CASE Makeable(a)
    <3>1. RealIn(t, a) \in made /\ RealIn(t, a) \in TreePaths BY <1>5, <1>17, <2>3
    <3>2. AtIn(u, RealIn(t, a)).kind = "directory" BY <1>2, <1>3, <3>1 DEF AtIn
    <3>3. RealIn(u, a) = RealIn(t, a) BY <1>8, <1>11, <1>13, <1>15, <2>1, <3>1, PlacesStay
    <3>4. QED BY <3>2, <3>3
  <2>4. QED BY <1>9, <1>17, <2>2, <2>3
<1>18. RootedIn(u)
  <2>1. ASSUME NEW p \in TreePaths, t[p].kind = "nothing", u[p].kind # "nothing"
        PROVE  AtIn(u, Front(p)).kind = "directory"
    <3>1. p \in made BY <1>2, <2>1
    <3>2. ~ IsThere(dir) BY <1>7, <3>1
    <3>3. PICK b \in Ancestors(dir) : Makeable(b) /\ p = RealIn(t, b) BY <1>7, <3>1
    <3>4. PICK i \in 1 .. Len(dir) : b = SubSeq(dir, 1, i) BY <3>3 DEF Ancestors
    <3>5. p = Append(RealIn(t, Front(b)), Last(b)) BY <1>5, <3>3 DEF LocatedIn
    <3>6. /\ Last(b) \in STRING /\ Front(b) \in PathNames /\ Front(b) = SubSeq(dir, 1, i - 1)
      BY <1>16, <3>4
    <3>7. RealIn(t, Front(b)) \in Seq(STRING) BY <1>8, <3>6, RealType DEF PathNames
    <3>8. Front(p) = RealIn(t, Front(b)) BY <3>5, <3>6, <3>7, OneMore
    <3>9. CASE i = 1
      <4>1. Front(b) = <<>> BY <1>15, <3>6, <3>9
      <4>2. Front(p) = <<>> BY <1>8, <3>8, <4>1, TheRoot
      <4>3. QED BY <1>11, <4>2, TheRoot
    <3>10. CASE i # 1
      <4>1. i - 1 \in 1 .. Len(dir) BY <1>15, <3>10
      <4>2. Front(b) \in Ancestors(dir) BY <3>6, <4>1 DEF Ancestors
      <4>3. QED BY <1>17, <3>2, <3>8, <4>2
    <3>11. QED BY <3>9, <3>10
  <2>2. QED BY <1>8, <1>11, <1>13, <2>1, RootsStay
<1>19. ASSUME ~ IsThere(dir) PROVE dir \in Ancestors(dir) /\ Makeable(dir)
  <2>1. dir # <<>> BY <1>6, <1>8, <1>19, TheRoot
  <2>2. Len(dir) \in 1 .. Len(dir) BY <1>15, <2>1
  <2>3. SubSeq(dir, 1, Len(dir)) = dir BY <1>15, SubSeqFull
  <2>4. dir \in Ancestors(dir) BY <2>2, <2>3 DEF Ancestors
  <2>5. QED BY <1>9, <1>19, <2>4
<1>20. ASSUME IsThere(dir) PROVE u = t
  <2>1. u = [p \in TreePaths |-> t[p]] BY <1>2, <1>10, <1>20
  <2>2. t = [p \in TreePaths |-> t[p]] BY <1>8 DEF Trees
  <2>3. QED BY <2>1, <2>2
<1>21. AtIn(u, RealIn(u, dir)).kind = "directory"
  <2>1. CASE IsThere(dir) BY <1>6, <1>20, <2>1
  <2>2. CASE ~ IsThere(dir) BY <1>17, <1>19, <2>2
  <2>3. QED BY <2>1, <2>2
<1>22. ASSUME NEW s \in STRING \ Dots, ~ IsThere(dir) PROVE AtIn(u, RealIn(u, Append(dir, s))).kind # "file"
  <2> DEFINE d == RealIn(u, dir)
             z == Append(d, s)
  <2>1. d = RealIn(t, dir) /\ d \in TreePaths /\ t[d].kind = "nothing" BY <1>5, <1>17, <1>19, <1>22
  <2>2. d \in Seq(STRING) /\ s \in STRING BY <1>11, RealType DEF PathNames
  <2>3. Front(z) = d /\ Last(z) = s BY <2>2, OneMore
  <2>4. z \in TreePaths => t[z].kind = "nothing"
    <3>1. AtIn(t, d).kind = "nothing" BY <2>1 DEF AtIn
    <3> HIDE DEF z, d
    <3>2. QED BY <1>8, <2>3, <3>1 DEF RootedIn
  <2> DEFINE r == RealIn(u, Append(dir, s))
  <2> HIDE DEF z
  <2>5. AtIn(u, z).kind \notin {"file", "symlink"}
    <3>1. CASE z \in TreePaths BY <1>3, <1>12, <2>4, <3>1 DEF AtIn
    <3>2. CASE z \notin TreePaths BY <3>2 DEF AtIn, Directory, Nothing, Node
    <3>3. QED BY <3>1, <3>2
  <2>6. ~ Turns(u, z) BY <2>3, <2>5 DEF Turns
  <2>7. r = z BY <1>11, <2>2, <2>6, BehindDirectory DEF z
  <2>8. QED BY <2>5, <2>7
<1>23. ASSUME Simple(t), dir \in PlainPaths, Beside(Dest, dir) PROVE KeepsIn(t, u)
  <2>1. Simple(u)
    <3>1. \A q \in TreePaths : u[q].kind # "directory" => u[q] = t[q] BY <1>3, <1>12
    <3>2. \A q \in TreePaths : u[q].kind \in {"file", "symlink"} => u[q] = t[q] BY <3>1
    <3>3. QED BY <1>23, <3>2 DEF Simple
  <2>2. ASSUME NEW p \in TreePaths, p \in made PROVE IsPrefix(Dest, p)
    <3>1. PICK b \in Ancestors(dir) : Makeable(b) /\ p = RealIn(t, b) BY <1>7, <2>2
    <3>2. PICK i \in 1 .. Len(dir) : b = SubSeq(dir, 1, i) BY <3>1 DEF Ancestors
    <3>3. i \in 0 .. Len(dir) /\ Dest \in Seq(STRING) BY <1>15, ArchiveAssumption DEF PlainPaths, PathNames
    <3>4. IsPrefix(b, dir) /\ Beside(Dest, b) BY <1>15, <1>23, <3>2, <3>3, PathsAbove
    <3>5. b \in PlainPaths BY <1>16, <1>23, <3>2, <3>4, PlainFronts
    <3>6. p = b BY <1>8, <1>23, <3>1, <3>5, SimplePaths
    <3>7. QED BY <1>8, <3>4, <3>6, TheRoot
  <2>3. QED BY <1>12, <2>1, <2>2 DEF KeepsIn
<1>24. QED BY <1>11, <1>13, <1>14, <1>18, <1>20, <1>21, <1>22, <1>23 DEF t, u

\* symlink and link: a link, where there was nothing.
LEMMA LinkMade ==
    ASSUME NEW t \in Trees, RootedIn(t), NEW p \in TreePaths, t[p].kind = "nothing",
           AtIn(t, Front(p)).kind = "directory", NEW node \in Nodes, NEW u, u = [t EXCEPT ![p] = node],
           \/ node.kind = "symlink"
           \/ node.kind = "file" /\ \E q \in TreePaths : t[q] = node
    PROVE  /\ u \in Trees /\ RootedIn(u) /\ LinksStay(t, u) /\ Stays(t, u)
           /\ FilesStay(t, u) /\ \A x : OwnFilesStay(t, u, x)
           /\ AtIn(u, p) = node
<1>1. u \in Trees /\ u[p] = node /\ \A q \in TreePaths : q # p => u[q] = t[q] BY DEF Trees
<1>2. node.kind # "nothing" OBVIOUS
<1>3. Stays(t, u) /\ FilesStay(t, u) /\ LinksStay(t, u)
  <2>1. \A q \in TreePaths : t[q].kind # "nothing" => u[q] = t[q] BY <1>1
  <2>2. QED BY <2>1 DEF Stays, FilesStay, LinksStay
<1>4. \A x : OwnFilesStay(t, u, x)
  <2>1. ASSUME NEW x, NEW q \in TreePaths, u[q].kind = "file", u[q].by = x PROVE u[q] \in FilesIn(t, x)
    <3>1. \E r \in TreePaths : t[r] = u[q] BY <1>1, <2>1
    <3>2. QED BY <2>1, <3>1 DEF FilesIn
  <2>2. QED BY <2>1 DEF OwnFilesStay, FilesIn
<1>5. RootedIn(u)
  <2>1. \A q \in TreePaths : t[q].kind = "nothing" /\ u[q].kind # "nothing" => q = p BY <1>1
  <2>2. AtIn(u, Front(p)).kind = "directory" BY <1>3, AtStays
  <2>3. QED BY <1>1, <1>3, <2>1, <2>2, RootsStay
<1>6. QED BY <1>1, <1>3, <1>4, <1>5 DEF AtIn

\* writeFile: a file, under all its names.
Filled(t, p, file) ==
    [q \in TreePaths |-> IF q = p \/ (t[q].kind = "file" /\ t[q].to = file.to) THEN file ELSE t[q]]

\* Writing a file changes the files that it is, and nothing else.
LEMMA FileWritten ==
    ASSUME NEW t \in Trees, RootedIn(t), NEW p \in TreePaths, t[p].kind \in {"nothing", "file"},
           AtIn(t, Front(p)).kind = "directory", NEW file \in Nodes, file.kind = "file",
           NEW u, u = Filled(t, p, file)
    PROVE  /\ u \in Trees /\ RootedIn(u) /\ LinksStay(t, u) /\ Stays(t, u)
           /\ \A x : FilesIn(u, x) \subseteq FilesIn(t, x) \cup {file}
           /\ \A x : x # file.by => OwnFilesStay(t, u, x)
           /\ \A r \in PathNames : RealIn(t, r) \in PlainPaths => RealIn(u, r) = RealIn(t, r)
           /\ AtIn(u, p) = file
           /\ Simple(t) /\ IsPrefix(Dest, p) /\ (t[p].kind = "file" => t[p].to = file.to)
              /\ (t[p].kind = "nothing" => \A q \in TreePaths : t[q].kind = "file" => t[q].to # file.to) =>
                  KeepsIn(t, u)
           /\ t[p].kind = "nothing" /\ (\A q \in TreePaths : t[q].kind = "file" => t[q].to # file.to) =>
                  FilesStay(t, u)
<1>1. \A q \in TreePaths : u[q] = IF q = p \/ (t[q].kind = "file" /\ t[q].to = file.to) THEN file ELSE t[q]
  BY DEF Filled
<1>2. u \in Trees BY DEF Trees, Filled
<1>3. \A q \in TreePaths : u[q] = t[q] \/ (u[q] = file /\ t[q].kind \in {"nothing", "file"}) BY <1>1
<1>4. u[p] = file BY <1>1
<1>5. \A q \in TreePaths : q # p /\ t[q].kind = "nothing" => u[q] = t[q] BY <1>1
<1>6. ASSUME t[p].kind = "nothing", \A q \in TreePaths : t[q].kind = "file" => t[q].to # file.to
      PROVE  FilesStay(t, u)
  BY <1>1, <1>6 DEF FilesStay
<1>7. Stays(t, u) BY <1>3 DEF Stays
<1>8. LinksStay(t, u) /\ NoNewLinks(t, u) BY <1>3 DEF LinksStay, NoNewLinks
<1>9. \A x : FilesIn(u, x) \subseteq FilesIn(t, x) \cup {file} BY <1>3 DEF FilesIn
<1>10. \A x : x # file.by => OwnFilesStay(t, u, x) BY <1>3 DEF FilesIn, OwnFilesStay
<1>11. RootedIn(u)
  <2>1. \A q \in TreePaths : t[q].kind = "nothing" /\ u[q].kind # "nothing" => q = p BY <1>5
  <2>2. AtIn(u, Front(p)).kind = "directory" BY <1>7, AtStays
  <2>3. QED BY <1>2, <1>7, <2>1, <2>2, RootsStay
<1>12. ASSUME NEW r \in PathNames, RealIn(t, r) \in PlainPaths PROVE RealIn(u, r) = RealIn(t, r)
  BY <1>2, <1>7, <1>8, <1>12, PlacesStay
<1>13. ASSUME Simple(t), IsPrefix(Dest, p), t[p].kind = "file" => t[p].to = file.to,
              t[p].kind = "nothing" => \A q \in TreePaths : t[q].kind = "file" => t[q].to # file.to
       PROVE  KeepsIn(t, u)
  <2>1. \A q \in TreePaths : t[q].kind = "file" /\ t[q].to = file.to => q = p
    <3>1. CASE t[p].kind = "file" BY <1>13, <3>1 DEF Simple
    <3>2. CASE t[p].kind = "nothing" BY <1>13, <3>2
    <3>3. QED BY <3>1, <3>2
  <2>2. \A q \in TreePaths : q # p => u[q] = t[q] BY <1>1, <2>1
  <2>3. Simple(u)
    <3>1. \A q \in TreePaths : u[q].kind # "symlink" BY <1>4, <1>13, <2>2 DEF Simple
    <3>2. ASSUME NEW q \in TreePaths, NEW r \in TreePaths, u[q].kind = "file", u[r].kind = "file", u[q].to = u[r].to
          PROVE  q = r
      <4>1. CASE q = p /\ r # p BY <1>4, <2>1, <2>2, <3>2, <4>1
      <4>2. CASE q # p /\ r = p BY <1>4, <2>1, <2>2, <3>2, <4>2
      <4>3. CASE q # p /\ r # p BY <1>13, <2>2, <3>2, <4>3 DEF Simple
      <4>4. QED BY <4>1, <4>2, <4>3
    <3>3. QED BY <3>1, <3>2 DEF Simple
  <2>4. QED BY <1>13, <2>2, <2>3 DEF KeepsIn
<1>14. QED BY <1>2, <1>4, <1>6, <1>7, <1>8, <1>9, <1>10, <1>11, <1>12, <1>13 DEF AtIn

\* Another program: a file comes, where there was nothing, or goes.
LEMMA FileComesOrGoes ==
    ASSUME NEW t \in Trees, RootedIn(t), NEW p \in TreePaths, t[p].kind \in {"nothing", "file"},
           AtIn(t, Front(p)).kind = "directory", NEW file \in Nodes, file.kind = "file", file.by = Unset,
           NEW u, u = [t EXCEPT ![p] = IF @.kind = "nothing" THEN file ELSE Nothing]
    PROVE  u \in Trees /\ RootedIn(u) /\ \A x \in Extractions : OwnFilesStay(t, u, x)
<1>1. Nothing \in Nodes /\ Nothing.kind = "nothing" BY DEF Nothing, Node, Nodes, PathNames
<1>2. u \in Trees /\ u[p] = (IF t[p].kind = "nothing" THEN file ELSE Nothing)
      /\ \A q \in TreePaths : q # p => u[q] = t[q]
  BY <1>1 DEF Trees
<1>3. \A q \in TreePaths : t[q].kind = "directory" => u[q].kind = "directory" BY <1>2
<1>4. \A r : AtIn(t, r).kind = "directory" => AtIn(u, r).kind = "directory" BY <1>3 DEF AtIn
<1>5. RootedIn(u)
  <2>1. \A q \in TreePaths : u[q].kind # "nothing" => AtIn(t, Front(q)).kind = "directory" BY <1>2 DEF RootedIn
  <2>2. QED BY <1>4, <2>1 DEF RootedIn
<1>6. ASSUME NEW x \in Extractions PROVE OwnFilesStay(t, u, x)
  <2>1. x # Unset BY ArchiveAssumption
  <2>2. \A q \in TreePaths : u[q].kind = "file" /\ u[q].by = x => u[q] = t[q] BY <1>1, <1>2, <2>1
  <2>3. QED BY <2>2 DEF OwnFilesStay, FilesIn
<1>7. QED BY <1>2, <1>5, <1>6

-----------------------------------------------------------------------------
(* Archives: the invariant.                                                 *)

Stages == {"idle", "asking", "entry", "checking", "making", "writing", "ok", "thrown"}
Unstarted == {"idle", "asking"}
Amid == {"checking", "making", "writing"}
Formats == {FormatOf(order) : order \in Orders} \cup {Unset}
ExtractionRuns ==
    [at : Stages, order : Orders \cup {Unset}, format : Formats, entries : Seq(ArchiveEntry),
     next : Nat, count : Nat, total : Nat, extracted : Nat, written : Nat, skipped : SUBSET Nat,
     warned : SUBSET Nat, before : Trees]

Now(run) == run.entries[run.next]
PathNow(run) == Absolute(run.format, Now(run))

\* Where an entry may come: in destDir, or, of a gzip file, above it.
Placed(p) == p \in PlainPaths /\ Beside(Dest, p)

\* Where a call stands: which entry it is at, and what it knows of it.
PlaceOK(run) ==
    /\ run.at # "idle" => run.order \in Orders
    /\ run.at \in Amid => /\ run.next \in 1 .. Len(run.entries)
                          /\ PathNow(run) \in PathNames /\ Placed(PathNow(run))
                          /\ Now(run).kind # "device"
                          /\ Now(run).kind \in {"symlink", "link"} => run.order.followSymlinks
    /\ run.at = "checking" => Now(run).kind = "file"
    /\ run.at = "writing" => Now(run).kind # "directory"
    /\ run.at = "entry" => run.next \in 1 .. Len(run.entries) + 1
    /\ run.at = "ok" => run.next = Len(run.entries) + 1
    /\ run.at \in Unstarted => run.entries = <<>> /\ run.written = 0
    /\ run.entries # <<>> => run.entries = Walked(run.order.archive, run.format)

\* What is charged already is on its way into the tree, or there, or was lost.
Promised(run) == run.at \in Amid /\ Now(run).kind = "file"
Coming(run) == IF Promised(run) THEN 1 ELSE 0
ComingBytes(run) == IF Promised(run) THEN Now(run).size ELSE 0
BudgetOK(F, run) ==
    /\ run.at \in Unstarted => F = {}
    /\ run.at # "idle" =>
          /\ Cardinality(F) + Coming(run) <= run.count /\ run.count <= run.order.limits.maxEntries
          /\ Bytes(F) + ComingBytes(run) <= run.total /\ run.total <= run.order.limits.maxTotalBytes
          /\ \A file \in F : file.size <= run.order.limits.maxEntryBytes
          /\ ComingBytes(run) <= run.order.limits.maxEntryBytes
          /\ run.at # "thrown" => Bytes(F) <= run.written

\* Without overwrite the files that were there are, and what comes is none of them.
KeepOK(t, run) ==
    ~ run.order.overwrite =>
        /\ \A p \in TreePaths : run.before[p].kind = "file" => t[p] = run.before[p]
        /\ run.at \in {"making", "writing"} /\ Now(run).kind = "file" =>
              AtIn(t, RealIn(t, PathNow(run))).kind # "file"

\* The entries that are done are there.
FoundIn(t, e, p) == AtIn(t, IF e.kind \in {"symlink", "link"} THEN LocatedIn(t, p) ELSE RealIn(t, p))
EntryOK(t, x, e, p, overwrite) ==
    /\ p \in PathNames /\ (e.kind \in {"symlink", "link"} => p # <<>>)
    /\ FoundIn(t, e, p).kind # "nothing"
    /\ e.kind = "file" /\ ~ overwrite =>
          FoundIn(t, e, p) = Node("file", x, e.size, FoundIn(t, e, p).to)
DoneOK(t, x, run) ==
    \A i \in Done(run) : i < run.next =>
        EntryOK(t, x, run.entries[i], Absolute(run.format, run.entries[i]), run.order.overwrite)

\* Without followSymlinks there are no links, and nothing has changed outside destDir.
InsideOK(t, run) ==
    /\ run.at \in Unstarted \/ ~ run.order.followSymlinks => Simple(t)
    /\ run.entries # <<>> /\ ~ run.order.followSymlinks =>
          \A p \in TreePaths : ~ IsPrefix(Dest, p) => t[p] = run.before[p]

ExtractionOK(t, x, run, alone) ==
    /\ PlaceOK(run) /\ BudgetOK(FilesIn(t, x), run)
    /\ run.at # "idle" /\ alone => KeepOK(t, run) /\ DoneOK(t, x, run)
    /\ alone => InsideOK(t, run)
ArchiveInv ==
    /\ tree \in Trees /\ RootedIn(tree) /\ extractions \in [Extractions -> ExtractionRuns]
    /\ diskFaults \in Nat /\ intrusions \in Nat
    /\ \A x \in Extractions : ExtractionOK(tree, x, extractions[x], Alone(x))

-----------------------------------------------------------------------------
(* Archives: how a call goes on.                                            *)

\* Fewer files fit as well.
LEMMA BudgetStays ==
    ASSUME NEW F, IsFiniteSet(F), \A f \in F : f.size \in Nat, NEW E \in SUBSET F,
           NEW run \in ExtractionRuns, PlaceOK(run), BudgetOK(F, run)
    PROVE  BudgetOK(E, run)
<1>1. Bytes(E) <= Bytes(F) /\ Bytes(E) \in Nat /\ Bytes(F) \in Nat BY FewerBytes, BytesAre
<1>2. IsFiniteSet(E) /\ Cardinality(E) <= Cardinality(F) BY FS_Subset
<1>3. Cardinality(E) \in Nat /\ Cardinality(F) \in Nat BY <1>2, FS_CardinalityType
<1>4. Coming(run) \in Nat /\ ComingBytes(run) \in Nat
  <2>1. Promised(run) => Now(run) \in ArchiveEntry BY DEF Promised, PlaceOK, ExtractionRuns, Now
  <2>2. Promised(run) => Now(run).size \in Nat BY <2>1 DEF ArchiveEntry
  <2>3. QED BY <2>2 DEF Coming, ComingBytes
<1>5. run.count \in Nat /\ run.total \in Nat /\ run.written \in Nat BY DEF ExtractionRuns
<1>6. SUFFICES ASSUME run.at # "idle"
               PROVE  /\ Cardinality(E) + Coming(run) <= run.count
                      /\ Bytes(E) + ComingBytes(run) <= run.total
                      /\ run.at # "thrown" => Bytes(E) <= run.written
  BY DEF BudgetOK, Unstarted
<1>7. /\ Cardinality(F) + Coming(run) <= run.count
      /\ Bytes(F) + ComingBytes(run) <= run.total
      /\ run.at # "thrown" => Bytes(F) <= run.written
  BY <1>6 DEF BudgetOK
<1>8. QED BY <1>1, <1>2, <1>3, <1>4, <1>5, <1>7

\* A sequence with one element more.
LEMMA Appended ==
    ASSUME NEW S, NEW d \in Seq(S), NEW e \in S
    PROVE  Append(d, e) \in Seq(S) /\ Len(Append(d, e)) = Len(d) + 1 /\ Len(d) \in Nat
OBVIOUS

\* What is there stays there while nothing is taken away.
LEMMA EntryStays ==
    ASSUME NEW t \in Trees, NEW u \in Trees, RootedIn(t), Stays(t, u), LinksStay(t, u),
           NEW overwrite, overwrite \/ FilesStay(t, u), NEW x, NEW e, NEW p, EntryOK(t, x, e, p, overwrite)
    PROVE  EntryOK(u, x, e, p, overwrite)
<1> DEFINE isLink == e.kind \in {"symlink", "link"}
           q == IF isLink THEN LocatedIn(t, p) ELSE RealIn(t, p)
           r == IF isLink THEN LocatedIn(u, p) ELSE RealIn(u, p)
<1>1. p \in PathNames /\ (isLink => p # <<>>) /\ AtIn(t, q).kind # "nothing" BY DEF EntryOK, FoundIn
<1>2. r = q
  <2>1. CASE ~ isLink BY <1>1, <2>1, PathsStay
  <2>2. CASE isLink
    <3>1. Front(p) \in PathNames /\ Last(p) \in STRING BY <1>1, <2>2, Fronts DEF PathNames
    <3>2. RealIn(t, Front(p)) \in PathNames BY <3>1, RealType
    <3> DEFINE d == RealIn(t, Front(p))
    <3>3. q = Append(d, Last(p)) BY <2>2 DEF LocatedIn
    <3> HIDE DEF d
    <3>4. d \in Seq(STRING) BY <3>2 DEF d, PathNames
    <3>5. q \in PathNames /\ Len(q) = Len(d) + 1 /\ Len(d) \in Nat /\ SubSeq(q, 1, Len(d)) = d
      <4> DEFINE s == Last(p)
                 z == Append(d, s)
      <4>1. s \in STRING BY <3>1
      <4> HIDE DEF s
      <4>2. z \in Seq(STRING) /\ Len(z) = Len(d) + 1 /\ Len(d) \in Nat
        BY <3>4, <4>1, Appended
      <4>3. Front(z) = d BY <3>4, <4>1, Fronts
      <4>4. q = z BY <3>3 DEF s
      <4> HIDE DEF q, z
      <4>5. Len(z) - 1 = Len(d) BY <4>2
      <4>6. SubSeq(z, 1, Len(d)) = d BY <4>3, <4>5 DEF Front
      <4>7. QED BY <4>2, <4>4, <4>6 DEF PathNames
    <3>6. Len(d) \in 0 .. Len(q) /\ Len(d) < Len(q) BY <3>5
    <3>7. AtIn(t, SubSeq(q, 1, Len(d))).kind = "directory"
      <4> HIDE DEF q
      <4>1. QED BY <1>1, <3>5, <3>6, AboveAreDirectories
    <3>8. AtIn(t, RealIn(t, Front(p))).kind # "nothing" BY <3>5, <3>7 DEF d
    <3>9. RealIn(u, Front(p)) = RealIn(t, Front(p)) BY <3>1, <3>8, PathsStay
    <3>10. QED BY <2>2, <3>9 DEF LocatedIn
  <2>3. QED BY <2>1, <2>2
<1>3. FoundIn(t, e, p) = AtIn(t, q) /\ FoundIn(u, e, p) = AtIn(u, q) BY <1>2 DEF FoundIn
<1> HIDE DEF q, r
<1>4. AtIn(u, q).kind # "nothing" BY <1>1, AtStays
<1>5. ASSUME e.kind = "file", ~ overwrite PROVE AtIn(u, q) = AtIn(t, q)
  <2>1. FilesStay(t, u) /\ AtIn(t, q).kind = "file" BY <1>3, <1>5 DEF EntryOK, Node
  <2>2. q \in TreePaths BY <2>1 DEF AtIn, Nothing, Directory, Node
  <2>3. QED BY <2>1, <2>2 DEF AtIn, FilesStay
<1>6. QED BY <1>1, <1>3, <1>4, <1>5 DEF EntryOK

\* What stays the same of a call once it has begun.
SameCall(run, new) ==
    /\ new.order = run.order /\ new.format = run.format /\ new.entries = run.entries
    /\ new.before = run.before

\* And what it has left alone is left alone.
LEMMA InsideGoesOn ==
    ASSUME NEW t, NEW u, NEW run, NEW new, InsideOK(t, run), SameCall(run, new), new.at \notin Unstarted,
           u = t \/ (~ new.order.followSymlinks /\ Simple(t) => KeepsIn(t, u))
    PROVE  InsideOK(u, new)
<1> SUFFICES ASSUME ~ new.order.followSymlinks
             PROVE  /\ Simple(u)
                    /\ new.entries # <<>> => \A p \in TreePaths : ~ IsPrefix(Dest, p) => u[p] = new.before[p]
  BY DEF InsideOK
<1>1. /\ Simple(t)
      /\ new.entries # <<>> => \A p \in TreePaths : ~ IsPrefix(Dest, p) => t[p] = new.before[p]
  BY DEF InsideOK, SameCall
<1>2. u = t \/ KeepsIn(t, u) BY <1>1
<1>3. QED BY <1>1, <1>2 DEF KeepsIn

\* What a call has done stays done, if the tree keeps it and the entry it leaves is there or is not done.
LEMMA DoneGoesOn ==
    ASSUME NEW t, NEW u, NEW x, NEW run \in ExtractionRuns, NEW new \in ExtractionRuns, DoneOK(t, x, run),
           \A i \in Done(run) :
               LET e == run.entries[i]
                   p == Absolute(run.format, e)
               IN  EntryOK(t, x, e, p, run.order.overwrite) => EntryOK(u, x, e, p, run.order.overwrite),
           SameCall(run, new), run.skipped \subseteq new.skipped, run.warned \subseteq new.warned,
           \/ new.next = run.next
           \/ /\ new.next = run.next + 1
              /\ \/ run.next \notin Done(new)
                 \/ EntryOK(u, x, Now(run), PathNow(run), run.order.overwrite)
    PROVE  DoneOK(u, x, new)
<1> SUFFICES ASSUME NEW i \in Done(new), i < new.next
             PROVE  EntryOK(u, x, new.entries[i], Absolute(new.format, new.entries[i]), new.order.overwrite)
  BY DEF DoneOK
<1>1. i \in Done(run) BY DEF Done, SameCall
<1>2. run.next \in Nat /\ i \in Nat
  <2>1. run.entries \in Seq(ArchiveEntry) BY DEF ExtractionRuns
  <2>2. DOMAIN run.entries = 1 .. Len(run.entries) BY <2>1
  <2>3. QED BY <1>1, <2>2 DEF Done, ExtractionRuns
<1>3. CASE i < run.next BY <1>1, <1>3 DEF DoneOK, SameCall
<1>4. CASE ~ (i < run.next)
  <2>1. i = run.next BY <1>2, <1>4
  <2>2. new.next # run.next BY <1>2, <1>4
  <2>3. QED BY <2>1, <2>2 DEF SameCall, Now, PathNow
<1>5. QED BY <1>3, <1>4

\* The files of an extraction that does not move can only become fewer.
LEMMA OthersKeep ==
    ASSUME NEW t \in Trees, NEW u \in Trees, NEW y, NEW run \in ExtractionRuns, NEW alone, NEW still,
           ExtractionOK(t, y, run, alone), OwnFilesStay(t, u, y), still => alone /\ u = t
    PROVE  ExtractionOK(u, y, run, still)
<1>1. IsFiniteSet(FilesIn(t, y)) /\ \A f \in FilesIn(t, y) : f.size \in Nat BY FilesAre
<1>2. FilesIn(u, y) \in SUBSET FilesIn(t, y) BY DEF OwnFilesStay
<1>3. BudgetOK(FilesIn(u, y), run) BY <1>1, <1>2, BudgetStays DEF ExtractionOK
<1>4. QED BY <1>3 DEF ExtractionOK

\* A step of one extraction.
Steps(x, new) ==
    /\ extractions' = [extractions EXCEPT ![x] = new] /\ intrusions' = intrusions /\ diskFaults' \in Nat

\* The invariant, after a step of one extraction: the others have no more files than before.
LEMMA StepKeeps ==
    ASSUME ArchiveInv, NEW x \in Extractions, NEW new \in ExtractionRuns, Steps(x, new),
           tree' \in Trees, RootedIn(tree'),
           \A y \in Extractions \ {x} : OwnFilesStay(tree, tree', y),
           new.at \in Unstarted => tree' = tree /\ extractions[x].at \in Unstarted,
           ExtractionOK(tree', x, new, Alone(x))
    PROVE  ArchiveInv'
<1>1. tree \in Trees /\ extractions \in [Extractions -> ExtractionRuns] /\ intrusions \in Nat BY DEF ArchiveInv
<1>2. /\ extractions'[x] = new /\ \A y \in Extractions \ {x} : extractions'[y] = extractions[y]
      /\ extractions' \in [Extractions -> ExtractionRuns] /\ intrusions' = intrusions
  BY <1>1 DEF Steps
<1>3. Alone(x)' <=> Alone(x) BY <1>2 DEF Alone
<1>4. ASSUME NEW y \in Extractions PROVE ExtractionOK(tree', y, extractions'[y], Alone(y)')
  <2>1. CASE y = x
    <3>1. PlaceOK(new) /\ BudgetOK(FilesIn(tree', x), new) BY DEF ExtractionOK
    <3>2. /\ new.at # "idle" /\ Alone(x)' => KeepOK(tree', new) /\ DoneOK(tree', x, new)
          /\ Alone(x)' => InsideOK(tree', new)
      BY <1>3 DEF ExtractionOK
    <3>3. QED BY <1>2, <2>1, <3>1, <3>2 DEF ExtractionOK
  <2>2. CASE y # x
    <3>1. ASSUME Alone(y)' PROVE Alone(y) /\ tree' = tree
      <4>1. new.at \in Unstarted BY <1>2, <2>2, <3>1 DEF Alone, Unstarted
      <4>2. tree' = tree /\ extractions[x].at \in Unstarted BY <4>1
      <4>3. Alone(y) BY <1>2, <3>1, <4>2 DEF Alone, Unstarted
      <4>4. QED BY <4>2, <4>3
    <3> DEFINE alone == Alone(y)
               still == Alone(y)'
    <3>2. ExtractionOK(tree, y, extractions[y], alone) /\ extractions[y] \in ExtractionRuns /\ extractions'[y] = extractions[y]
      BY <1>1, <1>2, <2>2 DEF ArchiveInv
    <3>3. OwnFilesStay(tree, tree', y) BY <2>2
    <3>4. still => alone /\ tree' = tree BY <3>1
    <3> HIDE DEF alone, still
    <3>5. ExtractionOK(tree', y, extractions[y], still) BY <1>1, <3>2, <3>3, <3>4, OthersKeep
    <3>6. QED BY <3>2, <3>5 DEF still
  <2>3. QED BY <2>1, <2>2
<1>5. diskFaults' \in Nat BY DEF Steps
<1>6. QED BY <1>1, <1>2, <1>4, <1>5 DEF ArchiveInv

\* What a call is, and what it does next.
LEMMA RunIs ==
    ASSUME ArchiveInv, NEW x \in Extractions
    PROVE  /\ extractions[x] \in ExtractionRuns /\ PlaceOK(extractions[x])
           /\ BudgetOK(FilesIn(tree, x), extractions[x])
           /\ extractions[x].at # "idle" /\ Alone(x) => KeepOK(tree, extractions[x]) /\ DoneOK(tree, x, extractions[x])
           /\ Alone(x) => InsideOK(tree, extractions[x])
           /\ Entry(x) = Now(extractions[x]) /\ EntryPath(x) = PathNow(extractions[x])
           /\ tree \in Trees /\ RootedIn(tree) /\ extractions \in [Extractions -> ExtractionRuns]
           /\ diskFaults \in Nat /\ intrusions \in Nat
           /\ IsFiniteSet(FilesIn(tree, x)) /\ \A f \in FilesIn(tree, x) : f.size \in Nat
<1>1. tree \in Trees /\ extractions \in [Extractions -> ExtractionRuns] BY DEF ArchiveInv
<1>2. ExtractionOK(tree, x, extractions[x], Alone(x)) BY DEF ArchiveInv
<1>3. Entry(x) = Now(extractions[x]) /\ EntryPath(x) = PathNow(extractions[x])
  BY DEF Entry, EntryPath, Now, PathNow
<1>4. QED BY <1>1, <1>2, <1>3, FilesAre DEF ExtractionOK, ArchiveInv

\* What is at an entry of a call under way.
LEMMA NowIs ==
    ASSUME NEW run \in ExtractionRuns, run.next \in 1 .. Len(run.entries)
    PROVE  /\ Now(run) \in ArchiveEntry /\ Now(run).size \in Nat /\ Now(run).kind \in EntryKinds
           /\ run.next \in DOMAIN run.entries
<1>1. run.entries \in Seq(ArchiveEntry) BY DEF ExtractionRuns
<1>2. Now(run) \in ArchiveEntry /\ run.next \in DOMAIN run.entries BY <1>1 DEF Now
<1>3. QED BY <1>2 DEF ArchiveEntry

\* A call begins with nothing charged and nothing written.
LEMMA CallExtractKeeps ==
    ASSUME ArchiveInv, NEW x \in Extractions, NEW order \in Orders, CallExtract(x, order)
    PROVE  ArchiveInv'
<1> DEFINE run == extractions[x]
           at == IF order.valid /\ FormatOf(order) # Unset THEN "asking" ELSE "thrown"
           new == [NoExtraction EXCEPT !.at = at, !.order = order, !.format = FormatOf(order)]
<1>1. /\ run \in ExtractionRuns /\ run.at = "idle" /\ PlaceOK(run) /\ BudgetOK(FilesIn(tree, x), run)
      /\ tree \in Trees /\ RootedIn(tree) /\ diskFaults \in Nat
  BY RunIs DEF CallExtract
<1>2. tree' = tree /\ Steps(x, new) BY <1>1 DEF CallExtract, Moves, Steps
<1>3. new \in ExtractionRuns /\ new.at \in {"asking", "thrown"} /\ new.entries = <<>> /\ new.order = order
      /\ new.count = 0 /\ new.total = 0 /\ new.written = 0 /\ new.next = 0
      /\ \A p \in TreePaths : new.before[p].kind = "nothing"
  <2> DEFINE empty == [p \in TreePaths |-> Nothing]
  <2>1. empty \in Trees /\ \A p \in TreePaths : empty[p].kind = "nothing"
    <3>1. Nothing \in Nodes /\ Nothing.kind = "nothing" BY DEF Nothing, Node, Nodes, PathNames
    <3>2. QED BY <3>1 DEF Trees
  <2>2. at \in {"asking", "thrown"} /\ FormatOf(order) \in Formats BY DEF Formats
  <2>3. <<>> \in Seq(ArchiveEntry) OBVIOUS
  <2>4. NoExtraction \in ExtractionRuns
    <3> HIDE DEF empty
    <3>1. empty = [p \in TreePaths |-> Nothing] BY DEF empty
    <3>2. QED BY <2>1, <2>3, <3>1 DEF NoExtraction, ExtractionRuns, Stages, Formats
  <2>5. new \in ExtractionRuns
    <3> HIDE DEF at
    <3>1. at \in Stages BY <2>2 DEF Stages
    <3>2. QED BY <2>2, <2>4, <3>1 DEF ExtractionRuns
  <2>6. /\ new.at = at /\ new.entries = <<>> /\ new.order = order
        /\ new.count = 0 /\ new.total = 0 /\ new.written = 0 /\ new.next = 0 /\ new.before = empty
    <3> HIDE DEF at
    <3>1. QED BY DEF NoExtraction
  <2> HIDE DEF at, empty, new
  <2>7. QED BY <2>1, <2>2, <2>5, <2>6
<1> HIDE DEF new
<1>4. PlaceOK(new) BY <1>3 DEF PlaceOK, Amid, Unstarted
<1>5. FilesIn(tree, x) = {} BY <1>1 DEF BudgetOK, Unstarted
<1>6. order.limits.maxEntries \in Nat /\ order.limits.maxEntryBytes \in Nat /\ order.limits.maxTotalBytes \in Nat
  BY ArchiveAssumption
<1>7. BudgetOK({}, new)
  <2>1. Cardinality({}) = 0 /\ IsFiniteSet({}) BY FS_EmptySet
  <2>2. Bytes({}) = 0 BY <2>1, BytesAre
  <2>3. Coming(new) = 0 /\ ComingBytes(new) = 0 BY <1>3 DEF Coming, ComingBytes, Promised, Amid
  <2>4. QED BY <1>3, <1>6, <2>1, <2>2, <2>3 DEF BudgetOK
<1>8. KeepOK(tree, new) BY <1>3 DEF KeepOK
<1>9. DoneOK(tree, x, new)
  <2>1. DOMAIN new.entries = {} BY <1>3
  <2>2. QED BY <2>1 DEF DoneOK, Done
<1>13. Alone(x) => InsideOK(tree, new)
  <2>1. Alone(x) => InsideOK(tree, run) BY RunIs
  <2>2. Alone(x) => Simple(tree) BY <1>1, <2>1 DEF InsideOK, Unstarted
  <2>3. QED BY <1>3, <2>2 DEF InsideOK
<1>10. ExtractionOK(tree, x, new, Alone(x)) BY <1>4, <1>5, <1>7, <1>8, <1>9, <1>13 DEF ExtractionOK
<1>11. \A y \in Extractions \ {x} : OwnFilesStay(tree, tree', y) BY <1>2 DEF OwnFilesStay
<1>12. QED BY <1>1, <1>2, <1>3, <1>10, <1>11, StepKeeps DEF Unstarted

\* How a call goes on while the tree is the same one: its budget and what it has done.
LEMMA QuietKeeps ==
    ASSUME ArchiveInv, NEW x \in Extractions, NEW new \in ExtractionRuns, Steps(x, new), tree' = tree,
           new.at \notin Unstarted, PlaceOK(new), BudgetOK(FilesIn(tree, x), new),
           Alone(x) => KeepOK(tree, new) /\ DoneOK(tree, x, new) /\ InsideOK(tree, new)
    PROVE  ArchiveInv'
<1>1. tree \in Trees /\ RootedIn(tree) BY RunIs
<1>2. ExtractionOK(tree, x, new, Alone(x)) BY DEF ExtractionOK
<1>3. \A y \in Extractions \ {x} : OwnFilesStay(tree, tree', y) BY DEF OwnFilesStay
<1>4. tree' \in Trees /\ RootedIn(tree') BY <1>1
<1>5. ExtractionOK(tree', x, new, Alone(x)) BY <1>2
<1>6. QED BY <1>3, <1>4, <1>5, StepKeeps

\* The budget when nothing is charged, nor written.
LEMMA BudgetGoesOn ==
    ASSUME NEW F, IsFiniteSet(F), \A f \in F : f.size \in Nat,
           NEW run \in ExtractionRuns, NEW new \in ExtractionRuns, PlaceOK(run), BudgetOK(F, run),
           run.at # "idle", new.at \notin Unstarted,
           new.order = run.order, new.count = run.count, new.total = run.total, new.written = run.written,
           run.at = "thrown" => new.at = "thrown",
           ~ Promised(new) \/ (Promised(run) /\ Now(new) = Now(run))
    PROVE  BudgetOK(F, new)
<1>1. Bytes(F) \in Nat /\ Cardinality(F) \in Nat BY BytesAre, FS_CardinalityType
<1>2. Coming(run) \in Nat /\ ComingBytes(run) \in Nat
  <2>1. Promised(run) => Now(run) \in ArchiveEntry BY DEF Promised, PlaceOK, ExtractionRuns, Now
  <2>2. Promised(run) => Now(run).size \in Nat BY <2>1 DEF ArchiveEntry
  <2>3. QED BY <2>2 DEF Coming, ComingBytes
<1>3. run.count \in Nat /\ run.total \in Nat /\ run.written \in Nat BY DEF ExtractionRuns
<1>4. run.order \in Orders BY DEF PlaceOK
<1>5. run.order.limits.maxEntryBytes \in Nat BY <1>4, ArchiveAssumption
<1>6. \/ Coming(new) = 0 /\ ComingBytes(new) = 0
      \/ Coming(new) = Coming(run) /\ ComingBytes(new) = ComingBytes(run)
  BY DEF Coming, ComingBytes
<1>7. /\ Cardinality(F) + Coming(run) <= run.count /\ run.count <= run.order.limits.maxEntries
      /\ Bytes(F) + ComingBytes(run) <= run.total /\ run.total <= run.order.limits.maxTotalBytes
      /\ \A file \in F : file.size <= run.order.limits.maxEntryBytes
      /\ ComingBytes(run) <= run.order.limits.maxEntryBytes
      /\ run.at # "thrown" => Bytes(F) <= run.written
  BY DEF BudgetOK
<1>8. /\ Cardinality(F) + Coming(new) <= run.count /\ Bytes(F) + ComingBytes(new) <= run.total
      /\ ComingBytes(new) <= run.order.limits.maxEntryBytes
  <2> DEFINE a == Cardinality(F)
             b == Bytes(F)
             c == Coming(run)
             d == ComingBytes(run)
             m == run.order.limits.maxEntryBytes
             n == run.count
             w == run.total
  <2>1. /\ a \in Nat /\ b \in Nat /\ c \in Nat /\ d \in Nat /\ m \in Nat /\ n \in Nat /\ w \in Nat
        /\ a + c <= n /\ b + d <= w /\ d <= m
    BY <1>1, <1>2, <1>3, <1>5, <1>7, Zenon
  <2>2. \/ Coming(new) = 0 /\ ComingBytes(new) = 0
        \/ Coming(new) = c /\ ComingBytes(new) = d
    BY <1>6, Zenon
  <2> SUFFICES a + Coming(new) <= n /\ b + ComingBytes(new) <= w /\ ComingBytes(new) <= m OBVIOUS
  <2> HIDE DEF a, b, c, d, m, n, w
  <2>3. QED BY <2>1, <2>2
<1>9. QED BY <1>7, <1>8 DEF BudgetOK

\* With the approval the walk begins at the first entry, and the files that are there are noted.
LEMMA ApprovalKeeps ==
    ASSUME ArchiveInv, NEW x \in Extractions, NEW yes \in BOOLEAN, Approval(x, yes)
    PROVE  ArchiveInv'
<1> DEFINE run == extractions[x]
           F == FilesIn(tree, x)
           walked == Walked(run.order.archive, run.format)
           begun == [run EXCEPT !.at = "entry", !.next = 1, !.before = tree, !.entries = walked]
           ended == [run EXCEPT !.at = "thrown"]
           new == IF yes /\ Parses(run.order.archive, run.format) THEN begun ELSE ended
<1>1. /\ run \in ExtractionRuns /\ run.at = "asking" /\ PlaceOK(run) /\ BudgetOK(F, run)
      /\ Alone(x) => KeepOK(tree, run) /\ DoneOK(tree, x, run) /\ InsideOK(tree, run)
      /\ tree \in Trees /\ RootedIn(tree) /\ diskFaults \in Nat
      /\ IsFiniteSet(F) /\ \A f \in F : f.size \in Nat
  BY RunIs DEF Approval
<1>2. tree' = tree /\ Steps(x, new) BY <1>1 DEF Approval, Moves, Steps
<1>3. run.order \in Orders /\ run.entries = <<>> BY <1>1 DEF PlaceOK, Unstarted
<1>4. walked \in Seq(ArchiveEntry) BY <1>3, WalkedType
<1>5. CASE new = begun
  <2> DEFINE go == begun
  <2>1. /\ go \in ExtractionRuns /\ go.at = "entry" /\ go.next = 1 /\ go.order = run.order /\ go.before = tree
        /\ go.count = run.count /\ go.total = run.total /\ go.written = run.written
        /\ go.entries = walked /\ go.format = run.format
    <3> HIDE DEF walked
    <3>1. QED BY <1>1, <1>4 DEF ExtractionRuns, Stages
  <2>2. go.entries = Walked(go.order.archive, go.format) BY <2>1
  <2>3. Len(go.entries) \in Nat BY <1>4, <2>1
  <2> HIDE DEF go, walked
  <2>4. PlaceOK(go) BY <1>3, <2>1, <2>2, <2>3 DEF PlaceOK, Amid, Unstarted
  <2>5. BudgetOK(F, go)
    <3>1. ~ Promised(go) BY <2>1 DEF Promised, Amid
    <3> HIDE DEF run, F
    <3>2. QED BY <1>1, <2>1, <3>1, BudgetGoesOn DEF Unstarted
  <2>6. KeepOK(tree, go) BY <2>1 DEF KeepOK
  <2>7. DoneOK(tree, x, go)
    <3>1. \A i \in Done(go) : i \in 1 .. Len(go.entries) BY <1>4, <2>1 DEF Done
    <3>2. \A i \in Done(go) : ~ (i < go.next) BY <2>1, <2>3, <3>1
    <3>3. QED BY <3>2 DEF DoneOK
  <2>8. Steps(x, go) BY <1>2, <1>5 DEF go
  <2>9. Alone(x) => InsideOK(tree, go)
    <3>1. Alone(x) => Simple(tree) BY <1>1 DEF InsideOK, Unstarted
    <3>2. QED BY <2>1, <3>1 DEF InsideOK
  <2>10. QED BY <1>2, <2>1, <2>4, <2>5, <2>6, <2>7, <2>8, <2>9, QuietKeeps DEF Unstarted
<1>6. CASE new = ended
  <2> DEFINE go == ended
  <2>1. /\ go \in ExtractionRuns /\ go.at = "thrown" /\ SameCall(run, go) /\ go.next = run.next
        /\ go.count = run.count /\ go.total = run.total /\ go.written = run.written
        /\ go.skipped = run.skipped /\ go.warned = run.warned
    BY <1>1 DEF ExtractionRuns, Stages, SameCall
  <2> HIDE DEF go
  <2>2. PlaceOK(go) BY <1>1, <2>1 DEF PlaceOK, Amid, Unstarted, SameCall
  <2>3. BudgetOK(F, go)
    <3>1. ~ Promised(go) BY <2>1 DEF Promised, Amid
    <3> HIDE DEF run, F
    <3>2. QED BY <1>1, <2>1, <3>1, BudgetGoesOn DEF Unstarted, SameCall
  <2>4. Alone(x) => KeepOK(tree, go) BY <1>1, <2>1 DEF KeepOK, SameCall
  <2>5. Alone(x) => DoneOK(tree, x, go)
    <3> HIDE DEF run
    <3>1. QED BY <1>1, <2>1, DoneGoesOn
  <2>6. Steps(x, go) BY <1>2, <1>6 DEF go
  <2>7. Alone(x) => InsideOK(tree, go)
    <3> HIDE DEF run
    <3>1. QED BY <1>1, <2>1, InsideGoesOn DEF Unstarted
  <2>8. QED BY <1>2, <2>1, <2>2, <2>3, <2>4, <2>5, <2>6, <2>7, QuietKeeps DEF Unstarted
<1>7. QED BY <1>5, <1>6

\* What does not change when nothing is charged, nor written.
SameBudget(run, new) == new.count = run.count /\ new.total = run.total /\ new.written = run.written

\* From one entry to the next.
Advances(run, new) ==
    /\ new \in ExtractionRuns /\ SameCall(run, new) /\ new.at = "entry" /\ new.next = run.next + 1
    /\ run.skipped \subseteq new.skipped /\ run.warned \subseteq new.warned
    /\ new.count = run.count /\ new.total = run.total

\* The four ways to leave an entry, and those after which it is not done.
LEMMA EntryEnds ==
    ASSUME NEW run \in ExtractionRuns, run.next \in 1 .. Len(run.entries)
    PROVE  /\ Advances(run, Passes(run)) /\ SameBudget(run, Passes(run))
           /\ Advances(run, Skips(run)) /\ SameBudget(run, Skips(run)) /\ run.next \notin Done(Skips(run))
           /\ LET warned == [Passes(run) EXCEPT !.warned = @ \cup {run.next}]
              IN  Advances(run, warned) /\ SameBudget(run, warned) /\ run.next \notin Done(warned)
           /\ \A bytes \in Nat : Advances(run, Wrote(run, bytes)) /\ Wrote(run, bytes).written = run.written + bytes
<1>1. run.next \in Nat /\ run.next + 1 \in Nat /\ {run.next} \in SUBSET Nat BY DEF ExtractionRuns
<1>2. Advances(run, Passes(run)) /\ SameBudget(run, Passes(run))
  BY <1>1 DEF Advances, SameBudget, SameCall, Passes, ExtractionRuns, Stages
<1>3. Advances(run, Skips(run)) /\ SameBudget(run, Skips(run)) /\ run.next \in Skips(run).skipped
  BY <1>1 DEF Advances, SameBudget, SameCall, Skips, ExtractionRuns, Stages
<1>4. LET warned == [Passes(run) EXCEPT !.warned = @ \cup {run.next}]
      IN  Advances(run, warned) /\ SameBudget(run, warned) /\ run.next \in warned.warned
  <2> DEFINE pass == Passes(run)
             new == [pass EXCEPT !.warned = @ \cup {run.next}]
  <2>1. Advances(run, pass) /\ SameBudget(run, pass) /\ pass.warned = run.warned
    BY <1>2 DEF Passes, ExtractionRuns
  <2> HIDE DEF pass
  <2>2. Advances(run, new) /\ SameBudget(run, new) /\ run.next \in new.warned
    BY <1>1, <2>1 DEF Advances, SameBudget, SameCall, ExtractionRuns
  <2>3. QED BY <2>2 DEF pass
<1>5. ASSUME NEW bytes \in Nat
      PROVE  Advances(run, Wrote(run, bytes)) /\ Wrote(run, bytes).written = run.written + bytes
  <2> DEFINE pass == Passes(run)
  <2>1. Advances(run, pass) /\ SameBudget(run, pass) BY <1>2
  <2> DEFINE more == pass.extracted + 1
             sum == pass.written + bytes
             new == [pass EXCEPT !.extracted = more, !.written = sum]
  <2>2. Wrote(run, bytes) = new BY DEF Wrote
  <2> HIDE DEF pass
  <2>3. pass \in ExtractionRuns /\ pass.written = run.written BY <2>1 DEF Advances, SameBudget
  <2>4. more \in Nat /\ sum \in Nat /\ sum = run.written + bytes BY <1>5, <2>3 DEF ExtractionRuns
  <2> HIDE DEF more, sum
  <2>5. /\ new \in ExtractionRuns /\ new.written = sum
        /\ SameCall(pass, new) /\ new.at = pass.at /\ new.next = pass.next /\ new.skipped = pass.skipped
        /\ new.warned = pass.warned /\ new.count = pass.count /\ new.total = pass.total
    BY <2>3, <2>4 DEF SameCall, ExtractionRuns
  <2> HIDE DEF new
  <2>6. Advances(run, new) BY <2>1, <2>5 DEF Advances, SameCall
  <2>7. QED BY <2>2, <2>4, <2>5, <2>6
<1>6. QED BY <1>2, <1>3, <1>4, <1>5 DEF Done

\* After an entry the call is in its place at the next one, or at the end.
LEMMA EntryFollows ==
    ASSUME NEW run \in ExtractionRuns, PlaceOK(run), run.at # "idle", run.next \in 1 .. Len(run.entries),
           NEW new, Advances(run, new)
    PROVE  PlaceOK(new) /\ ~ Promised(new) /\ new.at \notin Unstarted /\ new \in ExtractionRuns
<1>1. new.next \in 1 .. Len(new.entries) + 1
  <2>1. Len(run.entries) \in Nat BY DEF ExtractionRuns
  <2>2. QED BY <2>1 DEF Advances, SameCall
<1>2. PlaceOK(new) BY <1>1 DEF PlaceOK, Advances, SameCall, Amid, Unstarted
<1>3. QED BY <1>2 DEF Advances, Promised, Amid, Unstarted

\* A step that leaves the tree and the budget as they are.
LEMMA QuietGoesOn ==
    ASSUME ArchiveInv, NEW x \in Extractions, NEW new \in ExtractionRuns, Steps(x, new), tree' = tree,
           extractions[x].at \notin Unstarted, new.at \notin Unstarted,
           extractions[x].at = "thrown" => new.at = "thrown",
           SameCall(extractions[x], new), SameBudget(extractions[x], new), PlaceOK(new),
           ~ Promised(new) \/ (Promised(extractions[x]) /\ new.next = extractions[x].next),
           extractions[x].skipped \subseteq new.skipped, extractions[x].warned \subseteq new.warned,
           \/ new.next = extractions[x].next
           \/ new.next = extractions[x].next + 1 /\ extractions[x].next \notin Done(new),
           Alone(x) /\ new.at \in {"making", "writing"} /\ ~ new.order.overwrite /\ Now(new).kind = "file" =>
               AtIn(tree, RealIn(tree, PathNow(new))).kind # "file"
    PROVE  ArchiveInv'
<1> DEFINE run == extractions[x]
           F == FilesIn(tree, x)
<1>1. /\ run \in ExtractionRuns /\ PlaceOK(run) /\ BudgetOK(F, run)
      /\ run.at # "idle" /\ Alone(x) => KeepOK(tree, run) /\ DoneOK(tree, x, run)
      /\ Alone(x) => InsideOK(tree, run)
      /\ IsFiniteSet(F) /\ \A f \in F : f.size \in Nat
  BY RunIs
<1>2. run.at # "idle" /\ SameCall(run, new) /\ SameBudget(run, new) BY DEF Unstarted
<1>3. BudgetOK(F, new)
  <2>1. ~ Promised(new) \/ (Promised(run) /\ Now(new) = Now(run)) BY DEF SameCall, Now
  <2>2. run.at = "thrown" => new.at = "thrown" OBVIOUS
  <2> HIDE DEF run, F
  <2>3. QED BY <1>1, <1>2, <2>1, <2>2, BudgetGoesOn DEF SameCall, SameBudget
<1>4. Alone(x) => KeepOK(tree, new)
  <2>1. Alone(x) => KeepOK(tree, run) BY <1>1, <1>2
  <2>2. QED BY <1>2, <2>1 DEF KeepOK, SameCall
<1>5. Alone(x) => DoneOK(tree, x, new)
  <2>1. Alone(x) => DoneOK(tree, x, run) BY <1>1, <1>2
  <2>2. run.skipped \subseteq new.skipped /\ run.warned \subseteq new.warned
        /\ (new.next = run.next \/ (new.next = run.next + 1 /\ run.next \notin Done(new)))
    OBVIOUS
  <2> HIDE DEF run
  <2>3. QED BY <1>1, <1>2, <2>1, <2>2, DoneGoesOn
<1>6. Alone(x) => InsideOK(tree, new)
  <2> HIDE DEF run
  <2>1. QED BY <1>1, <1>2, InsideGoesOn
<1>7. QED BY <1>3, <1>4, <1>5, <1>6, QuietKeeps

\* A call that ends with an error.
LEMMA ThrownKeeps ==
    ASSUME ArchiveInv, NEW x \in Extractions, extractions[x].at \notin Unstarted, tree' = tree,
           Proceeds(x, "thrown"), intrusions' = intrusions, diskFaults' \in Nat
    PROVE  ArchiveInv'
<1> DEFINE run == extractions[x]
           new == [run EXCEPT !.at = "thrown"]
<1>1. run \in ExtractionRuns /\ PlaceOK(run) BY RunIs
<1>2. Steps(x, new) BY DEF Proceeds, Moves, Steps
<1>3. /\ new \in ExtractionRuns /\ new.at = "thrown" /\ SameCall(run, new) /\ SameBudget(run, new)
      /\ new.next = run.next /\ new.skipped = run.skipped /\ new.warned = run.warned
  BY <1>1 DEF ExtractionRuns, Stages, SameCall, SameBudget
<1>4. run.at \notin Unstarted OBVIOUS
<1> HIDE DEF new
<1>5. PlaceOK(new) BY <1>1, <1>3, <1>4 DEF PlaceOK, Amid, Unstarted, SameCall
<1>6. ~ Promised(new) /\ new.at \notin Unstarted /\ new.at \notin {"making", "writing"}
  BY <1>3 DEF Promised, Amid, Unstarted
<1>7. QED BY <1>2, <1>3, <1>4, <1>5, <1>6, QuietGoesOn

\* An entry is left, or on its way: a file only when it is charged.
LEMMA NextEntryKeeps ==
    ASSUME ArchiveInv, NEW x \in Extractions, NextEntry(x)
    PROVE  ArchiveInv'
<1> DEFINE run == extractions[x]
           F == FilesIn(tree, x)
           e == Now(run)
           p == PathNow(run)
           isLink == e.kind \in {"symlink", "link"}
           charged == [run EXCEPT !.count = @ + 1, !.total = @ + e.size,
                                  !.at = IF run.order.overwrite THEN "making" ELSE "checking"]
           making == [run EXCEPT !.at = "making"]
           new == IF e.kind = "device" THEN Passes(run)
                  ELSE IF p = Unset THEN Skips(run)
                  ELSE IF run.format # "gz" /\ ~Included(run.order, e.name) THEN Passes(run)
                  ELSE IF e.kind = "directory" THEN making
                  ELSE IF isLink
                  THEN IF run.order.followSymlinks /\ LinkTarget(e) # Unset THEN making ELSE Skips(run)
                  ELSE IF ChargeEntry(run, e.size) THEN charged ELSE Skips(run)
<1>1. /\ run \in ExtractionRuns /\ PlaceOK(run) /\ BudgetOK(F, run)
      /\ run.at # "idle" /\ Alone(x) => KeepOK(tree, run) /\ DoneOK(tree, x, run)
      /\ Alone(x) => InsideOK(tree, run)
      /\ Entry(x) = e /\ EntryPath(x) = p /\ diskFaults \in Nat
      /\ IsFiniteSet(F) /\ \A f \in F : f.size \in Nat
  BY RunIs
<1>2. run.at = "entry" /\ run.next <= Len(run.entries) /\ tree' = tree /\ Steps(x, new)
  <2>1. run.at = "entry" /\ run.next <= Len(run.entries) /\ tree' = tree /\ diskFaults' = diskFaults
        /\ intrusions' = intrusions
    BY DEF NextEntry
  <2>2. Moves(x, new) BY <1>1 DEF NextEntry
  <2> HIDE DEF new
  <2>3. QED BY <1>1, <2>1, <2>2 DEF Steps, Moves
<1>3. run.next \in 1 .. Len(run.entries) /\ run.entries \in Seq(ArchiveEntry) /\ run.order \in Orders
  <2>1. run.next \in 1 .. Len(run.entries) + 1 /\ run.order \in Orders BY <1>1, <1>2 DEF PlaceOK
  <2>2. run.entries \in Seq(ArchiveEntry) BY <1>1 DEF ExtractionRuns
  <2>3. Len(run.entries) \in Nat BY <2>2
  <2> HIDE DEF run
  <2>4. QED BY <1>2, <2>1, <2>2, <2>3
<1>4. e \in ArchiveEntry /\ e.size \in Nat /\ e.kind \in EntryKinds /\ run.next \in DOMAIN run.entries
  <2> HIDE DEF run
  <2>1. QED BY <1>1, <1>3, NowIs
<1>5. run.at \notin Unstarted /\ run.at # "idle" /\ run.at # "thrown" BY <1>2 DEF Unstarted
<1>6. ASSUME NEW next, new = next, Advances(run, next), SameBudget(run, next), run.next \notin Done(next)
      PROVE  ArchiveInv'
  <2>1. PlaceOK(next) /\ ~ Promised(next) /\ next.at \notin Unstarted /\ next \in ExtractionRuns
    <3> HIDE DEF run
    <3>1. QED BY <1>1, <1>3, <1>5, <1>6, EntryFollows
  <2>2. Steps(x, next) BY <1>2, <1>6
  <2>3. /\ SameCall(run, next) /\ next.next = run.next + 1 /\ next.at = "entry"
        /\ run.skipped \subseteq next.skipped /\ run.warned \subseteq next.warned
    BY <1>6 DEF Advances
  <2> HIDE DEF new
  <2>4. QED BY <1>2, <1>5, <1>6, <2>1, <2>2, <2>3, QuietGoesOn
<1>7. CASE new = Skips(run)
  <2>1. Advances(run, Skips(run)) /\ SameBudget(run, Skips(run)) /\ run.next \notin Done(Skips(run))
    <3> HIDE DEF run
    <3>1. QED BY <1>1, <1>3, EntryEnds
  <2>2. QED BY <1>6, <1>7, <2>1
<1>8. CASE new = Passes(run) /\ (e.kind = "device" \/ (run.format # "gz" /\ ~Included(run.order, e.name)))
  <2>1. Advances(run, Passes(run)) /\ SameBudget(run, Passes(run))
    <3> HIDE DEF run
    <3>1. QED BY <1>1, <1>3, EntryEnds
  <2>2. run.next \notin Done(Passes(run))
    <3>1. SameCall(run, Passes(run)) BY <2>1 DEF Advances
    <3> DEFINE pass == Passes(run)
    <3> HIDE DEF pass
    <3>2. run.next \notin Done(pass) BY <1>8, <3>1 DEF Done, SameCall, Now, pass
    <3>3. QED BY <3>2 DEF pass
  <2>3. QED BY <1>6, <1>8, <2>1, <2>2
<1>9. ASSUME e.kind # "device", p # Unset PROVE p \in PathNames /\ Placed(p)
  <2>1. p = Resolved(Dest, e.name) BY <1>9 DEF PathNow, Absolute, Sanitize
  <2>2. e.name \in PathNames /\ Dest \in PathNames /\ Dest \in PlainPaths
    BY <1>4, ArchiveAssumption DEF ArchiveEntry, PlainPaths
  <2>3. p \in PathNames /\ p \in PlainPaths BY <2>1, <2>2, ResolvedType
  <2>4. CASE run.format = "gz"
    <3>1. run.entries # <<>>
      <4>1. Len(<<>>) = 0 /\ Len(run.entries) # 0 BY <1>3
      <4>2. QED BY <4>1
    <3>2. run.entries = GzEntries(run.order.archive)
      <4> HIDE DEF run
      <4>1. run.entries = Walked(run.order.archive, run.format) BY <1>1, <3>1 DEF PlaceOK
      <4>2. QED BY <2>4, <4>1 DEF Walked
    <3>3. run.next = 1
      <4> DEFINE gz == [name |-> run.order.archive.gzName, kind |-> "file",
                        size |-> run.order.archive.gzSize, to |-> <<>>]
      <4>1. run.entries = <<gz>> BY <3>2 DEF GzEntries
      <4> HIDE DEF gz, run
      <4>2. Len(run.entries) = 1 BY <4>1
      <4>3. QED BY <1>3, <4>2
    <3>4. e.name = run.order.archive.gzName BY <3>2, <3>3 DEF GzEntries, Now
    <3>5. Len(e.name) <= 1 BY <1>3, <3>4, ArchiveAssumption
    <3> HIDE DEF e, p
    <3>6. Beside(Dest, p) BY <2>1, <2>2, <3>5, ResolvedType
    <3>7. QED BY <2>3, <3>6 DEF Placed
  <2>5. CASE run.format # "gz"
    <3>1. p = Sanitize(e.name) BY <2>5 DEF PathNow, Absolute
    <3>2. IsPrefix(Dest, Resolved(Dest, e.name)) BY <1>9, <3>1 DEF Sanitize
    <3>3. QED BY <2>1, <2>3, <3>2 DEF Placed, Beside
  <2>6. QED BY <2>4, <2>5
<1>10. CASE new = making /\ e.kind # "device" /\ e.kind # "file" /\ p # Unset /\ (isLink => run.order.followSymlinks)
  <2> DEFINE go == making
  <2>1. /\ go \in ExtractionRuns /\ go.at = "making" /\ SameCall(run, go) /\ SameBudget(run, go)
        /\ go.next = run.next /\ go.skipped = run.skipped /\ go.warned = run.warned
    BY <1>1 DEF ExtractionRuns, Stages, SameCall, SameBudget
  <2>2. Steps(x, go) BY <1>2, <1>10
  <2> HIDE DEF go, new
  <2>3. Now(go) = e /\ PathNow(go) = p BY <2>1 DEF Now, PathNow, SameCall
  <2>4. PlaceOK(go) BY <1>1, <1>3, <1>5, <1>9, <1>10, <2>1, <2>3 DEF PlaceOK, Amid, Unstarted, SameCall
  <2>5. ~ Promised(go) /\ Now(go).kind # "file" BY <1>10, <2>3 DEF Promised
  <2>6. go.at \notin Unstarted BY <2>1 DEF Unstarted
  <2>7. QED BY <1>2, <1>5, <2>1, <2>2, <2>4, <2>5, <2>6, QuietGoesOn
<1>11. CASE new = charged /\ e.kind = "file" /\ p # Unset /\ ChargeEntry(run, e.size)
  <2> DEFINE go == charged
             to == IF run.order.overwrite THEN "making" ELSE "checking"
  <2>1. /\ go \in ExtractionRuns /\ go.at = to /\ SameCall(run, go) /\ go.written = run.written
        /\ go.count = run.count + 1 /\ go.total = run.total + e.size
        /\ go.next = run.next /\ go.skipped = run.skipped /\ go.warned = run.warned
    <3> DEFINE one == run.count + 1
               sum == run.total + e.size
               more == [run EXCEPT !.count = one, !.total = sum, !.at = to]
    <3>1. to \in Stages BY DEF Stages
    <3>2. one \in Nat /\ sum \in Nat BY <1>1, <1>4 DEF ExtractionRuns
    <3>3. go = more OBVIOUS
    <3> HIDE DEF to, one, sum, run
    <3>4. more \in ExtractionRuns BY <1>1, <3>1, <3>2 DEF ExtractionRuns
    <3>5. more.at = to /\ more.count = one /\ more.total = sum BY <1>1 DEF ExtractionRuns
    <3>6. SameCall(run, more) /\ more.written = run.written /\ more.next = run.next
          /\ more.skipped = run.skipped /\ more.warned = run.warned
      BY <1>1 DEF ExtractionRuns, SameCall
    <3> HIDE DEF go, more
    <3>7. QED BY <3>3, <3>4, <3>5, <3>6 DEF one, sum
  <2>2. Steps(x, go) BY <1>2, <1>11
  <2>3. to \in {"making", "checking"} /\ (to = "making" => run.order.overwrite) OBVIOUS
  <2> HIDE DEF go, new, to
  <2>4. Now(go) = e /\ PathNow(go) = p BY <2>1 DEF Now, PathNow, SameCall
  <2>5. PlaceOK(go) BY <1>1, <1>3, <1>5, <1>9, <1>11, <2>1, <2>3, <2>4 DEF PlaceOK, Amid, Unstarted, SameCall
  <2>6. BudgetOK(F, go)
    <3>1. Coming(go) = 1 /\ ComingBytes(go) = e.size
      BY <1>11, <2>1, <2>3, <2>4 DEF Coming, ComingBytes, Promised, Amid
    <3>2. Coming(run) = 0 /\ ComingBytes(run) = 0 BY <1>2 DEF Coming, ComingBytes, Promised, Amid
    <3>3. /\ Cardinality(F) + 0 <= run.count /\ Bytes(F) + 0 <= run.total
          /\ \A file \in F : file.size <= run.order.limits.maxEntryBytes /\ Bytes(F) <= run.written
      BY <1>1, <1>5, <3>2 DEF BudgetOK
    <3>4. Bytes(F) <= run.written BY <1>1, <1>5 DEF BudgetOK
    <3>5. Bytes(F) \in Nat /\ Cardinality(F) \in Nat BY <1>1, BytesAre, FS_CardinalityType
    <3>6. run.count \in Nat /\ run.total \in Nat BY <1>1 DEF ExtractionRuns
    <3>7. /\ run.count < run.order.limits.maxEntries /\ e.size <= run.order.limits.maxEntryBytes
          /\ run.total + e.size <= run.order.limits.maxTotalBytes
      BY <1>11 DEF ChargeEntry
    <3>8. run.order.limits.maxEntries \in Nat BY <1>3, ArchiveAssumption
    <3>9. /\ Cardinality(F) + 1 <= run.count + 1 /\ run.count + 1 <= run.order.limits.maxEntries
          /\ Bytes(F) + e.size <= run.total + e.size
      <4> DEFINE a == Cardinality(F)
                 b == Bytes(F)
                 c == run.count
                 d == run.total
                 m == run.order.limits.maxEntries
                 z == e.size
      <4>1. /\ a \in Nat /\ b \in Nat /\ c \in Nat /\ d \in Nat /\ m \in Nat /\ z \in Nat
            /\ a + 0 <= c /\ b + 0 <= d /\ c < m
        BY <1>4, <3>3, <3>5, <3>6, <3>7, <3>8, Zenon
      <4> SUFFICES a + 1 <= c + 1 /\ c + 1 <= m /\ b + z <= d + z OBVIOUS
      <4> HIDE DEF a, b, c, d, m, z
      <4>2. QED BY <4>1
    <3>10. go.at # "idle" /\ go.at \notin Unstarted BY <2>1, <2>3 DEF Unstarted
    <3> HIDE DEF F, run, e
    <3>11. QED BY <2>1, <3>1, <3>3, <3>4, <3>7, <3>9, <3>10 DEF BudgetOK, SameCall
  <2>7. Alone(x) => KeepOK(tree, go)
    <3>1. Alone(x) => KeepOK(tree, run) BY <1>1, <1>5
    <3>2. QED BY <2>1, <2>3, <3>1 DEF KeepOK, SameCall
  <2>8. Alone(x) => DoneOK(tree, x, go)
    <3>1. Alone(x) => DoneOK(tree, x, run) BY <1>1, <1>5
    <3> HIDE DEF run
    <3>2. QED BY <1>1, <2>1, <3>1, DoneGoesOn
  <2>9. go.at \notin Unstarted BY <2>1, <2>3 DEF Unstarted
  <2>10. Alone(x) => InsideOK(tree, go)
    <3> HIDE DEF run
    <3>1. QED BY <1>1, <2>1, <2>9, InsideGoesOn
  <2>11. QED BY <1>2, <2>1, <2>2, <2>5, <2>6, <2>7, <2>8, <2>9, <2>10, QuietKeeps
<1>12. \/ new = Skips(run)
       \/ new = Passes(run) /\ (e.kind = "device" \/ (run.format # "gz" /\ ~Included(run.order, e.name)))
       \/ new = making /\ e.kind # "device" /\ e.kind # "file" /\ p # Unset /\ (isLink => run.order.followSymlinks)
       \/ new = charged /\ e.kind = "file" /\ p # Unset /\ ChargeEntry(run, e.size)
  <2>1. e.kind \in {"file", "directory", "symlink", "link", "device"} BY <1>4 DEF EntryKinds
  <2> HIDE DEF e, p, making, charged, run
  <2>2. QED BY <2>1
<1>13. QED BY <1>7, <1>8, <1>10, <1>11, <1>12

\* What proceeds is the same call, at the same entry.
LEMMA SameEntry ==
    ASSUME NEW run \in ExtractionRuns, NEW place \in Stages
    PROVE  LET new == [run EXCEPT !.at = place]
           IN  /\ new \in ExtractionRuns /\ new.at = place /\ SameCall(run, new) /\ SameBudget(run, new)
               /\ new.next = run.next /\ new.skipped = run.skipped /\ new.warned = run.warned
               /\ Now(new) = Now(run) /\ PathNow(new) = PathNow(run)
BY DEF ExtractionRuns, SameCall, SameBudget, Now, PathNow

\* A file goes on only if nothing is at its path.
LEMMA CheckPathKeeps ==
    ASSUME ArchiveInv, NEW x \in Extractions, CheckPath(x)
    PROVE  ArchiveInv'
<1> DEFINE run == extractions[x]
           p == PathNow(run)
           making == [run EXCEPT !.at = "making"]
<1>1. /\ run \in ExtractionRuns /\ PlaceOK(run) /\ run.at = "checking" /\ EntryPath(x) = p
      /\ diskFaults \in Nat /\ tree' = tree /\ intrusions' = intrusions /\ diskFaults' = diskFaults
  BY RunIs DEF CheckPath
<1>2. run.next \in 1 .. Len(run.entries) /\ Now(run).kind = "file" /\ p \in PathNames
  BY <1>1 DEF PlaceOK, Amid
<1>3. run.at \notin Unstarted /\ run.at # "idle" /\ run.at # "thrown" BY <1>1 DEF Unstarted
<1>4. CASE PathExists(p)
  <2> DEFINE next == Skips(run)
  <2>1. Advances(run, next) /\ SameBudget(run, next) /\ run.next \notin Done(next)
    <3> HIDE DEF run
    <3>1. QED BY <1>1, <1>2, EntryEnds
  <2>2. PlaceOK(next) /\ ~ Promised(next) /\ next.at \notin Unstarted /\ next \in ExtractionRuns
    <3> HIDE DEF run, next
    <3>1. QED BY <1>1, <1>2, <1>3, <2>1, EntryFollows
  <2>3. Steps(x, next) BY <1>1, <1>4 DEF CheckPath, Moves, Steps
  <2>4. /\ SameCall(run, next) /\ next.next = run.next + 1 /\ next.at = "entry"
        /\ run.skipped \subseteq next.skipped /\ run.warned \subseteq next.warned
    BY <2>1 DEF Advances
  <2> HIDE DEF next
  <2>5. QED BY <1>1, <1>3, <2>1, <2>2, <2>3, <2>4, QuietGoesOn
<1>5. CASE ~ PathExists(p)
  <2> DEFINE go == making
  <2>1. /\ go \in ExtractionRuns /\ go.at = "making" /\ SameCall(run, go) /\ SameBudget(run, go)
        /\ go.next = run.next /\ go.skipped = run.skipped /\ go.warned = run.warned
        /\ Now(go) = Now(run) /\ PathNow(go) = p
    <3>1. "making" \in Stages BY DEF Stages
    <3>2. QED BY <1>1, <3>1, SameEntry
  <2>2. Steps(x, go) BY <1>1, <1>5 DEF CheckPath, Proceeds, Moves, Steps
  <2> HIDE DEF go, making
  <2>3. PlaceOK(go) BY <1>1, <1>2, <1>3, <2>1 DEF PlaceOK, Amid, Unstarted, SameCall
  <2>4. Promised(run) /\ go.at \notin Unstarted BY <1>1, <1>2, <2>1 DEF Promised, Amid, Unstarted
  <2>5. AtIn(tree, RealIn(tree, PathNow(go))).kind # "file"
    <3>1. NodeAt(Real(p)).kind # "file" BY <1>5 DEF PathExists
    <3>2. QED BY <2>1, <3>1, InTheTree
  <2>6. QED BY <1>1, <1>3, <2>1, <2>2, <2>3, <2>4, <2>5, QuietGoesOn
<1>6. QED BY <1>4, <1>5

\* A step of a call that adds to the tree, and takes nothing away.
LEMMA GrowsOn ==
    ASSUME ArchiveInv, NEW x \in Extractions, NEW new \in ExtractionRuns, Steps(x, new),
           tree' \in Trees, RootedIn(tree'), Stays(tree, tree'), LinksStay(tree, tree'),
           \A y \in Extractions \ {x} : OwnFilesStay(tree, tree', y),
           extractions[x].at \notin Unstarted, new.at \notin Unstarted, SameCall(extractions[x], new),
           extractions[x].skipped \subseteq new.skipped, extractions[x].warned \subseteq new.warned,
           PlaceOK(new), BudgetOK(FilesIn(tree', x), new),
           Alone(x) /\ ~ new.order.overwrite => FilesStay(tree, tree'),
           Alone(x) /\ ~ new.order.followSymlinks /\ Simple(tree) => KeepsIn(tree, tree'),
           \/ new.next = extractions[x].next
           \/ /\ new.next = extractions[x].next + 1
              /\ Alone(x) => EntryOK(tree', x, Now(extractions[x]), PathNow(extractions[x]), new.order.overwrite),
           Alone(x) /\ new.at \in {"making", "writing"} /\ ~ new.order.overwrite /\ Now(new).kind = "file" =>
               AtIn(tree', RealIn(tree', PathNow(new))).kind # "file"
    PROVE  ArchiveInv'
<1> DEFINE run == extractions[x]
<1>1. /\ run \in ExtractionRuns /\ tree \in Trees /\ RootedIn(tree)
      /\ run.at # "idle" /\ Alone(x) => KeepOK(tree, run) /\ DoneOK(tree, x, run)
      /\ Alone(x) => InsideOK(tree, run)
  BY RunIs
<1>2. run.at # "idle" /\ SameCall(run, new) BY DEF Unstarted
<1>3. ASSUME Alone(x) PROVE KeepOK(tree', new)
  <2>1. KeepOK(tree, run) BY <1>1, <1>2, <1>3
  <2>2. \A p \in TreePaths : ~ new.order.overwrite /\ tree[p].kind = "file" => tree'[p] = tree[p]
    BY <1>3 DEF FilesStay
  <2>3. \A p \in TreePaths : ~ new.order.overwrite /\ new.before[p].kind = "file" => tree[p] = new.before[p]
    BY <1>2, <2>1 DEF KeepOK, SameCall
  <2>4. \A p \in TreePaths : ~ new.order.overwrite /\ new.before[p].kind = "file" => tree'[p] = new.before[p]
    BY <2>2, <2>3
  <2>5. QED BY <1>3, <2>4 DEF KeepOK
<1>4. ASSUME Alone(x) PROVE DoneOK(tree', x, new)
  <2>1. DoneOK(tree, x, run) BY <1>1, <1>2, <1>4
  <2>2. new.order.overwrite \/ FilesStay(tree, tree') BY <1>4
  <2>3. \A e, p : EntryOK(tree, x, e, p, new.order.overwrite) => EntryOK(tree', x, e, p, new.order.overwrite)
    BY <1>1, <2>2, EntryStays
  <2>4. new.order = run.order BY <1>2 DEF SameCall
  <2>5. /\ run.skipped \subseteq new.skipped /\ run.warned \subseteq new.warned
        /\ \/ new.next = run.next
           \/ new.next = run.next + 1 /\ EntryOK(tree', x, Now(run), PathNow(run), new.order.overwrite)
    BY <1>4
  <2> DEFINE t == tree
             u == tree'
  <2> HIDE DEF run, t, u
  <2>6. DoneOK(u, x, new)
    <3>1. DoneOK(t, x, run) BY <2>1 DEF t
    <3>2. \A e, p : EntryOK(t, x, e, p, run.order.overwrite) => EntryOK(u, x, e, p, run.order.overwrite)
      BY <2>3, <2>4 DEF t, u
    <3>3. \/ new.next = run.next
          \/ new.next = run.next + 1 /\ EntryOK(u, x, Now(run), PathNow(run), run.order.overwrite)
      BY <2>4, <2>5 DEF u
    <3>4. QED BY <1>1, <1>2, <2>5, <3>1, <3>2, <3>3, DoneGoesOn
  <2>7. QED BY <2>6 DEF u
<1>5. ASSUME Alone(x) PROVE InsideOK(tree', new)
  <2>1. InsideOK(tree, run) BY <1>1, <1>5
  <2>2. ~ new.order.followSymlinks /\ Simple(tree) => KeepsIn(tree, tree') BY <1>5
  <2> DEFINE t == tree
             u == tree'
  <2>3. InsideOK(t, run) /\ (~ new.order.followSymlinks /\ Simple(t) => KeepsIn(t, u)) BY <2>1, <2>2
  <2> HIDE DEF run, t, u
  <2>4. InsideOK(u, new) BY <1>2, <2>3, InsideGoesOn
  <2>5. QED BY <2>4 DEF u
<1>6. ExtractionOK(tree', x, new, Alone(x)) BY <1>3, <1>4, <1>5 DEF ExtractionOK
<1>7. QED BY <1>6, StepKeeps

\* mkdir makes directories where there was nothing, or ends the call.
LEMMA MakeDirectoryKeeps ==
    ASSUME ArchiveInv, NEW x \in Extractions, MakeDirectory(x)
    PROVE  ArchiveInv'
<1> DEFINE run == extractions[x]
           e == Now(run)
           p == PathNow(run)
           dir == IF e.kind = "directory" THEN p ELSE Front(p)
           F == FilesIn(tree, x)
           G == FilesIn(tree', x)
<1>1. /\ run \in ExtractionRuns /\ PlaceOK(run) /\ run.at = "making" /\ EntryPath(x) = p /\ Entry(x) = e
      /\ diskFaults \in Nat /\ intrusions' = intrusions /\ tree \in Trees /\ RootedIn(tree)
      /\ BudgetOK(F, run) /\ IsFiniteSet(F) /\ \A f \in F : f.size \in Nat
      /\ run.at # "idle" /\ Alone(x) => KeepOK(tree, run)
  BY RunIs DEF MakeDirectory
<1>2. run.next \in 1 .. Len(run.entries) /\ p \in PathNames /\ Placed(p) BY <1>1 DEF PlaceOK, Amid
<1>3. run.at \notin Unstarted /\ run.at # "idle" /\ run.at # "thrown" BY <1>1 DEF Unstarted
<1>4. dir \in PathNames /\ dir \in PlainPaths /\ Beside(Dest, dir)
  <2> HIDE DEF e, p
  <2>1. Front(p) \in PlainPaths /\ Front(p) \in PathNames
    <3>1. Front(p) \in PlainPaths BY <1>2, PlainFronts DEF Placed
    <3>2. QED BY <3>1, PlainFronts
  <2>2. Beside(Dest, Front(p))
    <3>1. p \in Seq(STRING) /\ Len(p) \in Nat /\ Dest \in Seq(STRING)
      BY <1>2, ArchiveAssumption DEF PlainPaths, PathNames
    <3>2. CASE p = <<>>
      <4>1. Front(p) = p BY <3>2 DEF Front
      <4>2. QED BY <1>2, <4>1 DEF Placed
    <3>3. CASE p # <<>>
      <4>1. Len(p) \in 1 .. Len(p) /\ Len(p) - 1 \in 0 .. Len(p) BY <3>1, <3>3
      <4>2. Front(p) = SubSeq(p, 1, Len(p) - 1) BY DEF Front
      <4>3. Beside(Dest, p) BY <1>2 DEF Placed
      <4>4. QED BY <3>1, <4>1, <4>2, <4>3, PathsAbove
    <3>4. QED BY <3>2, <3>3
  <2>3. QED BY <1>2, <2>1, <2>2 DEF Placed
<1>5. CASE Proceeds(x, "thrown") /\ tree' = tree /\ (IF CanMkdir(dir) THEN DiskFault ELSE UNCHANGED diskFaults)
  <2>1. diskFaults' \in Nat BY <1>1, <1>5 DEF DiskFault
  <2>2. QED BY <1>1, <1>3, <1>5, <2>1, ThrownKeeps
<1>6. CASE /\ CanMkdir(dir) /\ tree' = Mkdir(dir) /\ diskFaults' = diskFaults
           /\ Moves(x, IF e.kind = "directory" THEN Passes(run) ELSE [run EXCEPT !.at = "writing"])
  <2>1. /\ tree' \in Trees /\ RootedIn(tree') /\ LinksStay(tree, tree') /\ Stays(tree, tree')
        /\ FilesStay(tree, tree') /\ \A y : OwnFilesStay(tree, tree', y)
        /\ AtIn(tree', RealIn(tree', dir)).kind = "directory"
        /\ \A s \in STRING \ Dots : tree' = tree \/ AtIn(tree', RealIn(tree', Append(dir, s))).kind # "file"
        /\ Simple(tree) => KeepsIn(tree, tree')
    <3> HIDE DEF dir
    <3>1. QED BY <1>1, <1>4, <1>6, DirectoriesMade
  <2>2. BudgetOK(G, run)
    <3>1. G \in SUBSET F BY <2>1 DEF OwnFilesStay
    <3> HIDE DEF F, G, run
    <3>2. QED BY <1>1, <3>1, BudgetStays
  <2>3. IsFiniteSet(G) /\ \A f \in G : f.size \in Nat BY <2>1, FilesAre
  <2>4. CASE e.kind = "directory"
    <3> DEFINE next == Passes(run)
    <3>1. Advances(run, next) /\ SameBudget(run, next)
      <4> HIDE DEF run
      <4>1. QED BY <1>1, <1>2, EntryEnds
    <3>2. PlaceOK(next) /\ ~ Promised(next) /\ next.at \notin Unstarted /\ next \in ExtractionRuns
      <4> HIDE DEF run, next
      <4>1. QED BY <1>1, <1>2, <1>3, <3>1, EntryFollows
    <3>3. Steps(x, next) BY <1>1, <1>6, <2>4 DEF Moves, Steps
    <3>4. /\ SameCall(run, next) /\ next.next = run.next + 1 /\ next.at = "entry"
          /\ run.skipped \subseteq next.skipped /\ run.warned \subseteq next.warned
      BY <3>1 DEF Advances
    <3>5. BudgetOK(G, next)
      <4> HIDE DEF run, next, G
      <4>1. QED BY <1>1, <1>3, <2>2, <2>3, <3>1, <3>2, <3>4, BudgetGoesOn DEF SameCall, SameBudget
    <3>6. EntryOK(tree', x, e, p, next.order.overwrite)
      <4>1. AtIn(tree', RealIn(tree', p)).kind = "directory" BY <2>1, <2>4
      <4> HIDE DEF e, p
      <4>2. FoundIn(tree', e, p) = AtIn(tree', RealIn(tree', p)) BY <2>4 DEF FoundIn
      <4>3. QED BY <1>2, <2>4, <4>1, <4>2 DEF EntryOK
    <3> HIDE DEF next
    <3>7. QED BY <1>3, <2>1, <3>2, <3>3, <3>4, <3>5, <3>6, GrowsOn
  <2>5. CASE e.kind # "directory"
    <3> DEFINE go == [run EXCEPT !.at = "writing"]
    <3>1. /\ go \in ExtractionRuns /\ go.at = "writing" /\ SameCall(run, go) /\ SameBudget(run, go)
          /\ go.next = run.next /\ go.skipped = run.skipped /\ go.warned = run.warned
          /\ Now(go) = e /\ PathNow(go) = p
      <4>1. "writing" \in Stages BY DEF Stages
      <4>2. QED BY <1>1, <4>1, SameEntry
    <3>2. Steps(x, go) BY <1>1, <1>6, <2>5 DEF Moves, Steps
    <3> HIDE DEF go
    <3>3. PlaceOK(go) BY <1>1, <1>2, <1>3, <2>5, <3>1 DEF PlaceOK, Amid, Unstarted, SameCall
    <3>4. go.at \notin Unstarted BY <3>1 DEF Unstarted
    <3>5. BudgetOK(G, go)
      <4>1. ~ Promised(go) \/ (Promised(run) /\ Now(go) = Now(run)) BY <1>1, <3>1 DEF Promised, Amid
      <4> HIDE DEF run, G
      <4>2. QED BY <1>1, <1>3, <2>2, <2>3, <3>1, <3>4, <4>1, BudgetGoesOn DEF SameCall, SameBudget
    <3>6. Alone(x) /\ ~ go.order.overwrite /\ Now(go).kind = "file" =>
             AtIn(tree', RealIn(tree', PathNow(go))).kind # "file"
      <4>1. Alone(x) /\ ~ run.order.overwrite /\ e.kind = "file" => AtIn(tree, RealIn(tree, p)).kind # "file"
        BY <1>1, <1>3 DEF KeepOK
      <4>2. dir = Front(p) BY <2>5
      <4>3. tree' = tree \/ AtIn(tree', RealIn(tree', p)).kind # "file"
        <5> HIDE DEF e, p, dir, run
        <5>1. CASE p = <<>> BY <2>1, <5>1, TheRoot
        <5>2. CASE p # <<>>
          <6>1. Last(p) \in STRING \ Dots /\ p = Append(dir, Last(p)) BY <1>2, <4>2, <5>2, PlainFronts DEF Placed
          <6>2. QED BY <2>1, <6>1
        <5>3. QED BY <5>1, <5>2
      <4> HIDE DEF e, p, dir, run
      <4>4. QED BY <3>1, <4>1, <4>3 DEF SameCall
    <3>7. QED BY <1>3, <2>1, <3>1, <3>2, <3>3, <3>4, <3>5, <3>6, GrowsOn
  <2>6. QED BY <2>4, <2>5
<1>7. QED
  <2>1. \/ /\ CanMkdir(dir) /\ tree' = Mkdir(dir) /\ diskFaults' = diskFaults
           /\ Moves(x, IF e.kind = "directory" THEN Passes(run) ELSE [run EXCEPT !.at = "writing"])
        \/ Proceeds(x, "thrown") /\ tree' = tree /\ (IF CanMkdir(dir) THEN DiskFault ELSE UNCHANGED diskFaults)
    BY <1>1 DEF MakeDirectory
  <2>2. QED BY <1>5, <1>6, <2>1

\* The directory that a link is in, and where it is found once it is there.
LEMMA LocatedIsIn ==
    ASSUME NEW t \in Trees, NEW p \in PathNames, p # <<>>
    PROVE  /\ Front(p) \in PathNames /\ RealIn(t, Front(p)) \in PathNames
           /\ Front(LocatedIn(t, p)) = RealIn(t, Front(p))
<1>1. Front(p) \in PathNames /\ Last(p) \in STRING BY Fronts DEF PathNames
<1>2. RealIn(t, Front(p)) \in PathNames BY <1>1, RealType
<1>3. Front(LocatedIn(t, p)) = RealIn(t, Front(p))
  <2> DEFINE d == RealIn(t, Front(p))
             s == Last(p)
  <2>1. d \in Seq(STRING) /\ s \in STRING BY <1>1, <1>2 DEF PathNames
  <2>2. LocatedIn(t, p) = Append(d, s) BY DEF LocatedIn
  <2> HIDE DEF d, s
  <2>3. Front(Append(d, s)) = d BY <2>1, Fronts
  <2>4. QED BY <2>2, <2>3 DEF d
<1>4. QED BY <1>1, <1>2, <1>3

\* A link is made where there was nothing, or warned of.
LEMMA MakeLinkKeeps ==
    ASSUME ArchiveInv, NEW x \in Extractions, MakeLink(x)
    PROVE  ArchiveInv'
<1> DEFINE run == extractions[x]
           e == Now(run)
           p == PathNow(run)
           at == LocatedIn(tree, p)
           nodes == IF e.kind = "symlink" THEN {Node("symlink", x, 0, to) : to \in {e.to} \ {<<>>}}
                    ELSE {node \in {NodeAt(Real(LinkTarget(e))), NodeAt(Located(LinkTarget(e)))} :
                             node.kind \in {"file", "symlink"}}
           warned == [Passes(run) EXCEPT !.warned = @ \cup {run.next}]
           F == FilesIn(tree, x)
           G == FilesIn(tree', x)
<1>1. /\ run \in ExtractionRuns /\ PlaceOK(run) /\ run.at = "writing" /\ EntryPath(x) = p /\ Entry(x) = e
      /\ diskFaults \in Nat /\ intrusions' = intrusions /\ tree \in Trees /\ RootedIn(tree)
      /\ BudgetOK(F, run) /\ IsFiniteSet(F) /\ \A f \in F : f.size \in Nat
      /\ e.kind \in {"symlink", "link"}
  BY RunIs DEF MakeLink
<1>2. run.next \in 1 .. Len(run.entries) /\ p \in PathNames /\ run.order.followSymlinks BY <1>1 DEF PlaceOK, Amid
<1>3. run.at \notin Unstarted /\ run.at # "idle" /\ run.at # "thrown" BY <1>1 DEF Unstarted
<1>4. e \in ArchiveEntry
  <2> HIDE DEF run
  <2>1. QED BY <1>1, <1>2, NowIs
<1>5. CASE Moves(x, warned) /\ tree' = tree /\ diskFaults' \in Nat
  <2> DEFINE next == warned
  <2>1. Advances(run, next) /\ SameBudget(run, next) /\ run.next \notin Done(next)
    <3> HIDE DEF run
    <3>1. QED BY <1>1, <1>2, EntryEnds
  <2>2. PlaceOK(next) /\ ~ Promised(next) /\ next.at \notin Unstarted /\ next \in ExtractionRuns
    <3> HIDE DEF run, next
    <3>1. QED BY <1>1, <1>2, <1>3, <2>1, EntryFollows
  <2>3. Steps(x, next) BY <1>1, <1>5 DEF Moves, Steps
  <2>4. /\ SameCall(run, next) /\ next.next = run.next + 1 /\ next.at = "entry"
        /\ run.skipped \subseteq next.skipped /\ run.warned \subseteq next.warned
    BY <2>1 DEF Advances
  <2> HIDE DEF next, warned
  <2>5. QED BY <1>1, <1>3, <1>5, <2>1, <2>2, <2>3, <2>4, QuietGoesOn
<1>6. ASSUME p # <<>>, at \in TreePaths, tree[at].kind = "nothing", AtIn(tree, Front(at)).kind = "directory",
             NEW node \in nodes, tree' = [tree EXCEPT ![at] = node], Moves(x, Wrote(run, 0)),
             diskFaults' = diskFaults
      PROVE  ArchiveInv'
  <2>1. /\ node \in Nodes
        /\ \/ node.kind = "symlink"
           \/ node.kind = "file" /\ \E q \in TreePaths : tree[q] = node
    <3>1. CASE e.kind = "symlink"
      <4>1. node = Node("symlink", x, 0, e.to) BY <1>6, <3>1
      <4>2. e.to \in PathNames BY <1>4 DEF ArchiveEntry
      <4>3. QED BY <4>1, <4>2 DEF Node, Nodes
    <3>2. CASE e.kind # "symlink"
      <4>1. node.kind \in {"file", "symlink"} /\ \E q : node = NodeAt(q) BY <1>6, <3>2
      <4>2. PICK q : node = AtIn(tree, q) BY <4>1, InTheTree
      <4>3. q \in TreePaths /\ node = tree[q] BY <4>1, <4>2 DEF AtIn, Directory, Nothing, Node
      <4>4. tree[q] \in Nodes BY <1>1, <4>3 DEF Trees
      <4>5. QED BY <4>1, <4>3, <4>4
    <3>3. QED BY <3>1, <3>2
  <2>2. /\ tree' \in Trees /\ RootedIn(tree') /\ LinksStay(tree, tree') /\ Stays(tree, tree')
        /\ FilesStay(tree, tree') /\ \A y : OwnFilesStay(tree, tree', y)
        /\ AtIn(tree', at) = node
    <3> HIDE DEF at, nodes
    <3>1. QED BY <1>1, <1>6, <2>1, LinkMade
  <2> DEFINE next == Wrote(run, 0)
  <2>3. Advances(run, next) /\ SameBudget(run, next)
    <3> HIDE DEF run
    <3>1. Advances(run, next) /\ next.written = run.written + 0 BY <1>1, <1>2, EntryEnds
    <3>2. run.written \in Nat BY <1>1 DEF ExtractionRuns
    <3>3. run.written + 0 = run.written BY <3>2
    <3> HIDE DEF next
    <3>4. QED BY <3>1, <3>3 DEF Advances, SameBudget
  <2>4. PlaceOK(next) /\ ~ Promised(next) /\ next.at \notin Unstarted /\ next \in ExtractionRuns
    <3> HIDE DEF run, next
    <3>1. QED BY <1>1, <1>2, <1>3, <2>3, EntryFollows
  <2>5. Steps(x, next) BY <1>1, <1>6 DEF Moves, Steps
  <2>6. /\ SameCall(run, next) /\ next.next = run.next + 1 /\ next.at = "entry"
        /\ run.skipped \subseteq next.skipped /\ run.warned \subseteq next.warned
    BY <2>3 DEF Advances
  <2>7. BudgetOK(G, run)
    <3>1. G \in SUBSET F BY <2>2 DEF OwnFilesStay
    <3> HIDE DEF F, G, run
    <3>2. QED BY <1>1, <3>1, BudgetStays
  <2>8. BudgetOK(G, next)
    <3>1. IsFiniteSet(G) /\ \A f \in G : f.size \in Nat BY <2>2, FilesAre
    <3> HIDE DEF run, next, G
    <3>2. QED BY <1>1, <1>3, <2>3, <2>4, <2>6, <2>7, <3>1, BudgetGoesOn DEF SameCall, SameBudget
  <2>9. EntryOK(tree', x, e, p, next.order.overwrite)
    <3> DEFINE t == tree
               u == tree'
    <3>1. Front(p) \in PathNames /\ Front(at) = RealIn(t, Front(p))
      <4> HIDE DEF p
      <4>1. QED BY <1>1, <1>2, <1>6, LocatedIsIn
    <3>2. AtIn(t, RealIn(t, Front(p))).kind # "nothing" BY <1>6, <3>1
    <3>3. t \in Trees /\ u \in Trees /\ RootedIn(t) /\ LinksStay(t, u) /\ Stays(t, u) BY <1>1, <2>2
    <3>4. AtIn(u, at) = node /\ at = LocatedIn(t, p) /\ e.kind # "file" /\ e.kind \in {"symlink", "link"}
      BY <1>1, <2>2
    <3> HIDE DEF t, u, e, p, at
    <3>5. RealIn(u, Front(p)) = RealIn(t, Front(p)) BY <3>1, <3>2, <3>3, PathsStay
    <3>6. LocatedIn(u, p) = at BY <3>4, <3>5 DEF LocatedIn
    <3>7. FoundIn(u, e, p) = node BY <3>4, <3>6 DEF FoundIn
    <3>8. EntryOK(u, x, e, p, next.order.overwrite) BY <1>2, <1>6, <2>1, <3>4, <3>7 DEF EntryOK
    <3>9. QED BY <3>8 DEF u
  <2>10. next.order.followSymlinks BY <1>2, <2>6 DEF SameCall
  <2> HIDE DEF next
  <2>11. QED BY <1>3, <2>2, <2>4, <2>5, <2>6, <2>8, <2>9, <2>10, GrowsOn
<1>7. QED
  <2>1. Located(p) = at /\ NodeAt(Front(at)) = AtIn(tree, Front(at)) BY InTheTree
  <2>2. \/ /\ p # <<>> /\ at \in TreePaths /\ tree[at].kind = "nothing"
           /\ AtIn(tree, Front(at)).kind = "directory" /\ nodes # {}
           /\ \E node \in nodes : tree' = [tree EXCEPT ![at] = node]
           /\ Moves(x, Wrote(run, 0)) /\ diskFaults' = diskFaults
        \/ Moves(x, warned) /\ tree' = tree /\ diskFaults' \in Nat
    <3> DEFINE entry == Entry(x)
               path == EntryPath(x)
               place == Located(path)
               ways(f) == IF f.kind = "symlink" THEN {Node("symlink", x, 0, to) : to \in {f.to} \ {<<>>}}
                          ELSE {node \in {NodeAt(Real(LinkTarget(f))), NodeAt(Located(LinkTarget(f)))} :
                                   node.kind \in {"file", "symlink"}}
    <3>1. \/ /\ path # <<>> /\ place \in TreePaths /\ tree[place].kind = "nothing"
             /\ NodeAt(Front(place)).kind = "directory" /\ ways(entry) # {}
             /\ \E node \in ways(entry) : tree' = [tree EXCEPT ![place] = node]
             /\ Moves(x, Wrote(run, 0)) /\ diskFaults' = diskFaults
          \/ Moves(x, warned) /\ tree' = tree /\ (diskFaults' = diskFaults \/ diskFaults' = diskFaults + 1)
      BY Zenon DEF MakeLink, DiskFault
    <3>2. entry = e /\ path = p /\ place = at /\ NodeAt(Front(place)) = AtIn(tree, Front(at)) BY <1>1, <2>1
    <3>3. nodes = ways(e) OBVIOUS
    <3>4. diskFaults + 1 \in Nat BY <1>1
    <3> HIDE DEF at, nodes, ways, entry, path, place, warned, run, e, p
    <3>5. QED BY <1>1, <3>1, <3>2, <3>3, <3>4
  <2> HIDE DEF at, nodes, warned, run, e, p
  <2>3. QED BY <1>5, <1>6, <2>2

\* What was promised covers the file that comes, and a part of it.
LEMMA FileFits ==
    ASSUME NEW F, IsFiniteSet(F), \A f \in F : f.size \in Nat,
           NEW run \in ExtractionRuns, PlaceOK(run), BudgetOK(F, run), Promised(run),
           NEW file, file.size \in Nat, file.size <= Now(run).size, NEW E \in SUBSET (F \cup {file}),
           NEW new \in ExtractionRuns, new.order = run.order, new.count = run.count, new.total = run.total,
           ~ Promised(new), new.at \notin Unstarted,
           new.at # "thrown" => new.written = run.written + file.size
    PROVE  BudgetOK(E, new)
<1> DEFINE a == Cardinality(F)
           b == Bytes(F)
           c == Cardinality(E)
           d == Bytes(E)
           z == file.size
           s == Now(run).size
           m == run.order.limits.maxEntryBytes
<1>1. a \in Nat /\ b \in Nat /\ c \in Nat /\ d \in Nat /\ d <= b + z /\ c <= a + 1 BY OneFileMore
<1>2. run.at # "idle" /\ run.at # "thrown" /\ run.at \in Amid BY DEF Promised, Amid
<1>3. Coming(run) = 1 /\ ComingBytes(run) = s BY DEF Coming, ComingBytes
<1>4. Coming(new) = 0 /\ ComingBytes(new) = 0 BY DEF Coming, ComingBytes
<1>5. s \in Nat
  <2>1. run.next \in 1 .. Len(run.entries) BY <1>2 DEF PlaceOK
  <2>2. QED BY <2>1, NowIs
<1>6. m \in Nat
  <2>1. run.order \in Orders BY <1>2 DEF PlaceOK
  <2>2. QED BY <2>1, ArchiveAssumption
<1>7. /\ a + 1 <= run.count /\ run.count <= run.order.limits.maxEntries
      /\ b + s <= run.total /\ run.total <= run.order.limits.maxTotalBytes
      /\ \A f \in F : f.size <= m
      /\ s <= m /\ b <= run.written
  BY <1>2, <1>3 DEF BudgetOK
<1>8. run.count \in Nat /\ run.total \in Nat /\ run.written \in Nat BY DEF ExtractionRuns
<1>9. z \in Nat /\ z <= s OBVIOUS
<1>10. \A f \in E : f.size <= m
  <2>1. z <= m
    <3> HIDE DEF z, s, m
    <3>1. QED BY <1>5, <1>6, <1>7, <1>9
  <2>2. \A f \in E : f \in F \/ f = file OBVIOUS
  <2> HIDE DEF m
  <2>3. QED BY <1>7, <2>1, <2>2
<1> HIDE DEF a, b, c, d, z, s, m
<1>11. c + 0 <= run.count /\ d + 0 <= run.total /\ 0 <= m BY <1>1, <1>5, <1>6, <1>7, <1>8, <1>9
<1>12. new.at # "thrown" => d <= new.written
  <2>1. new.at # "thrown" => new.written = run.written + z BY DEF z
  <2>2. d <= run.written + z BY <1>1, <1>7, <1>8, <1>9
  <2>3. QED BY <2>1, <2>2
<1>13. QED BY <1>4, <1>7, <1>10, <1>11, <1>12 DEF BudgetOK, c, d, m, Unstarted

\* A file is written as charged, or a part of it, and the call ends.
LEMMA WriteEntryKeeps ==
    ASSUME ArchiveInv, NEW x \in Extractions, WriteEntry(x)
    PROVE  ArchiveInv'
<1> DEFINE run == extractions[x]
           e == Now(run)
           p == PathNow(run)
           at == RealIn(tree, p)
           id == IF tree[at].kind = "file" THEN tree[at].to ELSE FileId
           file(size) == Node("file", x, size, id)
           F == FilesIn(tree, x)
           G == FilesIn(tree', x)
           possible == /\ at \in TreePaths /\ tree[at].kind \in {"nothing", "file"}
                       /\ AtIn(tree, Front(at)).kind = "directory"
<1>1. /\ run \in ExtractionRuns /\ PlaceOK(run) /\ run.at = "writing" /\ EntryPath(x) = p /\ Entry(x) = e
      /\ diskFaults \in Nat /\ intrusions' = intrusions /\ tree \in Trees /\ RootedIn(tree)
      /\ BudgetOK(F, run) /\ IsFiniteSet(F) /\ \A f \in F : f.size \in Nat
      /\ run.at # "idle" /\ Alone(x) => KeepOK(tree, run)
      /\ e.kind = "file"
  BY RunIs DEF WriteEntry
<1>2. run.next \in 1 .. Len(run.entries) /\ p \in PathNames /\ Placed(p) BY <1>1 DEF PlaceOK, Amid
<1>3. run.at \notin Unstarted /\ run.at # "idle" /\ run.at # "thrown" BY <1>1 DEF Unstarted
<1>4. e \in ArchiveEntry /\ e.size \in Nat
  <2> HIDE DEF run
  <2>1. QED BY <1>1, <1>2, NowIs
<1>5. Promised(run) BY <1>1 DEF Promised, Amid
<1>6. CASE Proceeds(x, "thrown") /\ tree' = tree /\ diskFaults' \in Nat
  BY <1>1, <1>3, <1>6, ThrownKeeps
<1>7. ASSUME possible, NEW size \in Nat, size <= e.size, tree' = Filled(tree, at, file(size))
      PROVE  /\ tree' \in Trees /\ RootedIn(tree') /\ LinksStay(tree, tree') /\ Stays(tree, tree')
             /\ \A y \in Extractions \ {x} : OwnFilesStay(tree, tree', y)
             /\ RealIn(tree', p) = at
             /\ AtIn(tree', at) = file(size) /\ G \in SUBSET (F \cup {file(size)})
             /\ Alone(x) /\ ~ run.order.overwrite => FilesStay(tree, tree')
             /\ Simple(tree) => KeepsIn(tree, tree')
  <2>1. id \in PathNames
    <3>1. CASE tree[at].kind = "file"
      <4>1. tree[at] \in Nodes BY <1>1, <1>7 DEF Trees
      <4>2. QED BY <3>1, <4>1 DEF Nodes
    <3>2. CASE tree[at].kind # "file"
      <4>1. FileId \in TreePaths BY <1>1, <1>7, <3>2, NewFileId DEF FileId
      <4>2. QED BY <3>2, <4>1, ArchiveAssumption DEF PlainPaths
    <3>3. QED BY <3>1, <3>2
  <2> DEFINE new == file(size)
  <2>2. new \in Nodes /\ new.kind = "file" /\ new.by = x /\ new.to = id
    <3> HIDE DEF id
    <3>1. QED BY <1>7, <2>1 DEF Node, Nodes
  <2>3. tree[at].kind # "file" => \A q \in TreePaths : tree[q].kind = "file" => tree[q].to # new.to
    <3>1. SUFFICES ASSUME tree[at].kind # "file" PROVE \A q \in TreePaths : tree[q].kind = "file" => tree[q].to # id
      BY <2>2
    <3>2. id = FileId BY <3>1
    <3>3. \A q \in TreePaths : tree[q].kind = "file" => tree[q].to # FileId
      BY <1>1, <1>7, <3>1, NewFileId DEF FileId
    <3>4. QED BY <3>2, <3>3
  <2>4. tree' = Filled(tree, at, new) BY <1>7
  <2>9. tree[at].kind = "file" => tree[at].to = new.to BY <2>2
  <2>10. Simple(tree) => IsPrefix(Dest, at)
    <3>1. SUFFICES ASSUME Simple(tree) PROVE IsPrefix(Dest, at) OBVIOUS
    <3> HIDE DEF p
    <3>2. at = p BY <1>1, <1>2, <3>1, SimplePaths DEF Placed
    <3>3. Beside(Dest, p) /\ at \in TreePaths BY <1>2, <1>7 DEF Placed
    <3> HIDE DEF at
    <3>4. QED BY <1>1, <3>2, <3>3, TheRoot
  <2> HIDE DEF new, id
  <2>11. RealIn(tree, p) = at OBVIOUS
  <2> HIDE DEF at
  <2>5. /\ tree' \in Trees /\ RootedIn(tree') /\ LinksStay(tree, tree') /\ Stays(tree, tree')
        /\ \A y : FilesIn(tree', y) \subseteq FilesIn(tree, y) \cup {new}
        /\ \A y : y # new.by => OwnFilesStay(tree, tree', y)
        /\ \A r \in PathNames : RealIn(tree, r) \in PlainPaths => RealIn(tree', r) = RealIn(tree, r)
        /\ AtIn(tree', at) = new
        /\ Simple(tree) /\ IsPrefix(Dest, at) /\ (tree[at].kind = "file" => tree[at].to = new.to)
           /\ (tree[at].kind = "nothing" => \A q \in TreePaths : tree[q].kind = "file" => tree[q].to # new.to) =>
               KeepsIn(tree, tree')
        /\ tree[at].kind = "nothing" /\ (\A q \in TreePaths : tree[q].kind = "file" => tree[q].to # new.to) =>
               FilesStay(tree, tree')
    BY <1>1, <1>7, <2>2, <2>4, FileWritten
  <2>6. Alone(x) /\ ~ run.order.overwrite => FilesStay(tree, tree')
    <3>1. SUFFICES ASSUME Alone(x), ~ run.order.overwrite PROVE tree[at].kind = "nothing"
      BY <2>3, <2>5
    <3>2. AtIn(tree, at).kind # "file" BY <1>1, <1>3, <3>1 DEF KeepOK, at
    <3>3. QED BY <1>7, <3>2 DEF AtIn
  <2>7. \A y \in Extractions \ {x} : OwnFilesStay(tree, tree', y) BY <2>2, <2>5
  <2>12. RealIn(tree', p) = at
    <3>1. at \in PlainPaths BY <1>7, ArchiveAssumption
    <3> HIDE DEF p
    <3>2. QED BY <1>2, <2>5, <2>11, <3>1
  <2>13. Simple(tree) => KeepsIn(tree, tree') BY <2>3, <2>5, <2>9, <2>10
  <2>8. QED BY <2>5, <2>6, <2>7, <2>12, <2>13 DEF new
<1>8. ASSUME possible, NEW size \in Nat, size <= e.size, tree' = Filled(tree, at, file(size)),
             Proceeds(x, "thrown"), diskFaults' \in Nat
      PROVE  ArchiveInv'
  <2>1. /\ tree' \in Trees /\ RootedIn(tree') /\ LinksStay(tree, tree') /\ Stays(tree, tree')
        /\ \A y \in Extractions \ {x} : OwnFilesStay(tree, tree', y)
        /\ G \in SUBSET (F \cup {file(size)})
        /\ Alone(x) /\ ~ run.order.overwrite => FilesStay(tree, tree')
        /\ Simple(tree) => KeepsIn(tree, tree')
    <3> HIDE DEF at, id, run, file
    <3>1. QED BY <1>7, <1>8
  <2> DEFINE go == [run EXCEPT !.at = "thrown"]
  <2>2. /\ go \in ExtractionRuns /\ go.at = "thrown" /\ SameCall(run, go) /\ SameBudget(run, go)
        /\ go.next = run.next /\ go.skipped = run.skipped /\ go.warned = run.warned
    <3>1. "thrown" \in Stages BY DEF Stages
    <3>2. QED BY <1>1, <3>1, SameEntry
  <2>3. Steps(x, go) BY <1>1, <1>8 DEF Proceeds, Moves, Steps
  <2> HIDE DEF go
  <2>4. PlaceOK(go) BY <1>1, <1>3, <2>2 DEF PlaceOK, Amid, Unstarted, SameCall
  <2>5. ~ Promised(go) /\ go.at \notin Unstarted /\ go.at \notin {"making", "writing"}
    BY <2>2 DEF Promised, Amid, Unstarted
  <2>6. BudgetOK(G, go)
    <3> DEFINE part == file(size)
    <3>1. part.size = size BY DEF Node
    <3>2. G \in SUBSET (F \cup {part}) BY <2>1
    <3>3. part.size \in Nat /\ part.size <= Now(run).size BY <1>8, <3>1
    <3> HIDE DEF part, F, G, run
    <3>4. QED BY <1>1, <1>5, <2>2, <2>5, <3>2, <3>3, FileFits DEF SameCall, SameBudget
  <2>7. Alone(x) /\ ~ go.order.overwrite => FilesStay(tree, tree') BY <2>1, <2>2 DEF SameCall
  <2>8. QED BY <1>3, <2>1, <2>2, <2>3, <2>4, <2>5, <2>6, <2>7, GrowsOn
<1>9. ASSUME possible, tree' = Filled(tree, at, file(e.size)), Moves(x, Wrote(run, e.size)),
             diskFaults' = diskFaults
      PROVE  ArchiveInv'
  <2>1. /\ tree' \in Trees /\ RootedIn(tree') /\ LinksStay(tree, tree') /\ Stays(tree, tree')
        /\ \A y \in Extractions \ {x} : OwnFilesStay(tree, tree', y)
        /\ RealIn(tree', p) = at
        /\ AtIn(tree', at) = file(e.size)
        /\ G \in SUBSET (F \cup {file(e.size)})
        /\ Alone(x) /\ ~ run.order.overwrite => FilesStay(tree, tree')
        /\ Simple(tree) => KeepsIn(tree, tree')
    <3>1. e.size <= e.size BY <1>4
    <3> HIDE DEF at, id, run, file, e
    <3>2. QED BY <1>4, <1>7, <1>9, <3>1
  <2> DEFINE next == Wrote(run, e.size)
  <2>2. Advances(run, next) /\ next.written = run.written + e.size
    <3> HIDE DEF run
    <3>1. QED BY <1>1, <1>2, <1>4, EntryEnds
  <2>3. PlaceOK(next) /\ ~ Promised(next) /\ next.at \notin Unstarted /\ next \in ExtractionRuns
    <3> HIDE DEF run, next
    <3>1. QED BY <1>1, <1>2, <1>3, <2>2, EntryFollows
  <2>4. Steps(x, next) BY <1>1, <1>9 DEF Moves, Steps
  <2>5. /\ SameCall(run, next) /\ next.next = run.next + 1 /\ next.at = "entry"
        /\ run.skipped \subseteq next.skipped /\ run.warned \subseteq next.warned
        /\ next.count = run.count /\ next.total = run.total
    BY <2>2 DEF Advances
  <2> HIDE DEF next
  <2>6. BudgetOK(G, next)
    <3> DEFINE whole == file(e.size)
    <3>1. whole.size = e.size BY DEF Node
    <3>2. G \in SUBSET (F \cup {whole}) BY <2>1
    <3>3. whole.size \in Nat /\ whole.size <= Now(run).size /\ next.written = run.written + whole.size
      BY <1>4, <2>2, <3>1
    <3> HIDE DEF whole, F, G, run
    <3>4. QED BY <1>1, <1>5, <2>3, <2>5, <3>2, <3>3, FileFits DEF SameCall
  <2>7. Alone(x) /\ ~ next.order.overwrite => FilesStay(tree, tree') BY <2>1, <2>5 DEF SameCall
  <2>8. EntryOK(tree', x, e, p, next.order.overwrite)
    <3> DEFINE u == tree'
               whole == file(e.size)
    <3>1. FoundIn(u, e, p) = whole
      <4>1. e.kind \notin {"symlink", "link"} BY <1>1
      <4>2. RealIn(u, p) = at /\ AtIn(u, at) = whole BY <2>1
      <4> HIDE DEF e, p, at, u, whole
      <4>3. QED BY <4>1, <4>2 DEF FoundIn
    <3>2. whole.kind = "file" /\ whole = Node("file", x, e.size, whole.to)
      <4> HIDE DEF id, e
      <4>1. QED BY DEF Node
    <3> HIDE DEF whole, e, p, u
    <3>3. EntryOK(u, x, e, p, next.order.overwrite) BY <1>1, <1>2, <3>1, <3>2 DEF EntryOK
    <3>4. QED BY <3>3 DEF u
  <2>9. QED BY <1>3, <2>1, <2>3, <2>4, <2>5, <2>6, <2>7, <2>8, GrowsOn
<1>10. QED
  <2> DEFINE place == Real(EntryPath(x))
             name == IF tree[place].kind = "file" THEN tree[place].to ELSE FileId
             filled(size) == [q \in TreePaths |-> IF q = place \/ (tree[q].kind = "file" /\ tree[q].to = name)
                                                  THEN Node("file", x, size, name) ELSE tree[q]]
             can == /\ place \in TreePaths /\ tree[place].kind \in {"nothing", "file"}
                    /\ NodeAt(Front(place)).kind = "directory"
  <2>1. \/ can /\ tree' = filled(Entry(x).size) /\ Moves(x, Wrote(run, Entry(x).size)) /\ diskFaults' = diskFaults
        \/ Proceeds(x, "thrown") /\ tree' = tree /\ (diskFaults' = diskFaults \/ diskFaults' = diskFaults + 1)
        \/ /\ can /\ diskFaults' = diskFaults + 1 /\ Proceeds(x, "thrown")
           /\ \E size \in 0 .. Entry(x).size : tree' = filled(size)
    BY Zenon DEF WriteEntry, DiskFault
  <2>2. place = at /\ NodeAt(Front(place)) = AtIn(tree, Front(at)) BY <1>1, InTheTree
  <2>3. can <=> possible BY <2>2
  <2>4. name = id BY <2>2
  <2>5. \A size : filled(size) = Filled(tree, at, file(size))
    <3>1. ASSUME NEW size PROVE filled(size) = Filled(tree, at, file(size))
      <4>1. file(size).to = id BY DEF Node
      <4> DEFINE new == file(size)
      <4>2. filled(size) = [q \in TreePaths |-> IF q = place \/ (tree[q].kind = "file" /\ tree[q].to = name)
                                                THEN Node("file", x, size, name) ELSE tree[q]]
        OBVIOUS
      <4>3. new = Node("file", x, size, name) /\ new.to = name BY <2>4, <4>1
      <4> HIDE DEF new, at, id, place, name, filled
      <4>4. filled(size) = [q \in TreePaths |-> IF q = at \/ (tree[q].kind = "file" /\ tree[q].to = new.to)
                                                THEN new ELSE tree[q]]
        BY <2>2, <4>2, <4>3
      <4>5. QED BY <4>4 DEF Filled, new
    <3>2. QED BY <3>1
  <2>6. diskFaults + 1 \in Nat BY <1>1
  <2>7. Entry(x).size = e.size /\ e.size \in Nat BY <1>1, <1>4
  <2> HIDE DEF place, name, filled, can, possible, at, file, e, run
  <2>8. \/ possible /\ tree' = Filled(tree, at, file(e.size)) /\ Moves(x, Wrote(run, e.size)) /\ diskFaults' = diskFaults
        \/ Proceeds(x, "thrown") /\ tree' = tree /\ diskFaults' \in Nat
        \/ /\ possible /\ diskFaults' \in Nat /\ Proceeds(x, "thrown")
           /\ \E size \in 0 .. e.size : tree' = Filled(tree, at, file(size))
    BY <1>1, <2>1, <2>3, <2>5, <2>6, <2>7
  <2>9. CASE /\ possible /\ diskFaults' \in Nat /\ Proceeds(x, "thrown")
             /\ \E size \in 0 .. e.size : tree' = Filled(tree, at, file(size))
    <3>1. PICK size \in 0 .. e.size : tree' = Filled(tree, at, file(size)) BY <2>9
    <3>2. size \in Nat /\ size <= e.size BY <2>7, <3>1
    <3>3. QED BY <1>8, <2>9, <3>1, <3>2
  <2>10. QED BY <1>6, <1>9, <2>8, <2>9

\* At the end every entry was passed.
LEMMA ReportKeeps ==
    ASSUME ArchiveInv, NEW x \in Extractions, Report(x)
    PROVE  ArchiveInv'
<1> DEFINE run == extractions[x]
           go == [run EXCEPT !.at = "ok"]
<1>1. /\ run \in ExtractionRuns /\ PlaceOK(run) /\ run.at = "entry" /\ run.next > Len(run.entries)
      /\ diskFaults \in Nat /\ tree' = tree /\ intrusions' = intrusions /\ diskFaults' = diskFaults
  BY RunIs DEF Report
<1>2. run.at \notin Unstarted /\ run.at # "idle" /\ run.at # "thrown" BY <1>1 DEF Unstarted
<1>3. run.next = Len(run.entries) + 1
  <2>1. run.next \in 1 .. Len(run.entries) + 1 /\ run.entries \in Seq(ArchiveEntry)
    BY <1>1 DEF PlaceOK, ExtractionRuns
  <2>2. Len(run.entries) \in Nat BY <2>1
  <2> HIDE DEF run
  <2>3. QED BY <1>1, <2>1, <2>2
<1>4. /\ go \in ExtractionRuns /\ go.at = "ok" /\ SameCall(run, go) /\ SameBudget(run, go)
      /\ go.next = run.next /\ go.skipped = run.skipped /\ go.warned = run.warned
  <2>1. "ok" \in Stages BY DEF Stages
  <2>2. QED BY <1>1, <2>1, SameEntry
<1>5. Steps(x, go) BY <1>1 DEF Report, Proceeds, Moves, Steps
<1> HIDE DEF go
<1>6. PlaceOK(go) BY <1>1, <1>2, <1>3, <1>4 DEF PlaceOK, Amid, Unstarted, SameCall
<1>7. ~ Promised(go) /\ go.at \notin Unstarted /\ go.at \notin {"making", "writing"}
  BY <1>4 DEF Promised, Amid, Unstarted
<1>8. QED BY <1>1, <1>2, <1>4, <1>5, <1>6, <1>7, QuietGoesOn

\* Another program may take files away; no extraction has more than before.
LEMMA OtherProgramKeeps ==
    ASSUME ArchiveInv, NEW p \in TreePaths, OtherProgram(p)
    PROVE  ArchiveInv'
<1> DEFINE file == IF tree[p].kind = "nothing" THEN Node("file", Unset, 1, FileId) ELSE Node("file", Unset, 1, p)
           u == [tree EXCEPT ![p] = IF @.kind = "nothing" THEN file ELSE Nothing]
<1>1. /\ tree \in Trees /\ RootedIn(tree) /\ extractions \in [Extractions -> ExtractionRuns]
      /\ diskFaults \in Nat /\ intrusions \in Nat
      /\ \A x \in Extractions : ExtractionOK(tree, x, extractions[x], Alone(x))
  BY DEF ArchiveInv
<1>2. /\ tree[p].kind \in {"nothing", "file"} /\ NodeAt(Front(p)).kind = "directory"
      /\ intrusions' = intrusions + 1 /\ extractions' = extractions /\ diskFaults' = diskFaults
      /\ tree' = [tree EXCEPT ![p] = IF @.kind = "nothing" THEN Node("file", Unset, 1, FileId) ELSE Nothing]
  BY DEF OtherProgram
<1>3. AtIn(tree, Front(p)).kind = "directory" BY <1>2, InTheTree
<1>4. file \in Nodes /\ file.kind = "file" /\ file.by = Unset
  <2>1. tree[p].kind = "nothing" => FileId \in TreePaths BY <1>1, NewFileId DEF FileId
  <2>2. tree[p].kind = "nothing" => FileId \in PathNames BY <2>1, ArchiveAssumption DEF PlainPaths
  <2>3. p \in PathNames BY ArchiveAssumption DEF PlainPaths
  <2>4. QED BY <2>2, <2>3 DEF Node, Nodes
<1>5. tree' = u BY <1>2
<1> HIDE DEF file
<1>6. u \in Trees /\ RootedIn(u) /\ \A x \in Extractions : OwnFilesStay(tree, u, x)
  <2> HIDE DEF u
  <2>1. u = [tree EXCEPT ![p] = IF @.kind = "nothing" THEN file ELSE Nothing] BY DEF u
  <2>2. QED BY <1>1, <1>2, <1>3, <1>4, <2>1, FileComesOrGoes
<1> HIDE DEF u
<1>7. ASSUME NEW x \in Extractions PROVE ExtractionOK(tree', x, extractions'[x], Alone(x)')
  <2>1. intrusions' # 0 BY <1>1, <1>2
  <2>2. ~ Alone(x)' BY <2>1 DEF Alone
  <2> DEFINE alone == Alone(x)
             still == Alone(x)'
  <2>3. ExtractionOK(tree, x, extractions[x], alone) /\ extractions[x] \in ExtractionRuns BY <1>1
  <2>4. still => alone /\ u = tree BY <2>2
  <2> HIDE DEF alone, still
  <2>5. ExtractionOK(u, x, extractions[x], still) BY <1>1, <1>6, <2>3, <2>4, OthersKeep
  <2>6. QED BY <1>2, <1>5, <2>5 DEF still
<1>8. intrusions' \in Nat BY <1>1, <1>2
<1>9. QED BY <1>1, <1>2, <1>5, <1>6, <1>7, <1>8 DEF ArchiveInv

\* At first there are files of others in the directory, and no call.
LEMMA ArchiveStarts == ArchiveInit => ArchiveInv
<1> SUFFICES ASSUME ArchiveInit PROVE ArchiveInv OBVIOUS
<1>1. PICK there \in SUBSET {p \in TreePaths : IsPrefix(Front(p), Dest)} :
         tree = [p \in TreePaths |-> IF p \in there THEN Node("file", Unset, 1, p) ELSE Nothing]
  BY DEF ArchiveInit
<1>2. extractions = [x \in Extractions |-> NoExtraction] /\ diskFaults = 0 /\ intrusions = 0
  BY DEF ArchiveInit
<1>3. Nothing \in Nodes /\ Nothing.kind = "nothing" BY DEF Nothing, Node, Nodes, PathNames
<1>4. \A p \in TreePaths : Node("file", Unset, 1, p) \in Nodes BY ArchiveAssumption DEF Node, Nodes, PlainPaths
<1>5. tree \in Trees BY <1>1, <1>3, <1>4 DEF Trees
<1>6. RootedIn(tree)
  <2>1. SUFFICES ASSUME NEW p \in there PROVE AtIn(tree, Front(p)).kind = "directory"
    BY <1>1, <1>3 DEF RootedIn
  <2>2. IsPrefix(Front(p), Dest) /\ Front(p) \notin TreePaths BY <1>1, ArchiveAssumption
  <2>3. QED BY <2>2 DEF AtIn, Directory, Node
<1>12. Simple(tree)
  <2>1. \A p \in TreePaths : tree[p].kind # "symlink" BY <1>1 DEF Node, Nothing
  <2>2. \A p \in TreePaths : tree[p].kind = "file" => tree[p].to = p BY <1>1 DEF Node, Nothing
  <2>3. QED BY <2>1, <2>2 DEF Simple
<1>7. NoExtraction \in ExtractionRuns
  <2> DEFINE empty == [p \in TreePaths |-> Nothing]
  <2>1. empty \in Trees BY <1>3 DEF Trees
  <2>2. <<>> \in Seq(ArchiveEntry) OBVIOUS
  <2> HIDE DEF empty
  <2>3. empty = [p \in TreePaths |-> Nothing] BY DEF empty
  <2>4. QED BY <2>1, <2>2, <2>3 DEF NoExtraction, ExtractionRuns, Stages, Formats
<1>8. NoExtraction.at = "idle" /\ NoExtraction.entries = <<>> /\ NoExtraction.written = 0
  BY DEF NoExtraction
<1>9. ASSUME NEW x \in Extractions PROVE ExtractionOK(tree, x, extractions[x], Alone(x))
  <2> DEFINE run == NoExtraction
  <2>1. extractions[x] = run BY <1>2
  <2>2. run.at = "idle" /\ run.entries = <<>> /\ run.written = 0 BY <1>8
  <2>3. FilesIn(tree, x) = {}
    <3>1. x # Unset BY ArchiveAssumption
    <3>2. \A q \in TreePaths : tree[q].by = Unset BY <1>1 DEF Nothing, Node
    <3>3. QED BY <3>1, <3>2 DEF FilesIn
  <2> HIDE DEF run
  <2>4. PlaceOK(run) BY <2>2 DEF PlaceOK, Amid
  <2>5. BudgetOK(FilesIn(tree, x), run) BY <2>2, <2>3 DEF BudgetOK
  <2>6. InsideOK(tree, run) BY <1>12, <2>2 DEF InsideOK
  <2>7. QED BY <2>1, <2>2, <2>4, <2>5, <2>6 DEF ExtractionOK
<1>10. extractions \in [Extractions -> ExtractionRuns]
  <2> DEFINE run == NoExtraction
  <2>1. extractions = [x \in Extractions |-> run] /\ run \in ExtractionRuns BY <1>2, <1>7
  <2> HIDE DEF run
  <2>2. QED BY <2>1
<1>11. QED BY <1>2, <1>5, <1>6, <1>9, <1>10 DEF ArchiveInv

\* Every step keeps the invariant.
LEMMA ArchiveKeeps == ArchiveInv /\ [ArchiveNext]_archiveVars => ArchiveInv'
<1> SUFFICES ASSUME ArchiveInv, [ArchiveNext]_archiveVars PROVE ArchiveInv' OBVIOUS
<1>1. CASE UNCHANGED archiveVars
  <2>1. tree' = tree /\ extractions' = extractions /\ diskFaults' = diskFaults /\ intrusions' = intrusions
    BY <1>1 DEF archiveVars
  <2>2. \A x : Alone(x)' <=> Alone(x) BY <2>1 DEF Alone
  <2>3. ASSUME NEW x \in Extractions PROVE ExtractionOK(tree', x, extractions'[x], Alone(x)')
    <3>1. ExtractionOK(tree, x, extractions[x], Alone(x)) BY DEF ArchiveInv
    <3>2. QED BY <2>1, <2>2, <3>1 DEF ExtractionOK
  <2>4. QED BY <2>1, <2>3 DEF ArchiveInv
<1>2. CASE ArchiveNext
  <2>1. \/ \E x \in Extractions :
            \/ \E order \in Orders : CallExtract(x, order)
            \/ \E yes \in BOOLEAN : Approval(x, yes)
            \/ NextEntry(x) \/ CheckPath(x) \/ MakeDirectory(x) \/ MakeLink(x) \/ WriteEntry(x)
            \/ Report(x)
        \/ \E p \in TreePaths : OtherProgram(p)
    BY <1>2 DEF ArchiveNext
  <2>2. CASE \E x \in Extractions, order \in Orders : CallExtract(x, order) BY <2>2, CallExtractKeeps
  <2>3. CASE \E x \in Extractions, yes \in BOOLEAN : Approval(x, yes) BY <2>3, ApprovalKeeps
  <2>4. CASE \E x \in Extractions : NextEntry(x) BY <2>4, NextEntryKeeps
  <2>5. CASE \E x \in Extractions : CheckPath(x) BY <2>5, CheckPathKeeps
  <2>6. CASE \E x \in Extractions : MakeDirectory(x) BY <2>6, MakeDirectoryKeeps
  <2>7. CASE \E x \in Extractions : MakeLink(x) BY <2>7, MakeLinkKeeps
  <2>8. CASE \E x \in Extractions : WriteEntry(x) BY <2>8, WriteEntryKeeps
  <2>9. CASE \E x \in Extractions : Report(x) BY <2>9, ReportKeeps
  <2>10. CASE \E p \in TreePaths : OtherProgram(p) BY <2>10, OtherProgramKeeps
  <2>11. QED BY <2>1, <2>2, <2>3, <2>4, <2>5, <2>6, <2>7, <2>8, <2>9, <2>10
<1>3. QED BY <1>1, <1>2

\* What the invariant says of the properties' parts.
LEMMA ArchiveInvSays == ArchiveInv => ExtractionHonest
<1> SUFFICES ASSUME ArchiveInv, NEW x \in Extractions, extractions[x].entries # <<>>
             PROVE  WithinLimits(x) /\ KeepsFiles(x) /\ StaysInside(x) /\ LeavesNothingOut(x)
  BY DEF ExtractionHonest
<1> DEFINE run == extractions[x]
           F == FilesIn(tree, x)
<1>1. /\ run \in ExtractionRuns /\ PlaceOK(run) /\ BudgetOK(F, run)
      /\ run.at # "idle" /\ Alone(x) => KeepOK(tree, run) /\ DoneOK(tree, x, run)
      /\ IsFiniteSet(F) /\ \A f \in F : f.size \in Nat
  BY RunIs
<1>2. run.at # "idle" /\ run.order \in Orders /\ run.entries = Walked(run.order.archive, run.format)
  BY <1>1 DEF PlaceOK, Unstarted
<1>3. FilesOf(x) = F BY DEF FilesOf, FilesIn
<1>4. WithinLimits(x)
  <2>1. /\ Cardinality(F) + Coming(run) <= run.count /\ run.count <= run.order.limits.maxEntries
        /\ Bytes(F) + ComingBytes(run) <= run.total /\ run.total <= run.order.limits.maxTotalBytes
        /\ \A file \in F : file.size <= run.order.limits.maxEntryBytes
        /\ run.at # "thrown" => Bytes(F) <= run.written
    BY <1>1, <1>2 DEF BudgetOK
  <2>2. Bytes(F) \in Nat /\ Cardinality(F) \in Nat BY <1>1, BytesAre, FS_CardinalityType
  <2>3. Coming(run) \in Nat /\ ComingBytes(run) \in Nat
    <3>1. Promised(run) => run.next \in 1 .. Len(run.entries) BY <1>1 DEF Promised, PlaceOK
    <3>2. Promised(run) => Now(run).size \in Nat BY <1>1, <3>1, NowIs
    <3>3. QED BY <3>2 DEF Coming, ComingBytes
  <2>4. run.count \in Nat /\ run.total \in Nat BY <1>1 DEF ExtractionRuns
  <2>5. run.order.limits.maxEntries \in Nat /\ run.order.limits.maxTotalBytes \in Nat BY <1>2, ArchiveAssumption
  <2>6. Cardinality(F) <= run.order.limits.maxEntries /\ Bytes(F) <= run.order.limits.maxTotalBytes
    <3> DEFINE a == Cardinality(F)
               b == Bytes(F)
               c == Coming(run)
               d == ComingBytes(run)
               m == run.order.limits.maxEntries
               n == run.order.limits.maxTotalBytes
               v == run.count
               w == run.total
    <3>1. /\ a \in Nat /\ b \in Nat /\ c \in Nat /\ d \in Nat /\ m \in Nat /\ n \in Nat /\ v \in Nat /\ w \in Nat
          /\ a + c <= v /\ v <= m /\ b + d <= w /\ w <= n
      BY <2>1, <2>2, <2>3, <2>4, <2>5, Zenon
    <3> SUFFICES a <= m /\ b <= n OBVIOUS
    <3> HIDE DEF a, b, c, d, m, n, v, w
    <3>2. QED BY <3>1
  <2>7. QED BY <1>3, <2>1, <2>6 DEF WithinLimits
<1>5. KeepsFiles(x) BY <1>1, <1>2 DEF KeepsFiles, KeepOK
<1>6. LeavesNothingOut(x)
  <2> SUFFICES ASSUME run.at = "ok", Alone(x), NEW i \in Done(run)
               PROVE  /\ Found(run, i).kind # "nothing"
                      /\ run.entries[i].kind = "file" /\ ~ run.order.overwrite =>
                            /\ Found(run, i) = Node("file", x, run.entries[i].size, Found(run, i).to)
                            /\ (\A j \in 1 .. i - 1 : run.entries[j].name # run.entries[i].name) =>
                                   ReadEntry(run.order.archive, run.format, run.entries[i].name) = run.entries[i].size
    BY DEF LeavesNothingOut
  <2> DEFINE e == run.entries[i]
             p == Absolute(run.format, e)
  <2>1. run.entries \in Seq(ArchiveEntry) BY <1>1 DEF ExtractionRuns
  <2>2. i \in 1 .. Len(run.entries)
    <3>1. i \in DOMAIN run.entries BY DEF Done
    <3> HIDE DEF run
    <3>2. QED BY <2>1, <3>1
  <2>3. i < run.next
    <3>1. run.next = Len(run.entries) + 1 BY <1>1 DEF PlaceOK
    <3>2. Len(run.entries) \in Nat BY <2>1
    <3> HIDE DEF run
    <3>3. QED BY <2>2, <3>1, <3>2
  <2>4. EntryOK(tree, x, e, p, run.order.overwrite) BY <1>1, <1>2, <2>3 DEF DoneOK
  <2>5. Found(run, i) = FoundIn(tree, e, p)
    <3>1. \A q : NodeAt(q) = AtIn(tree, q) BY InTheTree
    <3>2. Real(p) = RealIn(tree, p) /\ Located(p) = LocatedIn(tree, p) BY InTheTree
    <3>3. QED BY <3>1, <3>2 DEF Found, FoundIn
  <2>6. ASSUME e.kind = "file", \A j \in 1 .. i - 1 : run.entries[j].name # e.name
        PROVE  ReadEntry(run.order.archive, run.format, e.name) = e.size
    <3> HIDE DEF run
    <3>1. QED BY <1>2, <2>1, <2>2, <2>6, ReadsTheFirst
  <2>7. QED BY <2>4, <2>5, <2>6 DEF EntryOK
<1>7. StaysInside(x)
  <2>1. Alone(x) => InsideOK(tree, run) BY RunIs
  <2>2. QED BY <2>1 DEF StaysInside, InsideOK
<1>8. QED BY <1>4, <1>5, <1>6, <1>7

\* An extraction leaves no more than its limits and its report say, changes no file that it
\* was to leave alone, nor, unless it follows symlinks, anything outside destDir, and leaves
\* nothing out that it lists.
THEOREM ExtractionsAreHonest == ArchiveSpec => []ExtractionHonest
<1>1. ArchiveInit => ArchiveInv BY ArchiveStarts
<1>2. ArchiveInv /\ [ArchiveNext]_archiveVars => ArchiveInv' BY ArchiveKeeps
<1>3. ArchiveInv => ExtractionHonest BY ArchiveInvSays
<1>4. QED BY <1>1, <1>2, <1>3, PTL DEF ArchiveSpec
=============================================================================
