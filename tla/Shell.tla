------------------------------- MODULE Shell --------------------------------
(***************************************************************************)
(* os.shell.run of tools/shell: a call is judged by the command guard, may *)
(* wait for an approval, and then runs.                                    *)
(*                                                                         *)
(* A string is taken as it is; what the code makes of one is given by      *)
(* operators: its words, its last part as a path, its normal form.  What   *)
(* is judged is a normal form, and what runs are the strings themselves.   *)
(* Of the tables the model has representatives.  While a call waits, files *)
(* come and go.                                                            *)
(***************************************************************************)
EXTENDS Integers, SequencesExt

CONSTANTS
    ShellCalls,      \* tool calls that may be under way together
    CommandLines,    \* what the model may ask for: [cmd, args]
    Split(_),        \* the words of a string, cut at white space
    Base(_),         \* basenameCommand: what follows the last slash or backslash
    Plain(_),        \* normaliseField: NFKC, no escapes, a space for a control character
    Lower(_),        \* toLowerCase
    Has(_, _),       \* of which kind a string is: see below
    Hardline(_),     \* whether one of HARDLINE_PATTERNS matches a line of words
    Dangerous(_),    \* whether one of DANGEROUS_PATTERNS does
    FileNames,       \* files that a glob may match
    MaxGlobMatches,  \* MAX_GLOB_MATCHES
    Nil,             \* null
    MaxShellFaults,  \* bound: rules that throw
    MaxFileChanges   \* bound: changes of the working directory

\* Has(s, kind) of a string s.  "metachar": it has one of SHELL_METACHAR_RE; "glob": a * or a
\* ?; "metachar or glob": one of SHELL_METACHARS; "path": a slash or a backslash; "variable":
\* a %NAME%; "option", "long option": it begins with one dash, with two.

ASSUME ShellAssumption ==
    /\ {MaxGlobMatches, MaxShellFaults, MaxFileChanges} \subseteq Nat
    /\ Nil \notin Nat \cup {"allow", "approval_required", "block"}

VARIABLES
    files,       \* what a glob matches
    shellCalls,  \* where each call stands
    shellFaults, \* rules that threw
    elsewhere    \* changes other programs made

shellVars == <<files, shellCalls, shellFaults, elsewhere>>

-----------------------------------------------------------------------------
(* Tables (representatives)                                                *)

SAFE_GOG_ENABLE_COMMANDS == {"gmail.search", "auth.list", "open"}
SAFE_GOG_AUTH_COMMANDS == {<<"auth", "list">>, <<"auth.list">>, <<"status">>}
GOG_OPTIONS_WITH_VALUE == {"--account", "--enable-commands"}
DANGEROUS_GOG_WORDS == {"send", "delete"}
GH_READ_VERBS == {"list", "view"}
GH_WRITE_VERBS == {"merge", "delete"}
GH_API_FIELD_FLAGS == {"-f", "--input"}
ZERO_ARG_SAFE == {"pwd", "date"}
VERSION_SAFE_COMMANDS == {"node"}
VERSION_FLAGS == {"--version", "-v"}
WINDOWS_CMD_BUILTINS == {"echo", "dir"}
RELATIVE_GLOB_CMDS == {"rm", "ls"}

Allow == "allow"
Ask == "approval_required"
Block == "block"

-----------------------------------------------------------------------------
(* What is judged                                                          *)

SplitAll(strings) == FlattenSeq([i \in 1 .. Len(strings) |-> Split(strings[i])])

\* A line for the shell is judged word by word, the first one as the command.
GuardInput(run) ==
    LET tokens == SplitAll(<<run.cmd>> \o run.args)
    IN  IF run.shell THEN [cmd |-> Head(tokens), args |-> Tail(tokens)]
        ELSE [cmd |-> run.cmd, args |-> run.args]

\* words: joinedLower.
NormaliseCommand(input) ==
    LET cmdOriginal == Plain(Base(input.cmd))
        args == [i \in 1 .. Len(input.args) |-> Plain(input.args[i])]
        joined == SplitAll(<<cmdOriginal>> \o args)
    IN  [cmd |-> Lower(cmdOriginal), args |-> args, words |-> [i \in 1 .. Len(joined) |-> Lower(joined[i])]]

-----------------------------------------------------------------------------
(* Rules: a verdict on a normal form, or Nil where the rule does not match. *)

HardlineRule(input) == IF Hardline(input.words) THEN Block ELSE Nil
DangerousRule(input) == IF Dangerous(input.words) THEN Ask ELSE Nil

\* readCommandWords: the arguments that are no long option and not the value of one.
CommandWords(args) ==
    LET isValue[i \in 1 .. Len(args)] == i > 1 /\ args[i - 1] \in GOG_OPTIONS_WITH_VALUE /\ ~isValue[i - 1]
        word(i) == ~isValue[i] /\ ~Has(args[i], "long option")
        picked == SelectSeq([i \in 1 .. Len(args) |-> i], word)
    IN  [i \in 1 .. Len(picked) |-> args[picked[i]]]

\* isSafeAuthRead
SafeAuthRead(args) ==
    LET words == CommandWords(args)
    IN  \/ words \in SAFE_GOG_AUTH_COMMANDS
        \/ /\ Len(words) >= 2 /\ SubSeq(words, 1, 2) = <<"auth", "doctor">>
           /\ {"--check", "--no-input"} \subseteq ToSet(args)

\* readEnabledCommands: what follows the first --enable-commands, here one name.
EnabledCommands(args) ==
    LET at == {i \in 1 .. Len(args) : args[i] = "--enable-commands"}
        first == CHOOSE i \in at : \A j \in at : i <= j
    IN  IF at = {} \/ first = Len(args) THEN {} ELSE {args[first + 1]}

GogRule(input) ==
    IF /\ input.cmd = "gog"
       /\ \/ SafeAuthRead(input.args)
          \/ /\ "--no-input" \in ToSet(input.args)
             /\ {Lower(word) : word \in ToSet(CommandWords(input.args))} \cap DANGEROUS_GOG_WORDS = {}
             /\ EnabledCommands(input.args) # {}
             /\ EnabledCommands(input.args) \subseteq SAFE_GOG_ENABLE_COMMANDS
    THEN Allow ELSE Nil

\* isReadOnlyGhApi: no body, and every method GET or HEAD.
GhApiReads(args) ==
    /\ \A i \in 1 .. Len(args) :
          args[i] \in {"-X", "--method"} => i < Len(args) /\ Lower(args[i + 1]) \in {"get", "head"}
    /\ ToSet(args) \cap (GH_API_FIELD_FLAGS \cup {"--method=POST"}) = {}

\* readPositionals: the arguments that do not begin with a dash.
Positionals(args) ==
    LET positional(arg) == ~Has(arg, "option")
        picked == SelectSeq(args, positional)
    IN  [i \in 1 .. Len(picked) |-> Lower(picked[i])]

GhRule(input) ==
    LET words == Positionals(input.args)
    IN  IF /\ input.cmd = "gh" /\ words # <<>>
           /\ IF words[1] = "api" THEN GhApiReads(input.args)
              ELSE /\ ToSet(words) \cap GH_WRITE_VERBS = {}
                   /\ ToSet(words) \cap GH_READ_VERBS # {}
        THEN Allow ELSE Nil

IcalBuddyRule(input) == IF input.cmd = "icalbuddy" THEN Allow ELSE Nil

SafeAllowRule(input) ==
    LET args == input.args
        literal == \A arg \in ToSet(args) : ~Has(arg, "metachar or glob")
    IN  IF \/ input.cmd \in ZERO_ARG_SAFE /\ args = <<>>
           \/ input.cmd \in VERSION_SAFE_COMMANDS /\ Len(args) = 1 /\ args[1] \in VERSION_FLAGS
           \/ input.cmd \in {"which", "where", "where.exe"} /\ Len(args) = 1 /\ literal
           \/ input.cmd = "command" /\ Len(args) = 2 /\ args[1] = "-v" /\ literal
           \/ input.cmd = "echo" /\ literal
        THEN Allow ELSE Nil

\* DEFAULT_RULES, in their order.
Verdicts(input) ==
    << HardlineRule(input), DangerousRule(input), GogRule(input),
       GhRule(input), IcalBuddyRule(input), SafeAllowRule(input) >>

\* Fault: a rule that throws is passed over.
GuardSkipping(input, threw) ==
    LET verdicts == Verdicts(input)
        hits == {i \in 1 .. Len(verdicts) : verdicts[i] # Nil /\ i # threw}
    IN  IF hits = {} THEN Ask ELSE verdicts[CHOOSE i \in hits : \A j \in hits : i <= j]

\* checkShellCommandGuardWithRules: the first rule that matches or throws decides.  threw
\* is the rule that throws, 0 when it is the normalisation, or Nil.
Guard(input, threw) ==
    LET verdicts == Verdicts(input)
        hits == {i \in 1 .. Len(verdicts) : verdicts[i] # Nil \/ i = threw}
        first == CHOOSE i \in hits : \A j \in hits : i <= j
    IN  IF threw = 0 \/ hits = {} \/ first = threw THEN Ask ELSE verdicts[first]

-----------------------------------------------------------------------------
(* os.shell.run                                                            *)

\* needsShellInterpretation: of the command alone, unless it is a whole line.
NeedsShell(wanted, windows) ==
    LET words == Split(wanted.cmd)
    IN  \/ Has(wanted.cmd, "metachar")
        \/ windows /\ Has(wanted.cmd, "variable")
        \/ windows /\ Len(words) = 1 /\ Lower(words[1]) \in WINDOWS_CMD_BUILTINS
        \/ wanted.args = <<>> /\ Len(words) > 1

ShouldExpandGlobArg(cmd, arg) ==
    /\ Has(arg, "glob") /\ ~Has(arg, "option")
    /\ Has(arg, "path") \/ cmd \in RELATIVE_GLOB_CMDS

\* The first matches of a glob.
GlobMatches == LET all == SetToSeq(files)
               IN  SubSeq(all, 1, IF Len(all) < MaxGlobMatches THEN Len(all) ELSE MaxGlobMatches)

\* expandShellGlobArgs: what matches nothing is left out, what cannot be listed stays.
Expand(wanted, unlisted) ==
    FlattenSeq([i \in 1 .. Len(wanted.args) |->
        LET arg == wanted.args[i]
        IN  IF ShouldExpandGlobArg(wanted.cmd, arg) /\ arg \notin unlisted THEN GlobMatches ELSE <<arg>>])

\* What runs: a line, or a command with its arguments.
Execution(wanted, windows, unlisted) ==
    LET shell == NeedsShell(wanted, windows)
    IN  [shell |-> shell, cmd |-> wanted.cmd,
         args |-> IF shell THEN wanted.args ELSE Expand(wanted, unlisted)]

\* shown: what an approval showed, if there was one.
Resting == [at |-> "idle", wanted |-> Nil, windows |-> FALSE, run |-> Nil, threw |-> Nil, shown |-> {}]

Over(c, how) == [shellCalls EXCEPT ![c] = [Resting EXCEPT !.at = how]]

ShellInit ==
    /\ files = {}
    /\ shellCalls = [c \in ShellCalls |-> Resting]
    /\ shellFaults = 0
    /\ elsewhere = 0

\* coerceShellArgs: arguments of the wrong shape.
RefuseArgs(c, wanted) ==
    /\ shellCalls[c].at = "idle"
    /\ wanted.args = Nil
    /\ shellCalls' = Over(c, "error")
    /\ UNCHANGED <<files, shellFaults, elsewhere>>

\* Up to the approval everything is synchronous: the arguments, the globs, the guard.
Judge(c, wanted, windows, unlisted, threw) ==
    LET run == Execution(wanted, windows, unlisted)
        verdict == Guard(NormaliseCommand(GuardInput(run)), threw)
    IN  /\ shellCalls[c].at = "idle"
        /\ wanted.args # Nil
        /\ threw = Nil \/ shellFaults < MaxShellFaults
        /\ shellFaults' = IF threw = Nil THEN shellFaults ELSE shellFaults + 1
        /\ shellCalls' =
             IF verdict = Block THEN Over(c, "error")
             ELSE [shellCalls EXCEPT ![c] =
                    [at |-> IF verdict = Ask THEN "waiting" ELSE "running",
                     wanted |-> wanted, windows |-> windows, run |-> run, threw |-> threw,
                     shown |-> IF verdict = Ask THEN {run} ELSE {}]]
        /\ UNCHANGED <<files, elsewhere>>

\* Fault: the globs are left to the moment the command runs.
ApprovedExpanding(c, yes) ==
    /\ shellCalls[c].at = "waiting"
    /\ shellCalls' =
         IF yes THEN [shellCalls EXCEPT ![c].at = "running",
                         ![c].run = Execution(shellCalls[c].wanted, shellCalls[c].windows, {})]
         ELSE Over(c, "error")
    /\ UNCHANGED <<files, shellFaults, elsewhere>>

\* requireApproval, of the command line as it was expanded; then runCommand.
Approved(c, yes) ==
    /\ shellCalls[c].at = "waiting"
    /\ shellCalls' = IF yes THEN [shellCalls EXCEPT ![c].at = "running"] ELSE Over(c, "error")
    /\ UNCHANGED <<files, shellFaults, elsewhere>>

\* The command ends, fails or is timed out.
ShellEnds(c, how) ==
    /\ shellCalls[c].at = "running"
    /\ shellCalls' = Over(c, how)
    /\ UNCHANGED <<files, shellFaults, elsewhere>>

OtherChangesFiles(f) ==
    /\ elsewhere < MaxFileChanges
    /\ files' = IF f \in files THEN files \ {f} ELSE files \cup {f}
    /\ elsewhere' = elsewhere + 1
    /\ UNCHANGED <<shellCalls, shellFaults>>

Globs(wanted) == IF wanted.args = Nil THEN {} ELSE {arg \in ToSet(wanted.args) : Has(arg, "glob")}

ShellNext ==
    \/ \E c \in ShellCalls :
         \/ \E wanted \in CommandLines : RefuseArgs(c, wanted)
         \/ \E wanted \in CommandLines, windows \in BOOLEAN, threw \in 0 .. 6 \cup {Nil} :
              \E unlisted \in SUBSET Globs(wanted) : Judge(c, wanted, windows, unlisted, threw)
         \/ \E yes \in BOOLEAN : Approved(c, yes)
         \/ \E how \in {"done", "error"} : ShellEnds(c, how)
    \/ \E f \in FileNames : OtherChangesFiles(f)

ShellSpec == ShellInit /\ [][ShellNext]_shellVars

-----------------------------------------------------------------------------
(* Properties                                                              *)

\* Of the normal form of what runs, in the words the guard takes it for.  What runs without
\* the owner is what a trusted or a safe rule lets through while every rule was in order and
\* no hardline or dangerous pattern matches it; what a hardline pattern matches runs only
\* where the guard failed, and then the owner was asked.  The normal form knows neither the
\* directory a command is in nor where the shell ends one command of a line.
GuardedRun ==
    \A c \in ShellCalls :
        LET call == shellCalls[c]
            judged == NormaliseCommand(GuardInput(call.run))
        IN  call.at = "running" =>
              /\ Hardline(judged.words) => call.threw \in {0, 1} /\ call.shown # {}
              /\ call.shown = {} =>
                    /\ ~ Dangerous(judged.words)
                    /\ \E i \in 3 .. 6 : Verdicts(judged)[i] = Allow /\ call.threw \notin 0 .. i

\* What runs after an approval is what the approval showed, whatever became of the files
\* a glob was expanded to.
RunsAsShown ==
    \A c \in ShellCalls :
        shellCalls[c].at = "running" => \A line \in shellCalls[c].shown : shellCalls[c].run = line
=============================================================================
