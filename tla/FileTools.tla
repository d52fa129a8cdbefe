------------------------------ MODULE FileTools ------------------------------
(***************************************************************************)
(* The tools of packages/tools/filesystem that change files: os.fs.write,  *)
(* os.fs.edit, os.fs.patch and os.fs.trash.  Each asks for an approval and *)
(* awaits it; what the owner is shown is made before, of files read before *)
(* it, and the files are changed after it.  Every await lets others in:    *)
(* tool calls of other sessions, and whoever else writes these files.  The *)
(* file system may fail a call and the process may die between two.        *)
(*                                                                         *)
(* The approval gate, the file system and applyPatch of the diff package   *)
(* are not in the repository.  A text is a sequence of lines.              *)
(***************************************************************************)
EXTENDS Integers, SequencesExt, FiniteSets

CONSTANTS
    Runs,       \* the tool calls
    Paths,
    Texts,      \* what the files hold at first, and others write into them
    Requests,   \* the arguments of the tool calls
    Null,       \* no file, no text
    MaxFaults, MaxCrashes, MaxOthers   \* bounds: failing calls, crashes, other writers' changes

\* A change of one file: old becomes new.  A write has no old, a trash neither.
Target == [path : Paths, old : Seq(STRING) \cup {Null}, new : Seq(STRING) \cup {Null}]

\* flag: replaceAll of an edit, apply of a patch, append of a write; for a trash,
\* whether the platform takes one path at a time (macOS, Windows) or all (Linux).
Request == [tool : {"edit", "patch", "write", "trash"}, targets : Seq(Target), flag : BOOLEAN]

\* What a tool call may return, "thrown" for an exception and "died" where it never returns.
Endings == {"ok", "dry-run", "apply-refused", "path not found", "failed", "thrown", "died"}

ASSUME FileToolsAssumption ==
    /\ Texts \subseteq Seq(STRING)
    /\ \A q \in Requests :
        /\ q \in Request /\ q.targets # <<>>
        /\ q.tool \in {"edit", "write"} => Len(q.targets) = 1
        /\ q.tool = "edit" => q.targets[1].old # <<>> /\ q.targets[1].old # q.targets[1].new
        /\ \A i \in DOMAIN q.targets :
              /\ q.targets[i].new = Null <=> q.tool = "trash"
              /\ q.targets[i].old = Null <=> q.tool \in {"write", "trash"}
    /\ {MaxFaults, MaxCrashes, MaxOthers} \subseteq Nat
    /\ Null \notin Seq(STRING) \cup Endings

VARIABLES
    disk,     \* path to text, Null where there is no file
    temps,    \* the runs whose temporary file exists
    runs,     \* where each tool call stands
    faults, crashes, others   \* what happened so far of what is bounded

vars == <<disk, temps, runs, faults, crashes, others>>

-----------------------------------------------------------------------------
(* Texts.                                                                  *)

Matches(text, old, i) ==
    i + Len(old) <= Len(text) + 1 /\ SubSeq(text, i, i + Len(old) - 1) = old

\* Fault: the search goes on one further, so that matches overlap.
CountOverlapping(text, old) == Cardinality({i \in 1 .. Len(text) : Matches(text, old, i)})

\* countOccurrences: matches that do not overlap, from the left.
CountOccurrences(text, old) ==
    LET count[i \in 1 .. Len(text) + 1] ==
            IF i > Len(text) THEN 0
            ELSE IF Matches(text, old, i) THEN 1 + count[i + Len(old)] ELSE count[i + 1]
    IN  count[1]

ReplaceEvery(text, old, new) ==
    LET rest[i \in 1 .. Len(text) + 1] ==
            IF i > Len(text) THEN <<>>
            ELSE IF Matches(text, old, i) THEN new \o rest[i + Len(old)] ELSE <<text[i]>> \o rest[i + 1]
    IN  rest[1]

\* applyPatch with one hunk: its old lines are looked for; a hunk without old lines
\* makes a file.  Null where the hunk does not match.
ApplyPatch(text, target) ==
    IF target.old = <<>> THEN IF text = <<>> THEN target.new ELSE Null
    ELSE IF CountOccurrences(text, target.old) = 0 THEN Null
    ELSE ReplaceFirstSubSeq(target.new, target.old, text)

-----------------------------------------------------------------------------
(* A tool call.  at: the next thing it does.  shown: by target, the text    *)
(* the approval was asked for, Null where there is none.  read: the targets *)
(* read so far.  done: the targets changed so far.  result: how it ended.   *)

Idle == [at |-> "idle", req |-> Null, shown |-> <<>>, read |-> {}, done |-> {}, result |-> Null]

Init ==
    /\ disk \in [Paths -> Texts \cup {Null}]
    /\ temps = {}
    /\ runs = [r \in Runs |-> Idle]
    /\ faults = 0 /\ crashes = 0 /\ others = 0

At(r, place) == runs[r].at = place
Tool(r) == runs[r].req.tool
Targets(r) == runs[r].req.targets

Step(r, run) == runs' = [runs EXCEPT ![r] = run]
Goes(r, place) == Step(r, [runs[r] EXCEPT !.at = place])
Ends(r, result) == Step(r, [runs[r] EXCEPT !.at = "ended", !.result = result])

\* A path's text; a file that is missing is an empty one.
TextAt(path) == IF disk[path] = Null THEN <<>> ELSE disk[path]

FilesStay == UNCHANGED <<disk, temps, crashes, others>>
Fault == faults < MaxFaults /\ faults' = faults + 1

\* The call begins: an edit and a patch read first, a write and a trash ask at once.
Call(r, req) ==
    /\ At(r, "idle")
    /\ Step(r, [Idle EXCEPT
           !.at = IF req.tool \in {"edit", "patch"} THEN "reading" ELSE "asking",
           !.req = req,
           !.shown = [i \in DOMAIN req.targets |-> IF req.tool = "write" THEN req.targets[i].new ELSE Null]])
    /\ FilesStay /\ UNCHANGED faults

\* os.fs.edit up to requireApproval.  It throws where there is no such file, and where
\* oldString is missing from it or not unique.
ReadForEdit(r) ==
    LET target == Targets(r)[1]
        text == disk[target.path]
        count == CountOccurrences(text, target.old)
    IN  /\ At(r, "reading") /\ Tool(r) = "edit"
        /\ IF text = Null \/ count = 0 \/ (count > 1 /\ ~runs[r].req.flag) THEN Ends(r, "thrown")
           ELSE Step(r, [runs[r] EXCEPT !.at = "asking",
                    !.shown[1] = IF runs[r].req.flag THEN ReplaceEvery(text, target.old, target.new)
                                 ELSE ReplaceFirstSubSeq(target.new, target.old, text)])
        /\ FilesStay /\ UNCHANGED faults

\* dryRunFile of one target; Promise.all lets them run in any order.  A target that
\* cannot be read does not apply.
DryRunFile(r, i) ==
    /\ At(r, "reading") /\ Tool(r) = "patch" /\ i \notin runs[r].read
    /\ \/ /\ Step(r, [runs[r] EXCEPT !.read = @ \cup {i},
                        !.shown[i] = ApplyPatch(TextAt(Targets(r)[i].path), Targets(r)[i])])
          /\ UNCHANGED faults
       \/ Step(r, [runs[r] EXCEPT !.read = @ \cup {i}]) /\ Fault
    /\ FilesStay

PatchIsRead(r) ==
    /\ At(r, "reading") /\ Tool(r) = "patch" /\ runs[r].read = DOMAIN Targets(r)
    /\ IF runs[r].req.flag THEN Goes(r, "asking") ELSE Ends(r, "dry-run")
    /\ FilesStay /\ UNCHANGED faults

\* The owner approves, or no approval is required.
Approve(r) ==
    /\ At(r, "asking")
    /\ Goes(r, "approved")
    /\ FilesStay /\ UNCHANGED faults

\* The owner denies, or the session is aborted: requireApproval throws.
Deny(r) ==
    /\ At(r, "asking")
    /\ Ends(r, "thrown")
    /\ FilesStay /\ UNCHANGED faults

-----------------------------------------------------------------------------
(* atomicWrite of os.fs.edit: a temporary file beside the target, renamed.  *)

\* Fault: the write is outside of the try, so that nothing removes what it left.
WriteTempUntried(r) ==
    /\ At(r, "approved") /\ Tool(r) = "edit"
    /\ \/ Goes(r, "renaming") /\ temps' = temps \cup {r} /\ UNCHANGED faults
       \/ Ends(r, "thrown") /\ temps' \in {temps, temps \cup {r}} /\ Fault
    /\ UNCHANGED <<disk, crashes, others>>

WriteTemp(r) ==
    /\ At(r, "approved") /\ Tool(r) = "edit"
    /\ \/ Goes(r, "renaming") /\ temps' = temps \cup {r} /\ UNCHANGED faults
       \/ Goes(r, "unlinking") /\ temps' \in {temps, temps \cup {r}} /\ Fault
    /\ UNCHANGED <<disk, crashes, others>>

\* Fault: the edit is made anew of what the file holds by now.
RenameFresh(r) ==
    LET target == Targets(r)[1]
    IN  /\ At(r, "renaming")
        /\ disk' = [disk EXCEPT ![target.path] = ReplaceEvery(TextAt(target.path), target.old, target.new)]
        /\ temps' = temps \ {r}
        /\ Step(r, [runs[r] EXCEPT !.at = "ended", !.result = "ok", !.done = {1}])
        /\ UNCHANGED <<faults, crashes, others>>

\* A temporary file that is gone cannot be renamed, and nobody else removes one.
Rename(r) ==
    /\ At(r, "renaming")
    /\ \/ /\ disk' = [disk EXCEPT ![Targets(r)[1].path] = runs[r].shown[1]]
          /\ temps' = temps \ {r}
          /\ Step(r, [runs[r] EXCEPT !.at = "ended", !.result = "ok", !.done = {1}])
          /\ UNCHANGED faults
       \/ Goes(r, "unlinking") /\ Fault /\ UNCHANGED <<disk, temps>>
    /\ UNCHANGED <<crashes, others>>

Unlink(r) ==
    /\ At(r, "unlinking")
    /\ \/ temps' = temps \ {r} /\ UNCHANGED faults
       \/ r \in temps /\ Fault /\ UNCHANGED temps
    /\ Ends(r, "thrown")
    /\ UNCHANGED <<disk, crashes, others>>

-----------------------------------------------------------------------------
(* writeFile of os.fs.write and os.fs.patch: the file is emptied and then   *)
(* written.  A patch does so with one target after the other.               *)

Current(r) == Cardinality(runs[r].done) + 1
PathOf(r) == Targets(r)[Current(r)].path

\* Fault: the loop over the targets is left after the first one.
WrittenOnce(r) ==
    [runs[r] EXCEPT !.done = @ \cup {Current(r)},
                    !.at = "ended",
                    !.result = IF Current(r) = Len(Targets(r)) THEN "ok" ELSE Null]

Written(r) ==
    [runs[r] EXCEPT !.done = @ \cup {Current(r)},
                    !.at = IF Current(r) = Len(Targets(r)) THEN "ended" ELSE "approved",
                    !.result = IF Current(r) = Len(Targets(r)) THEN "ok" ELSE Null]

\* A patch that does not apply everywhere writes nothing.
RefusePatch(r) ==
    /\ At(r, "approved") /\ Tool(r) = "patch"
    /\ Null \in ToSet(runs[r].shown)
    /\ Ends(r, "apply-refused")
    /\ FilesStay /\ UNCHANGED faults

Rewrites(r) == \/ Tool(r) = "write" /\ ~runs[r].req.flag
               \/ Tool(r) = "patch" /\ Null \notin ToSet(runs[r].shown)

\* The file is opened, and emptied; a write makes its directory before.
OpenFile(r) ==
    /\ At(r, "approved") /\ Rewrites(r)
    /\ \/ disk' = [disk EXCEPT ![PathOf(r)] = <<>>] /\ Goes(r, "filling") /\ UNCHANGED faults
       \/ Ends(r, "thrown") /\ Fault /\ UNCHANGED disk
    /\ UNCHANGED <<temps, crashes, others>>

\* The text goes into the open file, of which the path may have another one by now;
\* where the call fails, part of it does.
FillFile(r) ==
    /\ At(r, "filling")
    /\ \/ /\ \/ disk' = [disk EXCEPT ![PathOf(r)] = runs[r].shown[Current(r)]]
             \/ disk[PathOf(r)] # <<>> /\ UNCHANGED disk
          /\ Step(r, Written(r)) /\ UNCHANGED faults
       \/ /\ \E written \in Prefixes(runs[r].shown[Current(r)]) :
                 disk' = [disk EXCEPT ![PathOf(r)] = written]
          /\ Ends(r, "thrown") /\ Fault
    /\ UNCHANGED <<temps, crashes, others>>

AppendFile(r) ==
    /\ At(r, "approved") /\ Tool(r) = "write" /\ runs[r].req.flag
    /\ \/ /\ disk' = [disk EXCEPT ![PathOf(r)] = TextAt(PathOf(r)) \o runs[r].shown[1]]
          /\ Step(r, [runs[r] EXCEPT !.at = "ended", !.result = "ok", !.done = {1}])
          /\ UNCHANGED faults
       \/ Ends(r, "thrown") /\ Fault /\ UNCHANGED disk
    /\ UNCHANGED <<temps, crashes, others>>

-----------------------------------------------------------------------------
(* os.fs.trash: first every path has to exist, then all of them go.  One     *)
(* command takes one path, or all of them and as many as it can.            *)

\* The stat of the next path, in order.
StatPath(r) ==
    LET i == Cardinality(runs[r].read) + 1
    IN  /\ At(r, "approved") /\ Tool(r) = "trash"
        /\ IF disk[Targets(r)[i].path] = Null THEN Ends(r, "path not found")
           ELSE Step(r, [runs[r] EXCEPT !.read = @ \cup {i},
                            !.at = IF i = Len(Targets(r)) THEN "trashing" ELSE @])
        /\ FilesStay /\ UNCHANGED faults

\* osascript, or a stat and PowerShell, on one path.
TrashOne(r) ==
    /\ At(r, "trashing") /\ runs[r].req.flag
    /\ \/ /\ disk[PathOf(r)] # Null
          /\ disk' = [disk EXCEPT ![PathOf(r)] = Null]
          /\ Step(r, [Written(r) EXCEPT !.at = IF @ = "approved" THEN "trashing" ELSE @])
          /\ UNCHANGED faults
       \/ /\ disk[PathOf(r)] = Null
          /\ \E result \in {"failed", "thrown"} : Ends(r, result)
          /\ UNCHANGED <<disk, faults>>
       \/ Ends(r, "failed") /\ Fault /\ UNCHANGED disk
    /\ UNCHANGED <<temps, crashes, others>>

\* Fault: a path that is gone already is no error.
TrashManyForce(r, place, failed) ==
    LET there == {i \in DOMAIN Targets(r) : disk[Targets(r)[i].path] # Null}
    IN  /\ At(r, place) /\ ~runs[r].req.flag
        /\ \E gone \in SUBSET there :
            /\ disk' = [p \in Paths |-> IF \E i \in gone : Targets(r)[i].path = p THEN Null ELSE disk[p]]
            /\ IF gone = there
               THEN Step(r, [runs[r] EXCEPT !.at = "ended", !.result = "ok", !.done = @ \cup gone])
               ELSE Step(r, [failed EXCEPT !.done = @ \cup gone])
            /\ IF gone = there THEN UNCHANGED faults ELSE Fault
        /\ UNCHANGED <<temps, crashes, others>>

\* gio trash, and trash-put with all the paths again where gio exits with an error.
TrashMany(r, place, failed) ==
    LET there == {i \in DOMAIN Targets(r) : disk[Targets(r)[i].path] # Null}
    IN  /\ At(r, place) /\ ~runs[r].req.flag
        /\ \E gone \in SUBSET there :
            /\ disk' = [p \in Paths |-> IF \E i \in gone : Targets(r)[i].path = p THEN Null ELSE disk[p]]
            /\ IF gone = DOMAIN Targets(r)
               THEN Step(r, [runs[r] EXCEPT !.at = "ended", !.result = "ok", !.done = gone])
               ELSE Step(r, [failed EXCEPT !.done = @ \cup gone])
            /\ IF gone = there THEN UNCHANGED faults ELSE Fault
        /\ UNCHANGED <<temps, crashes, others>>

GioTrash(r) == TrashMany(r, "trashing", [runs[r] EXCEPT !.at = "trashing again"])
TrashPut(r) == TrashMany(r, "trashing again", [runs[r] EXCEPT !.at = "ended", !.result = "failed"])

-----------------------------------------------------------------------------
(* The world around.                                                       *)

\* Others change, make or remove a file.
OtherWriter(p, text) ==
    /\ others < MaxOthers /\ disk[p] # text
    /\ disk' = [disk EXCEPT ![p] = text]
    /\ others' = others + 1
    /\ UNCHANGED <<temps, runs, faults, crashes>>

Crash ==
    /\ crashes < MaxCrashes
    /\ \E r \in Runs : runs[r].at \notin {"idle", "ended"}
    /\ crashes' = crashes + 1
    /\ runs' = [r \in Runs |-> IF runs[r].at \in {"idle", "ended"} THEN runs[r]
                               ELSE [runs[r] EXCEPT !.at = "ended", !.result = "died"]]
    /\ UNCHANGED <<disk, temps, faults, others>>

Next ==
    \/ \E r \in Runs :
        \/ \E req \in Requests : Call(r, req)
        \/ ReadForEdit(r) \/ PatchIsRead(r)
        \/ \E i \in DOMAIN runs[r].shown : DryRunFile(r, i)
        \/ Approve(r) \/ Deny(r)
        \/ WriteTemp(r) \/ Rename(r) \/ Unlink(r)
        \/ RefusePatch(r) \/ OpenFile(r) \/ FillFile(r) \/ AppendFile(r)
        \/ StatPath(r) \/ TrashOne(r) \/ GioTrash(r) \/ TrashPut(r)
    \/ \E p \in Paths, text \in Texts \cup {Null} : OtherWriter(p, text)
    \/ Crash

Spec == Init /\ [][Next]_vars

-----------------------------------------------------------------------------
(* Properties.                                                             *)

Places == {"idle", "reading", "asking", "approved", "renaming", "unlinking", "filling",
           "trashing", "trashing again", "ended"}
Results == Endings \cup {Null}

\* Every variable has its type, a run's progress is about its targets, and a call
\* has a result exactly when it has ended.
TypeOK ==
    /\ disk \in [Paths -> Seq(STRING) \cup {Null}]
    /\ temps \in SUBSET Runs
    /\ faults \in Nat /\ crashes \in Nat /\ others \in Nat
    /\ \A r \in Runs :
        \/ runs[r] = Idle
        \/ /\ runs[r] \in [at : Places, req : Requests, shown : Seq(Seq(STRING) \cup {Null}),
                           read : SUBSET Nat, done : SUBSET Nat, result : Results]
           /\ Len(runs[r].shown) = Len(Targets(r))
           /\ runs[r].read \cup runs[r].done \subseteq DOMAIN Targets(r)
           /\ runs[r].at = "ended" <=> runs[r].result # Null

\* What a tool call may make of its target i: an edit the text that was shown and
\* nothing else at any time, a rewrite that text or part of it.
Outcomes(r, i) ==
    CASE Tool(r) = "trash" -> {Null}
      [] Tool(r) = "edit" -> {runs[r].shown[i]}
      [] Tool(r) = "write" /\ runs[r].req.flag ->
             {TextAt(Targets(r)[i].path) \o runs[r].shown[i]}
      [] OTHER -> Prefixes(runs[r].shown[i])

\* A tool call changes nothing before its approval, and after it nothing but its
\* targets, into the text the approval was asked for: what others write while it
\* waits does not change what is approved.
AsApproved ==
    [][\A r \in Runs, p \in Paths :
          runs'[r] # runs[r] /\ disk'[p] # disk[p] =>
              /\ runs[r].at \notin {"idle", "reading", "asking"}
              /\ \E i \in DOMAIN Targets(r) :
                     Targets(r)[i].path = p /\ disk'[p] \in Outcomes(r, i)]_vars

\* A temporary file of an edit that has ended takes two failing calls in a row, or
\* a crash: the write or the rename, and then the unlink.
TempsRemoved ==
    crashes = 0 => 2 * Cardinality({r \in temps : At(r, "ended")}) <= faults

\* The edit tool's three loops over a text agree: what is counted is what is replaced,
\* and of a unique match once and all are the same.
CountsAgree ==
    \A p \in Paths, q \in Requests :
        disk[p] # Null /\ q.tool = "edit" =>
            LET change == q.targets[1]
                count == CountOccurrences(disk[p], change.old)
                all == ReplaceEvery(disk[p], change.old, change.new)
            IN  /\ Len(all) = Len(disk[p]) + count * (Len(change.new) - Len(change.old))
                /\ count <= 1 => all = ReplaceFirstSubSeq(change.new, change.old, disk[p])

\* What a tool call returns is what it did: ok for all of its targets, a refusal, a
\* dry run and a missing path for none, though others change the paths meanwhile; and
\* the number of replacements an edit reports is that of those it makes.
ReportsTrue ==
    /\ CountsAgree
    /\ \A r \in Runs :
        /\ runs[r].result = "ok" => runs[r].done = DOMAIN Targets(r)
        /\ runs[r].result \in {"dry-run", "apply-refused", "path not found"} => runs[r].done = {}

\* fs-patch.ts: either the whole patch lands, or nothing is written.  Where no other
\* call and nobody else interferes, an applied patch has all its changes in the files.
PatchLands ==
    \A r \in Runs :
        /\ runs[r].result = "ok" /\ Tool(r) = "patch"
        /\ others = 0 /\ \A s \in Runs \ {r} : At(s, "idle")
        => \A i \in DOMAIN Targets(r) :
               CountOccurrences(disk[Targets(r)[i].path], Targets(r)[i].new) > 0
=============================================================================
