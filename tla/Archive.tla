------------------------------ MODULE Archive -------------------------------
(***************************************************************************)
(* The archive tools of tools/filesystem/archive: os.fs.archive.extract,   *)
(* with the zip, tar and gzip backends, and what read_entry finds in one.  *)
(*                                                                         *)
(* An extraction walks the entries and awaits a call of the file system at *)
(* a time, so that other programs, and other extractions, come in between. *)
(* A name is the sequence of its segments, and of a file only who wrote it *)
(* and its size are kept.  Names are vetted by what they say, and then     *)
(* followed by the operating system, through whatever links are there.     *)
(***************************************************************************)
EXTENDS Integers, FiniteSetsExt, SequencesExt, Selection

CONSTANTS
    Extractions,    \* calls of the tool
    Orders,         \* [archive, format, overwrite, followSymlinks, include, limits, valid], where
                    \* an archive is [ext, magic, inner, entries, gzName, gzSize]: what its name
                    \* and its bytes say
    Dest,           \* destDir, as the sequence of its segments; the directory is there
    TreePaths,      \* the paths, in it and elsewhere, at which something may be
    Unset,          \* undefined, and nobody
    MaxHops,        \* the links and dots that the operating system takes in one path (ELOOP)
    MaxDiskFaults, MaxIntrusions   \* bounds: failing calls, changes by other programs

PathNames == Seq(STRING)
EntryKinds == {"file", "directory", "symlink", "link", "device"}
ArchiveEntry == [name : PathNames, kind : EntryKinds, size : Nat, to : PathNames]

\* Segments that are no names.
Dots == {"", ".", ".."}
PlainPaths == {p \in PathNames : \A i \in DOMAIN p : p[i] \notin Dots}

ASSUME ArchiveAssumption ==
    /\ {MaxHops, MaxDiskFaults, MaxIntrusions} \subseteq Nat
    /\ Unset \notin Extractions
    /\ Dest \in PlainPaths /\ TreePaths \subseteq PlainPaths /\ IsFiniteSet(TreePaths)
    /\ \A p \in TreePaths : ~ IsPrefix(p, Dest)
    /\ \A order \in Orders :
          /\ order.archive.entries \in Seq(ArchiveEntry)
          /\ order.archive.gzName \in PathNames /\ Len(order.archive.gzName) <= 1
          /\ order.archive.gzSize \in Nat
          /\ order.limits \in [maxEntries : Nat, maxEntryBytes : Nat, maxTotalBytes : Nat]

VARIABLES
    tree,         \* what is at each path: [kind, by, size, to], where to is what a symlink
                  \* holds, and tells the files apart: hard links have it in common
    extractions,  \* where each call stands
    diskFaults, intrusions   \* what happened so far of what is bounded

archiveVars == <<tree, extractions, diskFaults, intrusions>>

Node(kind, by, size, to) == [kind |-> kind, by |-> by, size |-> size, to |-> to]
Nothing == Node("nothing", Unset, 0, <<>>)
Directory == Node("directory", Unset, 0, <<>>)

-----------------------------------------------------------------------------
(* Archives                                                                *)

\* detectArchiveFormat: the name decides, if the bytes agree; else the bytes alone.  A
\* .tgz is a .tar.gz.
Detect(archive) ==
    CASE archive.ext \in {"zip", "tar", "gz"} -> IF archive.magic = archive.ext THEN archive.ext ELSE Unset
      [] archive.ext = "tar.gz" -> IF archive.magic = "gz" THEN "tar.gz" ELSE Unset
      [] OTHER -> archive.magic

\* parseFormatOverride short-circuits the detection.
FormatOf(order) == IF order.format # Unset THEN order.format ELSE Detect(order.archive)

\* The backend makes sense of the bytes; a format given by mistake throws in its parser.
Parses(archive, format) ==
    CASE format = "tar.gz" -> archive.magic = "gz" /\ archive.inner = "tar"
      [] OTHER -> archive.magic = format

\* A zip is a map of names: an entry comes where its name came first, and is the last one.
ZipEntries(entries) ==
    LET named(i) == {j \in DOMAIN entries : entries[j].name = entries[i].name}
        kept == Kept([i \in DOMAIN entries |-> i], {i \in DOMAIN entries : i = Min(named(i))})
    IN  [i \in DOMAIN kept |-> entries[Max(named(kept[i]))]]

Normalised(name) == IF name # <<>> /\ Head(name) = "." THEN Tail(name) ELSE name

\* normaliseTarName
TarEntries(entries) == [i \in DOMAIN entries |-> [entries[i] EXCEPT !.name = Normalised(@)]]

\* A gzip file is one entry, whatever it holds.
GzEntries(archive) ==
    << [name |-> archive.gzName, kind |-> "file", size |-> archive.gzSize, to |-> <<>>] >>

Walked(archive, format) ==
    CASE format = "zip" -> ZipEntries(archive.entries)
      [] format = "gz" -> GzEntries(archive)
      [] OTHER -> TarEntries(archive.entries)

\* os.fs.archive.read_entry: the first entry of that name, if it is a file; Unset throws.
\* A zip shows what a symlink holds as well.
ReadEntry(archive, format, name) ==
    LET walked == Walked(archive, format)
        hits == {i \in DOMAIN walked : walked[i].name = name}
        first == walked[Min(hits)]
        shown == IF format = "zip" THEN {"file", "symlink"} ELSE {"file"}
    IN  IF hits = {} \/ first.kind \notin shown THEN Unset ELSE first.size

\* resolve: ".", ".." and the empty one are no names.
Resolved(from, name) ==
    LET dir[i \in 0 .. Len(name)] ==
            IF i = 0 THEN from
            ELSE CASE name[i] \in {".", ""} -> dir[i - 1]
                   [] name[i] = ".." -> IF dir[i - 1] = <<>> THEN <<>> ELSE Front(dir[i - 1])
                   [] OTHER -> Append(dir[i - 1], name[i])
    IN  dir[Len(name)]

\* sanitizeEntryPath: the path of an entry, Unset where it is refused: it is empty, is
\* absolute (its first segment is "", which stands for a drive, a backslash and a null
\* byte as well), or leaves destDir.
Sanitize(name) ==
    IF name \in {<<>>, <<".">>} \/ Head(name) = "" \/ ~IsPrefix(Dest, Resolved(Dest, name)) THEN Unset
    ELSE Resolved(Dest, name)

Included(order, name) ==
    order.include = {} \/ \E prefix \in order.include : IsPrefix(prefix, Normalised(name))

\* The path of an entry; that of a gzip file is not vetted.
Absolute(format, e) == IF format = "gz" THEN Resolved(Dest, e.name) ELSE Sanitize(e.name)

\* Where the target of a link should lead: a symlink's from its own directory, a hard
\* link's from destDir.
LinkTarget(e) == Sanitize(IF e.kind = "symlink" THEN Front(Normalised(e.name)) \o e.to ELSE e.to)

-----------------------------------------------------------------------------
(* The file system                                                         *)

\* What is at a path of a tree, links not followed.
AtIn(t, p) == IF p \in TreePaths THEN t[p] ELSE IF IsPrefix(p, Dest) THEN Directory ELSE Nothing

\* A path turns at a symlink, and at a segment that is no name, if what is before it is a
\* directory; and what it turns into: what the symlink holds, from where it is or from the
\* root, the directory itself or the one above it.
Turns(t, p) ==
    AtIn(t, p).kind = "symlink" \/ (Last(p) \in Dots /\ AtIn(t, Front(p)).kind = "directory")
Turned(t, p) ==
    LET to == AtIn(t, p).to
    IN  CASE AtIn(t, p).kind = "symlink" -> IF to # <<>> /\ Head(to) = "" THEN to ELSE Front(p) \o to
          [] Last(p) = ".." /\ Front(p) # <<>> -> Front(Front(p))
          [] OTHER -> Front(p)

\* Where a path leads: it is taken from turn to turn.  If there are too many, one is left.
RealIn(t, p) ==
    LET turns(q) == {i \in DOMAIN q : Turns(t, SubSeq(q, 1, i))}
        hop[k \in 0 .. MaxHops] ==
            IF k = 0 THEN p
            ELSE LET q == hop[k - 1]
                     i == Min(turns(q))
                 IN  IF turns(q) = {} THEN q ELSE Turned(t, SubSeq(q, 1, i)) \o SubSeq(q, i + 1, Len(q))
    IN  hop[MaxHops]

\* The same, but for the last segment: a link that is there is not followed.
LocatedIn(t, p) == Append(RealIn(t, Front(p)), Last(p))

NodeAt(p) == AtIn(tree, p)
Real(p) == RealIn(tree, p)
Located(p) == LocatedIn(tree, p)

\* A new file is none of the files that are there.
FileId == CHOOSE id \in TreePaths : \A q \in TreePaths : tree[q].kind = "file" => tree[q].to # id

\* access: the links are followed.
PathExists(p) == NodeAt(Real(p)).kind \in {"file", "directory"}

\* mkdir, recursive: what is there is a directory, or nothing but directories are on the way.
Ancestors(p) == {SubSeq(p, 1, i) : i \in 1 .. Len(p)}
IsThere(dir) == NodeAt(Real(dir)).kind = "directory"
Makeable(p) == Real(p) = Located(p) /\ Real(p) \in TreePaths /\ tree[Real(p)].kind = "nothing"
CanMkdir(dir) == IsThere(dir) \/ \A a \in Ancestors(dir) : IsThere(a) \/ Makeable(a)
Mkdir(dir) ==
    LET made == IF IsThere(dir) THEN {} ELSE {Real(a) : a \in {b \in Ancestors(dir) : Makeable(b)}}
    IN  [p \in TreePaths |-> IF p \in made THEN Directory ELSE tree[p]]

-----------------------------------------------------------------------------
(* os.fs.archive.extract                                                   *)

NoExtraction ==
    [at |-> "idle", order |-> Unset, format |-> Unset, entries |-> <<>>, next |-> 0,
     count |-> 0, total |-> 0, extracted |-> 0, written |-> 0, skipped |-> {}, warned |-> {},
     before |-> [p \in TreePaths |-> Nothing]]

ArchiveInit ==
    /\ \E there \in SUBSET {p \in TreePaths : IsPrefix(Front(p), Dest)} :
          tree = [p \in TreePaths |-> IF p \in there THEN Node("file", Unset, 1, p) ELSE Nothing]
    /\ extractions = [x \in Extractions |-> NoExtraction]
    /\ diskFaults = 0 /\ intrusions = 0

Order(x) == extractions[x].order
Entry(x) == extractions[x].entries[extractions[x].next]
EntryPath(x) == Absolute(extractions[x].format, Entry(x))
Moves(x, to) == extractions' = [extractions EXCEPT ![x] = to]
Proceeds(x, place) == Moves(x, [extractions[x] EXCEPT !.at = place])
DiskFault == diskFaults < MaxDiskFaults /\ diskFaults' = diskFaults + 1

\* From one entry to the next, or to the end; bytes is what was written for it.
Skips(run) == [run EXCEPT !.at = "entry", !.next = @ + 1, !.skipped = @ \cup {run.next}]
Passes(run) == [run EXCEPT !.at = "entry", !.next = @ + 1]
Wrote(run, bytes) == [Passes(run) EXCEPT !.extracted = @ + 1, !.written = @ + bytes]

\* The archive is read before the approval is asked for: what is extracted is what was
\* there then.
CallExtract(x, order) ==
    /\ extractions[x].at = "idle"
    /\ Moves(x, [NoExtraction EXCEPT
           !.at = IF order.valid /\ FormatOf(order) # Unset THEN "asking" ELSE "thrown",
           !.order = order, !.format = FormatOf(order)])
    /\ UNCHANGED <<tree, diskFaults, intrusions>>

\* requireApproval, then the backend opens the archive.
Approval(x, yes) ==
    LET run == extractions[x]
    IN  /\ run.at = "asking"
        /\ Moves(x, IF yes /\ Parses(run.order.archive, run.format)
                    THEN [run EXCEPT !.at = "entry", !.next = 1, !.before = tree,
                              !.entries = Walked(run.order.archive, run.format)]
                    ELSE [run EXCEPT !.at = "thrown"])
        /\ UNCHANGED <<tree, diskFaults, intrusions>>

\* Fault: the total is compared before the entry is added to it.
ChargeEntryLate(run, size) ==
    /\ run.count < run.order.limits.maxEntries /\ size <= run.order.limits.maxEntryBytes
    /\ run.total <= run.order.limits.maxTotalBytes

\* ExtractBudget.chargeEntry
ChargeEntry(run, size) ==
    /\ run.count < run.order.limits.maxEntries /\ size <= run.order.limits.maxEntryBytes
    /\ run.total + size <= run.order.limits.maxTotalBytes

\* What a walk does with the next entry before its first await.  Devices and fifos are
\* passed over; the entry of a gzip file is neither vetted nor filtered.
NextEntry(x) ==
    LET run == extractions[x]
        e == Entry(x)
        isLink == e.kind \in {"symlink", "link"}
        charged == [run EXCEPT !.count = @ + 1, !.total = @ + e.size,
                               !.at = IF run.order.overwrite THEN "making" ELSE "checking"]
    IN  /\ run.at = "entry" /\ run.next <= Len(run.entries)
        /\ Moves(x, IF e.kind = "device" THEN Passes(run)
                    ELSE IF EntryPath(x) = Unset THEN Skips(run)
                    ELSE IF run.format # "gz" /\ ~Included(run.order, e.name) THEN Passes(run)
                    ELSE IF e.kind = "directory" THEN [run EXCEPT !.at = "making"]
                    ELSE IF isLink
                    THEN IF run.order.followSymlinks /\ LinkTarget(e) # Unset
                         THEN [run EXCEPT !.at = "making"] ELSE Skips(run)
                    ELSE IF ChargeEntry(run, e.size) THEN charged ELSE Skips(run))
        /\ UNCHANGED <<tree, diskFaults, intrusions>>

\* pathExists, of a file that must not be overwritten.
CheckPath(x) ==
    /\ extractions[x].at = "checking"
    /\ IF PathExists(EntryPath(x)) THEN Moves(x, Skips(extractions[x])) ELSE Proceeds(x, "making")
    /\ UNCHANGED <<tree, diskFaults, intrusions>>

\* mkdir of the directory, or of the one an entry goes into; a failure ends it all.
MakeDirectory(x) ==
    LET run == extractions[x]
        isDirectory == Entry(x).kind = "directory"
        dir == IF isDirectory THEN EntryPath(x) ELSE Front(EntryPath(x))
    IN  /\ run.at = "making"
        /\ \/ /\ CanMkdir(dir)
              /\ tree' = Mkdir(dir)
              /\ Moves(x, IF isDirectory THEN Passes(run) ELSE [run EXCEPT !.at = "writing"])
              /\ UNCHANGED diskFaults
           \/ /\ Proceeds(x, "thrown") /\ UNCHANGED tree
              /\ IF CanMkdir(dir) THEN DiskFault ELSE UNCHANGED diskFaults
        /\ UNCHANGED intrusions

\* symlink and link: what exists is never replaced, a symlink holds something, and a failure
\* is a warning.  The platform tells if a hard link to a symlink is one to what it leads to.
MakeLink(x) ==
    LET run == extractions[x]
        e == Entry(x)
        p == Located(EntryPath(x))
        nodes == IF e.kind = "symlink" THEN {Node("symlink", x, 0, to) : to \in {e.to} \ {<<>>}}
                 ELSE {node \in {NodeAt(Real(LinkTarget(e))), NodeAt(Located(LinkTarget(e)))} :
                          node.kind \in {"file", "symlink"}}
        possible == /\ EntryPath(x) # <<>> /\ p \in TreePaths /\ tree[p].kind = "nothing"
                    /\ NodeAt(Front(p)).kind = "directory"
                    /\ nodes # {}
    IN  /\ run.at = "writing" /\ e.kind \in {"symlink", "link"}
        /\ \/ /\ possible
              /\ \E node \in nodes : tree' = [tree EXCEPT ![p] = node]
              /\ Moves(x, Wrote(run, 0)) /\ UNCHANGED diskFaults
           \/ /\ Moves(x, [Passes(run) EXCEPT !.warned = @ \cup {run.next}]) /\ UNCHANGED tree
              /\ IF possible THEN DiskFault ELSE UNCHANGED diskFaults
        /\ UNCHANGED intrusions

\* writeFile, through a link to what it leads to; a failing one leaves a part of the file.
WriteEntry(x) ==
    LET run == extractions[x]
        p == Real(EntryPath(x))
        possible == /\ p \in TreePaths /\ tree[p].kind \in {"nothing", "file"}
                    /\ NodeAt(Front(p)).kind = "directory"
        id == IF tree[p].kind = "file" THEN tree[p].to ELSE FileId
        file(size) == [q \in TreePaths |-> IF q = p \/ (tree[q].kind = "file" /\ tree[q].to = id)
                                           THEN Node("file", x, size, id) ELSE tree[q]]
    IN  /\ run.at = "writing" /\ Entry(x).kind = "file"
        /\ \/ possible /\ tree' = file(Entry(x).size) /\ Moves(x, Wrote(run, Entry(x).size))
              /\ UNCHANGED diskFaults
           \/ possible /\ DiskFault /\ Proceeds(x, "thrown")
              /\ \/ UNCHANGED tree
                 \/ \E size \in 0 .. Entry(x).size : tree' = file(size)
           \/ ~possible /\ Proceeds(x, "thrown") /\ UNCHANGED <<tree, diskFaults>>
        /\ UNCHANGED intrusions

Report(x) ==
    /\ extractions[x].at = "entry" /\ extractions[x].next > Len(extractions[x].entries)
    /\ Proceeds(x, "ok")
    /\ UNCHANGED <<tree, diskFaults, intrusions>>

\* Another program writes a file or removes one.
OtherProgram(p) ==
    /\ intrusions < MaxIntrusions /\ tree[p].kind \in {"nothing", "file"}
    /\ NodeAt(Front(p)).kind = "directory"
    /\ tree' = [tree EXCEPT ![p] = IF @.kind = "nothing" THEN Node("file", Unset, 1, FileId) ELSE Nothing]
    /\ intrusions' = intrusions + 1
    /\ UNCHANGED <<extractions, diskFaults>>

ArchiveNext ==
    \/ \E x \in Extractions :
        \/ \E order \in Orders : CallExtract(x, order)
        \/ \E yes \in BOOLEAN : Approval(x, yes)
        \/ NextEntry(x) \/ CheckPath(x) \/ MakeDirectory(x) \/ MakeLink(x) \/ WriteEntry(x)
        \/ Report(x)
    \/ \E p \in TreePaths : OtherProgram(p)

ArchiveSpec == ArchiveInit /\ [][ArchiveNext]_archiveVars

-----------------------------------------------------------------------------
(* Properties                                                              *)

Alone(x) == intrusions = 0 /\ \A y \in Extractions \ {x} : extractions[y].at \in {"idle", "asking"}

\* The files that are an extraction's, however many names they have.
FilesOf(x) == {tree[p] : p \in {q \in TreePaths : tree[q].kind = "file" /\ tree[q].by = x}}
Bytes(files) == SumOver([file \in files |-> file.size], files)

\* Whatever an archive holds and wherever a call fails, what an extraction leaves in the
\* tree is within the limits of the call, and covered by the bytes it reports.
WithinLimits(x) ==
    LET run == extractions[x]
        limits == run.order.limits
    IN  /\ Bytes(FilesOf(x)) <= limits.maxTotalBytes
        /\ Cardinality(FilesOf(x)) <= limits.maxEntries
        /\ \A file \in FilesOf(x) : file.size <= limits.maxEntryBytes
        /\ run.at # "thrown" => Bytes(FilesOf(x)) <= run.written

\* Without overwrite an extraction alone changes no file that was there before it.
KeepsFiles(x) ==
    LET run == extractions[x]
    IN  ~run.order.overwrite /\ Alone(x) =>
            \A p \in TreePaths : run.before[p].kind = "file" => tree[p] = run.before[p]

\* The entries that were neither skipped, nor warned of, nor left out.
Done(run) ==
    {i \in DOMAIN run.entries \ (run.skipped \cup run.warned) :
        /\ run.entries[i].kind # "device"
        /\ run.format = "gz" \/ Included(run.order, run.entries[i].name)}

\* Where an entry is: the link itself, but a file or a directory behind the links.
Found(run, i) ==
    LET e == run.entries[i]
        p == Absolute(run.format, e)
    IN  NodeAt(IF e.kind \in {"symlink", "link"} THEN Located(p) ELSE Real(p))

\* What is done is there; and the files, unless they may overwrite each other, are whole,
\* and the ones that read_entry shows.
LeavesNothingOut(x) ==
    LET run == extractions[x]
        e(i) == run.entries[i]
        firstOfItsName(i) == \A j \in 1 .. i - 1 : e(j).name # e(i).name
    IN  run.at = "ok" /\ Alone(x) => \A i \in Done(run) :
            /\ Found(run, i).kind # "nothing"
            /\ e(i).kind = "file" /\ ~run.order.overwrite =>
                  /\ Found(run, i) = Node("file", x, e(i).size, Found(run, i).to)
                  /\ firstOfItsName(i) =>
                         ReadEntry(run.order.archive, run.format, e(i).name) = e(i).size

\* Without followSymlinks an extraction alone changes nothing outside destDir.
StaysInside(x) ==
    LET run == extractions[x]
    IN  ~run.order.followSymlinks /\ Alone(x) =>
            \A p \in TreePaths : ~IsPrefix(Dest, p) => tree[p] = run.before[p]

\* What an extraction does to the disk: no more than its limits and its report say, to
\* nothing it was to leave alone, and no less than what it lists.  With followSymlinks that
\* is not only what is in destDir: a symlink is vetted by what its target says, and then
\* followed to where it leads.
ExtractionHonest ==
    \A x \in Extractions :
        extractions[x].entries # <<>> =>
            WithinLimits(x) /\ KeepsFiles(x) /\ StaysInside(x) /\ LeavesNothingOut(x)
=============================================================================
