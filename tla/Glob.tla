-------------------------------- MODULE Glob --------------------------------
(***************************************************************************)
(* os.fs.glob (tools/filesystem/fs-glob.ts): what a call finds of files    *)
(* that others change meanwhile.  The walk awaits a readdir for every      *)
(* directory and a stat for every match.                                   *)
(*                                                                         *)
(* Patterns and names are sequences of characters, as compileGlob reads    *)
(* them one by one.  Left out are case (nocase), absolute paths, line      *)
(* breaks, and what is neither a file nor a directory, which a walk passes *)
(* over.  A { that reaches the expression bare is a quantifier where a     *)
(* number in braces follows; the characters here have no digits.           *)
(***************************************************************************)
EXTENDS Integers, Sequences, FiniteSets, SequencesExt

CONSTANTS
    GlobOrder,     \* the paths there may be below cwd, as localeCompare orders them
    GlobTrees,     \* what there may be when a call begins
    GlobPatterns,  \* the patterns a caller may mean: see Denotes
    GlobCalls,     \* arguments of os.fs.glob: [patterns, ignore, limit, byMtime]
    MaxCollected,  \* MAX_FILES_COLLECTED
    ProbePaths,    \* paths every pattern is tried on, as compileGlob's regex sees them
    MaxMtime,      \* bound: mtimes
    MaxGlobChanges \* bound: changes by others

VARIABLES
    globTree, \* path to what is there: kind and mtime
    walk,     \* the call
    touched   \* the paths others have changed since it began

globVars == <<globTree, walk, touched>>

-----------------------------------------------------------------------------
(* compileGlob: a pattern becomes a sequence of nodes, each of which is the *)
(* piece of a regular expression.                                          *)

Quantifiers == {"*", "?"}

\* escapeRegexChar lets * and ? through, which makes them quantifiers of what precedes.
EscapeRegexChar(c) == [node |-> IF c \in Quantifiers THEN "quantifier" ELSE "char", char |-> c]
Wild(node) == [node |-> node]

Braces(text) == Cardinality({i \in DOMAIN text : text[i] = "{"}) - Cardinality({i \in DOMAIN text : text[i] = "}"})

\* The brace that closes the one at i, 0 if none does.
FindMatchingBrace(pattern, i) ==
    LET closing == {j \in i .. Len(pattern) : Braces(SubSeq(pattern, i, j)) = 0}
    IN IF closing = {} THEN 0 ELSE CHOOSE j \in closing : \A k \in closing : j <= k

\* Cuts at the commas that are in no inner brace.
SplitBraceAlternatives(inner) ==
    LET cuts == {0, Len(inner) + 1} \cup
                {i \in DOMAIN inner : inner[i] = "," /\ Braces(SubSeq(inner, 1, i)) = 0}
        neighbours == {pair \in cuts \X cuts : pair[1] < pair[2] /\ \A c \in cuts : c <= pair[1] \/ c >= pair[2]}
    IN {SubSeq(inner, pair[1] + 1, pair[2] - 1) : pair \in neighbours}

CompileGlob(pattern) ==
    LET is(i, c) == i <= Len(pattern) /\ pattern[i] = c
        boundary(i) == i = 1 \/ is(i - 1, "/")
        from[i \in 1 .. Len(pattern) + 1] ==
            IF i > Len(pattern) THEN <<>>
            ELSE CASE pattern[i] = "\\" /\ i < Len(pattern) -> <<EscapeRegexChar(pattern[i + 1])>> \o from[i + 2]
                   [] pattern[i] = "*" /\ is(i + 1, "*") /\ boundary(i) /\ is(i + 2, "/") ->
                        <<Wild("segments")>> \o from[i + 3]
                   [] pattern[i] = "*" /\ is(i + 1, "*") /\ ~(boundary(i) /\ is(i + 2, "/")) ->
                        <<Wild("rest")>> \o from[i + 2]
                   [] pattern[i] = "*" /\ ~is(i + 1, "*") -> <<Wild("inSegment")>> \o from[i + 1]
                   [] pattern[i] = "?" -> <<Wild("one")>> \o from[i + 1]
                   [] pattern[i] = "{" /\ FindMatchingBrace(pattern, i) # 0 ->
                        LET end == FindMatchingBrace(pattern, i)
                            parts == SplitBraceAlternatives(SubSeq(pattern, i + 1, end - 1))
                        IN <<[node |-> "alternatives",
                              ways |-> {[k \in DOMAIN alt |-> EscapeRegexChar(alt[k])] : alt \in parts}]>>
                           \o from[end + 1]
                   [] OTHER -> <<EscapeRegexChar(pattern[i])>> \o from[i + 1]
    IN from[1]

\* How much may still follow a node: 2 a quantifier, 1 a ? that makes it lazy, 0 neither.
Repeatable(level, n) ==
    CASE n.node = "quantifier" -> level - (IF n.char = "?" \/ level = 2 THEN 1 ELSE 3)
      [] n.node \in {"inSegment", "rest", "segments"} -> 1
      [] OTHER -> 2

\* new RegExp throws at a quantifier that has nothing to repeat.
ValidWay(re) == \A k \in DOMAIN re : FoldLeft(Repeatable, 0, SubSeq(re, 1, k)) >= 0
Valid(re) ==
    ValidWay(re) /\ \A k \in DOMAIN re : re[k].node = "alternatives" => \A way \in re[k].ways : ValidWay(way)

\* The places a node can lead to from place i of a path.
Reaches(n, path, i) ==
    LET slash(j) == path[j] = "/"
        rest == i .. Len(path)
    IN CASE n.node = "char" -> {j \in rest : j = i + 1 /\ path[j] = n.char}
         [] n.node = "one" -> {j \in rest : j = i + 1 /\ ~slash(j)}
         [] n.node = "inSegment" -> {j \in rest : \A k \in i + 1 .. j : ~slash(k)}
         [] n.node = "rest" -> rest
         [] n.node = "segments" ->
                {j \in rest : j = i \/ (slash(j) /\ \A k \in i + 1 .. j : slash(k) => k > i + 1 /\ ~slash(k - 1))}

\* The places that a sequence of nodes leads to, one[k, i] being those of its node k from
\* place i: as many times as the quantifier behind it says, if one is.
Follow(re, path, start, one) ==
    LET once(k, places) == UNION {one[k, i] : i \in places}
        quantifier(k) == IF k < Len(re) /\ re[k + 1].node = "quantifier" THEN re[k + 1].char ELSE ""
        after[k \in 0 .. Len(re)] ==
            IF k = 0 THEN {start}
            ELSE IF re[k].node = "quantifier" THEN after[k - 1]
            ELSE CASE quantifier(k) = "" -> once(k, after[k - 1])
                   [] quantifier(k) = "?" -> after[k - 1] \cup once(k, after[k - 1])
                   [] quantifier(k) = "*" ->
                        FoldLeft(LAMBDA places, c : places \cup once(k, places), after[k - 1], path)
    IN after[Len(re)]

\* What a way between braces leads to, and any node.
FollowWay(way, path, i) ==
    Follow(way, path, i, [k \in DOMAIN way, j \in 0 .. Len(path) |-> Reaches(way[k], path, j)])
ReachesOneWay(n, path, i) ==
    IF n.node = "alternatives" THEN UNION {FollowWay(way, path, i) : way \in n.ways}
    ELSE Reaches(n, path, i)

\* RegExp.test: both ends are anchored.
RegexTest(re, path) ==
    Len(path) \in Follow(re, path, 0, [k \in DOMAIN re, i \in 0 .. Len(path) |-> ReachesOneWay(re[k], path, i)])

-----------------------------------------------------------------------------
(* What a pattern means: its segments are sequences of atoms, or a globstar. *)

Globstar == <<[atom |-> "globstar"]>>

Spelling(atom) ==
    CASE atom.atom = "globstar" -> <<"*", "*">>
      [] atom.atom = "star" -> <<"*">>
      [] atom.atom = "any" -> <<"?">>
      [] atom.atom = "literal" -> IF atom.char \in Quantifiers \cup {"{", "\\"} THEN <<"\\", atom.char>> ELSE <<atom.char>>
      [] atom.atom = "either" -> <<"{">> \o atom.left \o <<",">> \o atom.right \o <<"}">>

JoinChars(parts) ==
    LET joined[i \in 0 .. Len(parts)] ==
            IF i = 0 THEN <<>>
            ELSE joined[i - 1] \o (IF i = 1 THEN <<>> ELSE <<"/">>) \o parts[i]
    IN  joined[Len(parts)]

\* An escaped * or ?, or one in braces: the code makes something else of it than is meant.
Bare(segments) ==
    \E i \in DOMAIN segments : \E k \in DOMAIN segments[i] :
        LET atom == segments[i][k]
        IN  \/ atom.atom = "literal" /\ atom.char \in Quantifiers
            \/ atom.atom = "either" /\ (ToSet(atom.left) \cup ToSet(atom.right)) \cap Quantifiers # {}

\* The pattern as the caller writes it.
GlobText(segments) ==
    JoinChars([i \in DOMAIN segments |-> FlattenSeq([k \in DOMAIN segments[i] |-> Spelling(segments[i][k])])])

\* All ways to cut what has length m into n pieces.
Cuttings(n, m) ==
    {cut \in [0 .. n -> 0 .. m] : cut[0] = 0 /\ cut[n] = m /\ \A i \in 1 .. n : cut[i - 1] <= cut[i]}

AtomFits(atom, text) ==
    CASE atom.atom = "star" -> TRUE
      [] atom.atom = "any" -> Len(text) = 1
      [] atom.atom = "literal" -> text = <<atom.char>>
      [] atom.atom = "either" -> text \in {atom.left, atom.right}

SegmentFits(atoms, name) ==
    \E cut \in Cuttings(Len(atoms), Len(name)) :
        \A i \in DOMAIN atoms : AtomFits(atoms[i], SubSeq(name, cut[i - 1] + 1, cut[i]))

\* Every segment takes a name; ** takes any number of them, at the end one at least,
\* which may be the nothing after the slash of a directory.
Denotes(segments, names) ==
    \E cut \in Cuttings(Len(segments), Len(names)) :
        \A i \in DOMAIN segments :
            IF segments[i] = Globstar
            THEN i = Len(segments) => cut[i] > cut[i - 1]
            ELSE cut[i] = cut[i - 1] + 1 /\ SegmentFits(segments[i], names[cut[i]])

\* What the code takes it to mean, where that is something else.
Means(segments, names) ==
    IF Bare(segments) THEN RegexTest(CompileGlob(GlobText(segments)), JoinChars(names))
    ELSE Denotes(segments, names)

-----------------------------------------------------------------------------
(* os.fs.glob.                                                             *)

GlobPaths == ToSet(GlobOrder)
Absent == [kind |-> "none", mtime |-> 0]
KindAt(path) == IF path = <<>> THEN "dir" ELSE globTree[path].kind
DirsAbove(path) == {SubSeq(path, 1, k) : k \in 0 .. Len(path) - 1}
Children(dir) == {p \in GlobPaths : dir = Front(p) /\ KindAt(p) # "none"}

\* What exists is in a directory.
GlobTree(tree) ==
    /\ tree \in [GlobPaths -> [kind : {"file", "dir"}, mtime : Nat] \cup {Absent}]
    /\ \A p \in GlobPaths : tree[p] # Absent => Front(p) = <<>> \/ tree[Front(p)].kind = "dir"

\* What is called with, and what can be found, is among what PatternsMean is about.
ASSUME GlobAssumption ==
    /\ GlobOrder \in Seq(Seq(Seq(STRING)) \ {<<>>})
    /\ \A p \in GlobPaths : DirsAbove(p) \ {<<>>} \subseteq GlobPaths
    /\ GlobPaths \cup {Append(p, <<>>) : p \in GlobPaths} \subseteq ProbePaths
    /\ \A tree \in GlobTrees : GlobTree(tree)
    /\ \A call \in GlobCalls :
          /\ call.patterns \cup call.ignore \subseteq GlobPatterns
          /\ call.limit \in Nat /\ call.byMtime \in BOOLEAN
    /\ {MaxCollected, MaxMtime, MaxGlobChanges} \subseteq Nat

NoWalk == [at |-> "idle"]
Unread(dir) == [dir |-> dir, read |-> FALSE, left |-> <<>>]
Walking == walk.at = "walking" /\ walk.frames # <<>>
Frame == Last(walk.frames)
Full == Len(walk.found) >= MaxCollected
OnlyWalk == UNCHANGED <<globTree, touched>>

Return(w) == [w EXCEPT !.frames = Front(@)]

Compiles(call) == \A pattern \in call.patterns \cup call.ignore : Valid(CompileGlob(GlobText(pattern)))

\* The expressions are made first, and the call fails where one cannot be.
CallGlob(call) ==
    /\ walk = NoWalk
    /\ walk' = IF Compiles(call)
               THEN [at |-> "walking", call |-> call, frames |-> <<Unread(<<>>)>>,
                     found |-> <<>>, truncated |-> FALSE, unread |-> {}]
               ELSE [at |-> "failed", call |-> call]
    /\ OnlyWalk

\* Fault: the walk ends without a word.
CeilingSilent ==
    /\ Walking /\ Full /\ (Frame.read => Frame.left # <<>>)
    /\ walk' = Return(walk)
    /\ OnlyWalk

\* The ceiling, before a directory is read and before each of its entries.
CeilingReached ==
    /\ Walking /\ Full /\ (Frame.read => Frame.left # <<>>)
    /\ walk' = Return([walk EXCEPT !.truncated = TRUE])
    /\ OnlyWalk

\* readdir, in whatever order.  What cannot be read, because it is gone or for another
\* reason, is passed over.
ReadDirectory ==
    /\ Walking /\ ~Full /\ ~Frame.read
    /\ \/ /\ KindAt(Frame.dir) = "dir"
          /\ \E order \in SetToSeqs(Children(Frame.dir)) :
                walk' = [walk EXCEPT !.frames[Len(walk.frames)] =
                            [dir |-> Frame.dir, read |-> TRUE,
                             left |-> [i \in DOMAIN order |-> [path |-> order[i], kind |-> KindAt(order[i])]]]]
       \/ walk' = Return([walk EXCEPT !.unread = @ \cup {Frame.dir}])
    /\ OnlyWalk

MatchesAny(patterns, text) == \E pattern \in patterns : RegexTest(CompileGlob(GlobText(pattern)), text)

\* A directory is ignored by its name and by its name with a slash.
Ignored(e) ==
    \/ MatchesAny(walk.call.ignore, JoinChars(e.path))
    \/ e.kind = "dir" /\ MatchesAny(walk.call.ignore, JoinChars(e.path) \o <<"/">>)

\* The next entry.  Its kind is what readdir saw; the stat of a match comes later, and
\* the mtime of a file that is gone is zero.
VisitEntry ==
    /\ Walking /\ ~Full /\ Frame.read /\ Frame.left # <<>>
    /\ LET e == Head(Frame.left)
           after == [walk EXCEPT !.frames[Len(walk.frames)].left = Tail(@)]
       IN \/ Ignored(e) /\ walk' = after
          \/ /\ ~Ignored(e) /\ e.kind = "dir"
             /\ walk' = [after EXCEPT !.frames = Append(@, Unread(e.path))]
          \/ /\ ~Ignored(e) /\ e.kind = "file"
             /\ walk' = IF MatchesAny(walk.call.patterns, JoinChars(e.path))
                        THEN [after EXCEPT !.found = Append(@, [path |-> e.path, mtime |-> globTree[e.path].mtime])]
                        ELSE after
    /\ OnlyWalk

DirectoryEnds ==
    /\ Walking /\ Frame.read /\ Frame.left = <<>>
    /\ walk' = Return(walk)
    /\ OnlyWalk

Rank(path) == CHOOSE i \in DOMAIN GlobOrder : GlobOrder[i] = path

\* The newest first, or by name; sort is stable.
SortFound(found, byMtime) ==
    LET before(i, j) == IF byMtime
                        THEN found[i].mtime > found[j].mtime \/ (found[i].mtime = found[j].mtime /\ i < j)
                        ELSE Rank(found[i].path) < Rank(found[j].path)
        places == DOMAIN found
        order == CHOOSE o \in [places -> places] :
                    /\ \A i, j \in places : i < j => before(o[i], o[j])
                    /\ \A k \in places : \E i \in places : o[i] = k
    IN [i \in places |-> found[order[i]].path]

GlobReturns ==
    /\ walk.at = "walking" /\ walk.frames = <<>>
    /\ LET sorted == SortFound(walk.found, walk.call.byMtime)
           n == Len(sorted)
       IN walk' = [at |-> "done", call |-> walk.call, unread |-> walk.unread, full |-> Full,
                   files |-> SubSeq(sorted, 1, IF n <= walk.call.limit THEN n ELSE walk.call.limit),
                   truncated |-> walk.truncated \/ n > walk.call.limit]
    /\ OnlyWalk

\* Others write, create and remove files and directories.
OtherChangesEntry(path, kind, mtime) ==
    LET gone == {p \in GlobPaths : path \in DirsAbove(p) /\ globTree[p] # Absent} IN
    /\ walk.at = "walking" /\ Cardinality(touched) < MaxGlobChanges
    /\ KindAt(Front(path)) = "dir"
    /\ kind # "none" \/ globTree[path] # Absent
    /\ kind = "dir" => globTree[path].kind # "dir"
    /\ globTree' = [p \in GlobPaths |->
                    IF p = path THEN (IF kind = "none" THEN Absent ELSE [kind |-> kind, mtime |-> mtime])
                    ELSE IF p \in gone THEN Absent ELSE globTree[p]]
    /\ touched' = touched \cup gone \cup {path}
    /\ UNCHANGED walk

-----------------------------------------------------------------------------

GlobInit == globTree \in GlobTrees /\ walk = NoWalk /\ touched = {}

GlobNext ==
    \/ \E call \in GlobCalls : CallGlob(call)
    \/ CeilingReached \/ ReadDirectory \/ VisitEntry \/ DirectoryEnds \/ GlobReturns
    \/ \E path \in GlobPaths, kind \in {"none", "file", "dir"}, mtime \in 1 .. MaxMtime :
            OtherChangesEntry(path, kind, mtime)

GlobSpec == GlobInit /\ [][GlobNext]_globVars

-----------------------------------------------------------------------------
(* Properties.                                                             *)

\* compileGlob's expression is one, and matches what the pattern means, except where a * or
\* a ? is escaped or in braces: there it is neither the character nor the wildcard.
PatternsMean ==
    \A pattern \in GlobPatterns :
        LET re == CompileGlob(GlobText(pattern))
        IN  Bare(pattern) \/ /\ Valid(re)
                             /\ \A path \in ProbePaths : RegexTest(re, JoinChars(path)) <=> Denotes(pattern, path)

\* Neither the path nor a directory on the way to it is meant by an ignored pattern,
\* which may mean a directory by its name or by what is in it.
Meant(call, path) ==
    /\ \E pattern \in call.patterns : Means(pattern, path)
    /\ \A ignored \in call.ignore :
        /\ ~Means(ignored, path)
        /\ \A dir \in DirsAbove(path) \ {<<>>} : ~Means(ignored, dir) /\ ~Means(ignored, Append(dir, <<>>))

\* The files that were there all the time, in directories that were there and readable.
Steady ==
    {p \in GlobPaths : /\ globTree[p].kind = "file"
                       /\ ({p} \cup DirsAbove(p)) \cap touched = {}
                       /\ DirsAbove(p) \cap walk.unread = {}}

Precedes(p, q) == IF walk.call.byMtime THEN globTree[p].mtime >= globTree[q].mtime ELSE Rank(p) < Rank(q)

\* A walk finds what its patterns mean: all the files that are there all the time
\* unless it says that it is truncated, the first ones in order if it found more than
\* its limit, and never one that is not meant, whatever others do to the tree.  A call
\* fails only over a pattern whose expression is none.
WalksComplete ==
    /\ walk.at = "failed" => \E pattern \in walk.call.patterns \cup walk.call.ignore : Bare(pattern)
    /\ walk.at = "done" =>
        LET files == ToSet(walk.files)
            wanted == {p \in Steady : Meant(walk.call, p)}
        IN /\ ~walk.truncated => wanted \subseteq files
           /\ ~walk.full => \A p \in wanted \ files, f \in files \ touched : Precedes(f, p)
           /\ \A f \in files : Meant(walk.call, f) /\ (f \notin touched => globTree[f].kind = "file")
           /\ \A i, j \in DOMAIN walk.files :
                i < j /\ {walk.files[i], walk.files[j]} \cap touched = {} => Precedes(walk.files[i], walk.files[j])
           /\ Len(walk.files) <= walk.call.limit /\ Cardinality(files) = Len(walk.files)

GlobFinds == PatternsMean /\ WalksComplete
=============================================================================
