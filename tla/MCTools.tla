------------------------------ MODULE MCTools -------------------------------
(* The tools: files, glob, watch, archives, shell, web and browser.  They     *)
(* share no state, so that a behaviour is of one of them; the others rest in  *)
(* one of their initial states.                                               *)
EXTENDS MCFileTools, Glob, Watch, Archive, Shell, Web, Browser

VARIABLE part
toolsVars == <<vars, globVars, watching, archiveVars, shellVars, webVars, browserVars, part>>

-----------------------------------------------------------------------------
(* Glob: patterns of up to three segments on paths of up to three names, some *)
(* of them special characters; trees of files and directories, of which one   *)
(* changes during a call; ignored files and directories, and all the limits.  *)

Literal(c) == [atom |-> "literal", char |-> c]
Star == [atom |-> "star"]
OneChar == [atom |-> "any"]
Either(left, right) == [atom |-> "either", left |-> left, right |-> right]
MCSegments ==
    {Globstar, <<Literal("a")>>, <<Star>>, <<OneChar, Star>>, <<Star, Literal("b")>>, <<Literal("\\")>>,
     <<Either(<<"a">>, <<"b", "a">>), OneChar>>, <<Literal("{"), Either(<<>>, <<"a">>)>>}
MCSegmentPatterns ==
    UNION {[1 .. k -> MCSegments] : k \in 1 .. 2}
        \cup {p \in [1 .. 3 -> MCSegments] : Globstar \in {p[1], p[2]}}
MCNames == {<<"a">>, <<"b">>, <<"*">>, <<"a", "b">>, <<"{", "a">>}
an == <<"a">>
bn == <<"b">>
abn == <<"a", "b">>
MCGlobOrder == <<<<an>>, <<abn>>, <<bn>>, <<bn, an>>, <<bn, abn>>, <<bn, bn>>, <<bn, bn, an>>>>
MCProbePaths ==
    LET plain(n) == UNION {[1 .. k -> MCNames] : k \in 1 .. n}
    IN plain(3) \cup {Append(p, <<>>) : p \in plain(2) \cup ToSet(MCGlobOrder)}
Present(kind, mtime) == [kind |-> kind, mtime |-> mtime]
Planted(nodes) == [p \in ToSet(MCGlobOrder) |-> nodes[CHOOSE i \in DOMAIN nodes : MCGlobOrder[i] = p]]
MCGlobTrees ==
    {Planted(<<Present("file", 1), Present("file", 2), Present("dir", 1), Present("file", 2),
               Absent, Present("dir", 1), Present("file", 1)>>),
     Planted(<<Present("dir", 1), Present("file", 1), Present("dir", 1), Present("file", 1),
               Present("file", 2), Absent, Absent>>)}
GlobCall(patterns, ignore, limit, byMtime) ==
    [patterns |-> patterns, ignore |-> ignore, limit |-> limit, byMtime |-> byMtime]
MCGlobCalls ==
    {GlobCall({<<Globstar, <<Literal("a"), Star>>>>}, {}, 2, FALSE),
     GlobCall({<<Globstar, <<Star>>>>}, {<<Globstar, <<Literal("b")>>, Globstar>>}, 3, TRUE),
     GlobCall({<<Globstar>>}, {<<<<Literal("b")>>, <<Literal("b")>>>>}, 2, TRUE),
     GlobCall({<<<<Literal("b")>>, Globstar>>, <<<<Star, Literal("b")>>>>}, {}, 9, FALSE),
     GlobCall({<<Globstar, <<Literal("a"), Literal("*"), Literal("b")>>>>}, {<<<<Either(<<"a", "?">>, <<"c">>)>>>>}, 2, FALSE),
     GlobCall({<<<<Literal("a"), Literal("*")>>>>}, {<<<<Literal("*")>>>>}, 2, FALSE)}
MCGlobPatterns == MCSegmentPatterns \cup UNION {call.patterns \cup call.ignore : call \in MCGlobCalls}

-----------------------------------------------------------------------------
(* Watch: several kinds, with either end, and one that ends at once.          *)

WatchCall(events, maxEvents, stopAfterFirst) ==
    [events |-> events, maxEvents |-> maxEvents, stopAfterFirst |-> stopAfterFirst]
MCWatchCalls ==
    {WatchCall({"add"}, 2, FALSE), WatchCall({"add", "change"}, 3, TRUE), WatchCall({"change"}, 0, FALSE)}

-----------------------------------------------------------------------------
(* Archives: names that repeat, that leave destDir or lead through one      *)
(* another, links, a device, and files that are not what their name says.   *)

MCDest == <<"d">>
File(name, size) == [name |-> name, kind |-> "file", size |-> size, to |-> <<>>]
Other(name, kind, to) == [name |-> name, kind |-> kind, size |-> 0, to |-> to]
Pack(ext, magic, entries) ==
    [ext |-> ext, magic |-> magic, inner |-> "tar", entries |-> entries, gzName |-> <<"a">>, gzSize |-> 2]
MCTreePaths == {<<"d", "a">>, <<"d", "b">>, <<"d", "b", "c">>, <<"e">>}
MCArchives ==
    {Pack("zip", "zip", <<File(<<"a">>, 2), File(<<"b", "c">>, 1), File(<<"a">>, 1), File(<<"..", "a">>, 1)>>),
     Pack("tar", "tar", <<File(<<".", "a">>, 1), Other(<<"a">>, "device", <<>>), File(<<"a">>, 2), Other(<<"b">>, "directory", <<>>), File(<<"b", "c">>, 1)>>),
     Pack("tar.gz", "gz", <<Other(<<"a">>, "symlink", <<"b">>), File(<<"a">>, 1), Other(<<"b">>, "link", <<"a">>), File(<<"", "a">>, 1)>>),
     Pack("tar", "tar", <<File(<<"b">>, 1), Other(<<"a">>, "link", <<"b">>), File(<<"a">>, 2), File(<<"b", "c">>, 1)>>),
     Pack("zip", "zip", <<File(<<"b", "c">>, 2), File(<<"b">>, 1), Other(<<"a">>, "symlink", <<"b">>)>>),
     Pack("tar", "tar", <<Other(<<"a">>, "symlink", <<"b", "c">>), Other(<<"b", "c">>, "symlink", <<"..", "b">>), Other(<<"a">>, "directory", <<>>), File(<<"b", "c">>, 1)>>),
     Pack("tar", "tar", <<Other(<<"a">>, "symlink", <<"b">>), Other(<<"b">>, "link", <<"a">>), File(<<"a">>, 1)>>),
     Pack("tar", "tar", <<Other(<<"b", "c">>, "symlink", <<"", "e">>), File(<<"b", "c">>, 1), File(<<"b", "..", "a">>, 2)>>),
     Pack("zip", "zip", <<Other(<<"a">>, "symlink", <<"b", "..">>), Other(<<"b">>, "directory", <<>>), File(<<"a", "b", "c">>, 1)>>),
     Pack("bin", "gz", <<>>), Pack("zip", "tar", <<>>)}
Limits(entries, entry, total) == [maxEntries |-> entries, maxEntryBytes |-> entry, maxTotalBytes |-> total]
MCOrders ==
    {[archive |-> archive, format |-> Unset, overwrite |-> overwrite, followSymlinks |-> follow,
      include |-> {}, limits |-> limits, valid |-> TRUE] :
        archive \in MCArchives, overwrite, follow \in BOOLEAN, limits \in {Limits(2, 2, 3), Limits(3, 2, 2)}}
    \cup
    {[archive |-> archive, format |-> format, overwrite |-> FALSE, followSymlinks |-> TRUE,
      include |-> {<<"b">>}, limits |-> Limits(9, 1, 9), valid |-> format # "gz"] :
        archive \in MCArchives, format \in {Unset, "tar", "gz"}}

-----------------------------------------------------------------------------
(* Shell: lines, globs, the rules of gog and gh, arguments of the wrong     *)
(* shape, and strings that are not what they are judged as.                 *)

Cmd(cmd, args) == [cmd |-> cmd, args |-> args]
MCCommandLines ==
    {Cmd("rm", <<"-rf", "*">>), Cmd("rm", <<"*">>), Cmd("ls", <<"-v", "*", "./?">>), Cmd("pwd", <<>>), Cmd("pwd", Nil),
     Cmd("node", <<"-v">>), Cmd("node", <<"-*">>), Cmd("which", <<"./?">>), Cmd("command", <<"-v", "*">>),
     Cmd("echo", <<"halt">>), Cmd("echo", <<"list">>), Cmd("%echo%", <<"list">>), Cmd("icalbuddy", <<"esc sudo">>),
     Cmd("which node | sudo", <<>>), Cmd("echo list LF view", <<>>), Cmd("echo ctl halt", <<>>),
     Cmd("bin/DATE", <<>>), Cmd("echo;", <<"HALT">>),
     Cmd("gog", <<"--account", "send", "auth", "list">>),
     Cmd("gog", <<"--no-input", "--enable-commands", "gmail.search", "list">>),
     Cmd("gog", <<"--no-input", "--enable-commands", "gmail.search", "Send">>),
     Cmd("gog", <<"--no-input", "--enable-commands", "gmail.send">>),
     Cmd("gh", <<"list", "view">>), Cmd("gh", <<"list", "merge">>),
     Cmd("gh", <<"api", "-X", "GET">>), Cmd("gh", <<"api", "-X", "POST">>),
     Cmd("gh", <<"api", "--method=GET", "-f">>)}
MCSplit(s) ==
    CASE s = "which node | sudo" -> <<"which", "node", "|", "sudo">>
      [] s = "echo list LF view" -> <<"echo", "list", "view">>
      [] s = "echo ctl halt" -> <<"echo", "ctl halt">>
      [] s = " halt" -> <<"halt">>
      [] OTHER -> <<s>>
MCBase(s) == IF s = "bin/DATE" THEN "DATE" ELSE s
MCPlain(s) == CASE s = "esc sudo" -> "sudo" [] s = "ctl halt" -> " halt" [] OTHER -> s
MCLower(s) ==
    CASE s = "DATE" -> "date" [] s = "HALT" -> "halt" [] s = "Send" -> "send"
      [] s = "GET" -> "get" [] s = "POST" -> "post" [] OTHER -> s
MCHas(s, kind) ==
    CASE kind = "metachar" -> s \in {"which node | sudo", "echo;", "|"}
      [] kind = "glob" -> s \in {"*", "./?", "-*"}
      [] kind = "metachar or glob" -> s \in {"|", "*", "./?", "-*"}
      [] kind = "path" -> s \in {"./?", "bin/DATE"}
      [] kind = "variable" -> s = "%echo%"
      [] kind = "option" -> s \in {"-rf", "-v", "-*", "-X", "-f", "--account", "--enable-commands", "--no-input", "--method=GET"}
      [] kind = "long option" -> s \in {"--account", "--enable-commands", "--no-input", "--method=GET"}
MCHardline(words) == ToSet(words) \cap {"halt", "/w/halt"} # {}
MCDangerous(words) == "sudo" \in ToSet(words) \/ {"rm", "-rf"} \subseteq ToSet(words)

-----------------------------------------------------------------------------
(* Web: one call at a time, of each tool; public, mapped, unique local and  *)
(* link local addresses; all the redirects a hop can meet.                  *)

Public == <<8, 8, 8, 8>>
Url(name, ip) == [http |-> TRUE, name |-> name, ip |-> ip]
A == Url(<<"a", "com">>, <<>>)
MCHostNames == {<<"a", "com">>}
MCProviderUrls == [name \in {"exa", "duckduckgo", "searxng", "brave"} |-> A]
MCDns == {<<>>, <<Public>>, <<<<0, 0, 0, 0, 0, 65535, 43518, 257>>>>,
          <<<<9734, 0, 0, 0, 0, 0, 0, 1>>, <<65023, 0, 0, 0, 0, 0, 0, 1>>>>}
Http(url, method, body, follow, valid) ==
    [tool |-> "request", url |-> url, method |-> method, body |-> body, follow |-> follow, valid |-> valid, query |-> ""]
Fetch(url, valid) == [Http(url, "GET", "none", TRUE, valid) EXCEPT !.tool = "fetch"]
Search(query, valid) == [Http(A, "GET", "none", TRUE, valid) EXCEPT !.tool = "search", !.query = query]
MCWebRequests ==
    {Http(A, "POST", "text", TRUE, TRUE), Http(A, "GET", "none", FALSE, TRUE), Http(A, "GET", "object", TRUE, TRUE),
     Http(Url(<<"b", "a", "com">>, <<10, 0, 0, 1>>), "GET", "none", TRUE, TRUE),
     Fetch(A, TRUE), Fetch(A, FALSE), Fetch([A EXCEPT !.http = FALSE], TRUE),
     Search("q", TRUE), Search("q", FALSE)}
Answer(status, redirect, body) == [marked |-> TRUE, status |-> status, redirect |-> redirect, body |-> body]
MCResponses ==
    {Answer(200, NoUrl, "results"), Answer(200, NoUrl, "none"), Answer(200, NoUrl, "challenge"), Answer(200, NoUrl, "refusal"),
     Answer(200, NoUrl, "page"), [Answer(404, NoUrl, "page") EXCEPT !.marked = FALSE], Answer(404, NoUrl, "page"),
     Answer(303, A, "page"), Answer(307, A, "page"), Answer(302, Url(<<"c">>, <<127, 0, 0, 1>>), "page"),
     Answer(302, [A EXCEPT !.http = FALSE], "page")}
Conf == [http |-> TRUE, allowlisted |-> FALSE, allowlist |-> {}, approvalMode |-> "writes", search |-> FALSE,
         provider |-> "exa", fallback |-> <<"searxng", "duckduckgo">>, instanceUrl |-> FALSE,
         braveKey |-> "none", exaKey |-> FALSE]
MCWebConfigs ==
    {Conf,
     [Conf EXCEPT !.allowlisted = TRUE, !.allowlist = {[wild |-> TRUE, name |-> <<"com">>]},
                  !.approvalMode = "always"],
     [Conf EXCEPT !.allowlisted = TRUE, !.allowlist = {[wild |-> FALSE, name |-> <<"b", "com">>]},
                  !.approvalMode = "never"],
     [Conf EXCEPT !.http = FALSE, !.search = TRUE],
     [Conf EXCEPT !.http = FALSE, !.search = TRUE, !.provider = "brave", !.braveKey = "blank",
                  !.fallback = <<"searxng", "brave">>, !.instanceUrl = TRUE],
     [Conf EXCEPT !.http = FALSE, !.search = TRUE, !.exaKey = TRUE, !.braveKey = "set", !.fallback = <<"brave">>]}

-----------------------------------------------------------------------------
(* Browser: attached to, missing, on POSIX and on Windows.                  *)

Set(cdpUrl, executable, windows) == [cdpUrl |-> cdpUrl, executable |-> executable, windows |-> windows]
MCNumberOf == [p \in Away |-> 1]
MCSettings == {Set(TRUE, TRUE, FALSE), Set(FALSE, FALSE, FALSE), Set(FALSE, TRUE, FALSE), Set(FALSE, TRUE, TRUE)}

-----------------------------------------------------------------------------

ToolsInit ==
    /\ Init /\ GlobInit /\ WatchInit /\ ArchiveInit /\ ShellInit /\ WebInit /\ BrowserInit
    /\ part \in {"files", "glob", "watch", "archive", "shell", "web", "browser"}
    /\ part # "files" => disk = CHOOSE d \in [Paths -> Texts \cup {Null}] : TRUE
    /\ part # "glob" => globTree = CHOOSE t \in GlobTrees : TRUE
    /\ part # "archive" => tree = [p \in TreePaths |-> Nothing]
    /\ part # "web" => /\ webConfig = CHOOSE conf \in WebConfigs : TRUE
                      /\ dns = CHOOSE d \in [HostNames -> DnsAnswers] : TRUE
    /\ part # "browser" => settings = CHOOSE s \in Settings : TRUE

ToolsNext ==
    \/ part = "files" /\ Next
       /\ UNCHANGED <<globVars, watching, archiveVars, shellVars, webVars, browserVars, part>>
    \/ part = "glob" /\ GlobNext
       /\ UNCHANGED <<vars, watching, archiveVars, shellVars, webVars, browserVars, part>>
    \/ part = "watch" /\ WatchNext
       /\ UNCHANGED <<vars, globVars, archiveVars, shellVars, webVars, browserVars, part>>
    \/ part = "archive" /\ ArchiveNext
       /\ UNCHANGED <<vars, globVars, watching, shellVars, webVars, browserVars, part>>
    \/ part = "shell" /\ ShellNext
       /\ UNCHANGED <<vars, globVars, watching, archiveVars, webVars, browserVars, part>>
    \/ part = "web" /\ WebNext
       /\ UNCHANGED <<vars, globVars, watching, archiveVars, shellVars, browserVars, part>>
    \/ part = "browser" /\ BrowserNext
       /\ UNCHANGED <<vars, globVars, watching, archiveVars, shellVars, webVars, part>>

ToolsSpec == ToolsInit /\ [][ToolsNext]_toolsVars
=============================================================================
