----------------------------- MODULE MCFileTools -----------------------------
(* The file tools with two calls at a time over two files, an edit, a patch *)
(* of both files, an append and a trash of both, and another writer.        *)
EXTENDS FileTools, TLC

CONSTANTS p1, p2

Change(path, old, new) == [path |-> path, old |-> old, new |-> new]
Req(tool, flag, targets) == [tool |-> tool, flag |-> flag, targets |-> targets]
Gone(path) == Change(path, Null, Null)

MCTexts == {<<"a">>, <<"a", "a", "a">>}
MCRequests ==
    {Req("edit", FALSE, <<Change(p1, <<"a", "a">>, <<"b">>)>>),
     Req("edit", TRUE, <<Change(p1, <<"a">>, <<"a", "b">>)>>),
     Req("patch", TRUE, <<Change(p1, <<"a">>, <<"c">>), Change(p2, <<>>, <<"c">>)>>),
     Req("patch", FALSE, <<Change(p1, <<"a">>, <<"c">>)>>),
     Req("write", FALSE, <<Change(p1, Null, <<"d">>)>>),
     Req("write", TRUE, <<Change(p1, Null, <<"d">>)>>),
     Req("trash", TRUE, <<Gone(p1), Gone(p2)>>),
     Req("trash", FALSE, <<Gone(p1), Gone(p2)>>)}

\* A patch with two sections for one file.
TwoSections ==
    {Req("patch", TRUE, <<Change(p1, <<"a">>, <<"c">>), Change(p1, <<"b">>, <<"d">>)>>)}
TwoLines == {<<"a", "b">>}
Symmetric == Permutations(Runs)
=============================================================================
