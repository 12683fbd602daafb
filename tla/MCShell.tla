------------------------------- MODULE MCShell ------------------------------
(* A small instance of Shell for TLC. *)
EXTENDS Shell

Abs(names) == [abs |-> TRUE, names |-> names]
Rel(names) == [abs |-> FALSE, names |-> names]
File(name, length) == [name |-> name, length |-> length]

\* /c/b, the shell, of one byte, and /a of three.
TwoFiles == <<File(<<"c", "b">>, 1), File(<<"a">>, 3)>>

MCShellPath == Abs(<<"c", "b">>)

MCExplored == {TwoFiles}

ImageNames == BoundedSeq({"a", "dev", "..", ""}, 3) \cup {<<"b", "a">>}

MCArchives ==
  {TwoFiles} \cup {<<File(n, 2)>> : n \in ImageNames}
             \cup {<<File(n, 2), File(m, 1)>> : n, m \in ImageNames}
             \cup {<<File(<<"c", "b">>, 2), File(<<"a">>, 3)>>}

MCPaths == {Abs(<<"a">>), Rel(<<"..">>), Rel(<<"c">>)}

MCShellPaths == {Abs(<<"a">>), Rel(<<"..">>), Rel(<<"c">>)}

\* INT_MIN, INT_MAX and steps of one.
MCOffsets == {-4, -1, 1, 3}

MCProbes ==
  {[abs |-> abs, names |-> names] :
     abs \in BOOLEAN,
     names \in {<<>>, <<"a">>, <<"c">>, <<Dot>>, <<DotDot>>, <<Long>>, <<"c", "b">>,
               <<"a", DotDot>>, <<"a", Dot>>, <<"a", "a">>, <<DotDot, "c">>, <<Dot, "c">>,
               <<"c", "c", "c">>, <<"c", DotDot, "a">>}}
=============================================================================
