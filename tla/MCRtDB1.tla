------------------------------ MODULE MCRtDB1 ------------------------------
(* Instances of RtDB1 for TLC: a process that puts and one that gets, and    *)
(* small configuration files.  A header takes five words.                    *)
EXTENDS RtDB1

Line(kind, id, size) == [kind |-> kind, id |-> id, size |-> size]
Agent == Line("agent", 0, 0)

\* Two agents; the own one has a record to share and one of its own.
Team == <<Agent, Line("shared", 0, 2), Line("local", 1, 1),
          Agent, Line("shared", 0, 1), Line("shared", 1, 1)>>
\* Too many records, an agent that shares nothing, a file that is not there.
Crowded == <<Agent, Line("shared", 0, 1), Line("shared", 1, 1), Line("local", 1, 1)>>
Silent == <<Agent, Line("local", 1, 1)>>
Missing == <<>>

AllFiles == {Team, Crowded, Silent, Missing}

\* The own record, and the copy of another agent's.
OneGetter == {<<"comm", 0, 0>>}
BothPut == {<<"user", 0, 0>>, <<"comm", 1, 1>>}
=============================================================================
