----------------------------- MODULE MCDiscovery -----------------------------
(***************************************************************************)
(* Two casters, a clock of two ticks to the second.                        *)
(***************************************************************************)
EXTENDS Discovery

MCPlain(f, n, a) == [filename |-> f, name |-> n, ip |-> a, port |-> "1"]

\* Two casters whose names fit the format, and a pair of which one has an at
\* sign in its name.
MCGood == [c \in {"p", "q"} |-> MCPlain(<<"f">>, <<c>>, <<"i", c>>)]
MCMixed == [MCGood EXCEPT !["q"] = MCPlain(<<"f">>, <<"@", "n">>, <<"i", "q">>)]

MCNone == [k \in Kinds |-> 0]
MCAll == [k \in Kinds |-> 1]
MCErrors == [MCNone EXCEPT !["recvfail"] = 2]

\* Everything happens once to prompt processes, where a short datagram and a
\* failing receive together use up the tries; late ones meet enough failing
\* receives to do so.
MCWorlds == {[prompt |-> TRUE, budget |-> MCAll],
             [prompt |-> FALSE, budget |-> MCErrors]}
=============================================================================
