----------------------------- MODULE MCMeshCalls -----------------------------
EXTENDS MeshCalls

\* "a" is registered twice on n1, "b" on n2; "p" is a plugin.
MCServes == [i \in Instances |-> IF i = "b1" THEN <<"n2", "b">> ELSE <<"n1", "a">>]
MCLinks == {<<"n1", "n2">>}
MCStarts == [node : {"n1"}, target : {<<"a">>, <<"n2", "b">>}, may : {FALSE}]
                \cup [node : {"n1"}, target : {<<"p">>}, may : BOOLEAN]
MCRank == [x \in {"p", "a", "b"} |-> CASE x = "p" -> 1 [] x = "a" -> 2 [] x = "b" -> 3]
=============================================================================
