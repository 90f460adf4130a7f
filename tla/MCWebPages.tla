----------------------------- MODULE MCWebPages -----------------------------
(* Constants for model-checking WebPages.                                    *)
EXTENDS WebPages, TLC

CONSTANTS l1, l2

MCBlank == <<"">>

\* Among them a text with a line twice, and pairs with crossing common lines.
MCText == {MCBlank, <<l1, l2>>, <<l2, l1, l1>>, <<l1, l1, l2>>}
MCLine == {"", l1, l2}

\* Workspaces called "Team" and "WS A"; the second asks for the slug of the
\* personal workspace of two user ids that begin alike.
MCName == {"Team", "WS A"}
MCCandidates == [n \in MCName |-> IF n = "Team" THEN <<"team", "team-2">> ELSE <<"ws-a">>]
MCFallback == [n \in MCName |-> IF n = "Team" THEN {"team-x"} ELSE {"ws-a-x"}]
MCPersonal == [u \in {"a1", "a2", "b"} |-> IF u = "b" THEN "ws-b" ELSE "ws-a"]
MCSlug == {"team", "team-2", "team-x", "ws-a", "ws-a-x", "ws-b"}
=============================================================================
