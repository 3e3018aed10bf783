----------------------------- MODULE MCPolygraph -----------------------------
(***************************************************************************)
(* Small batteries for the polygraph, of the requests of MCArtichoke.      *)
(***************************************************************************)
EXTENDS MCArtichoke, Polygraph

\* Two fingerprints forked in a round; labels of several tokens between two
\* cases of one session; more fingerprints than forks; a case that is refused.
MCBatteries == {<<Pair, Again>>, <<Trie, Longer>>, <<Parted, Trie, Again>>, <<Three>>,
                <<Pair, TooLong>>, <<NoTokens>>, <<>>}

Readings(r) ==
    UNION {{ControlCall(r, k), SplitCall(r, k)} : k \in DOMAIN r.prompts}
PolygraphRequests == SoloRequests \cup UNION {Readings(r) : r \in SoloRequests \ {Empty}}
==============================================================================
