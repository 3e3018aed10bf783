----------------------------- MODULE MCArtichoke -----------------------------
(***************************************************************************)
(* Small requests for the engine, over a vocabulary of three tokens.       *)
(***************************************************************************)
EXTENDS Artichoke

MCToken == 1 .. 3

Score(own, prompts, cands) ==
    [kind |-> "score", own |-> own, prompts |-> prompts, cands |-> cands, at |-> 0]

Letters == <<<<1>>, <<2>>>>                     \* one-token labels
Wide == <<<<1>>, <<2, 1>>, <<2, 2>>, <<3, 1>>>>   \* two nodes of the trie to probe

\* Two questions about one state; another question about the same state.
Pair == Score(<<1, 2>>, <<<<1, 2, 1>>, <<1, 2, 2, 3>>>>, <<Letters, Letters>>)
Again == Score(<<1, 2>>, <<<<1, 2, 3>>>>, <<Letters>>)
\* A longer state that begins as Pair's, and one that parts from it.
Longer == Score(<<1, 2, 1>>, <<<<1, 2, 1, 2>>>>, <<Letters>>)
Parted == Score(<<1, 3>>, <<<<1, 3, 2>>>>, <<Letters>>)
\* Three questions, more than there are forks.
Three == Score(<<1, 2>>, <<<<1, 2, 1>>, <<1, 2, 2>>, <<1, 2, 3>>>>,
               <<Letters, Letters, Letters>>)
\* One question of several-token labels beside one of letters.
Trie == Score(<<1, 2>>, <<<<1, 2, 3>>, <<1, 2, 1>>>>, <<Wide, Letters>>)
\* Refused: too long for the context or the request, a label of no token, an
\* empty prompt.
TooLong == Score(<<1>>, <<[i \in 1 .. NCtx |-> 1]>>, <<Wide>>)
TooMuch == Score(<<>>, [n \in 1 .. 3 |-> [i \in 1 .. NCtx |-> n]], <<Letters, Letters, Letters>>)
NoTokens == Score(<<1>>, <<<<1, 2>>>>, <<<<<<1>>, <<>>, <<3>>>>>>)
Empty == Score(<<>>, <<<<>>>>, <<Letters>>)

ServerRequests == {Pair, Again, Parted, Three, Trie, TooLong, NoTokens}
SoloRequests == ServerRequests \cup {Longer, TooMuch, Empty}

\* Three nodes to probe at once: more cells than the longest label needs.
Bushy == Score(<<1>>, <<<<1, 2>>>>,
               <<<<<<1, 1>>, <<2, 1>>, <<3, 1>>>>>>)
BushyRequests == {Bushy, Again}
==============================================================================
