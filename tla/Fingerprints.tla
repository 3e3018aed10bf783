---------------------------- MODULE Fingerprints ----------------------------
(***************************************************************************)
(* A request to the engine and what it is worth, as pure operators: where  *)
(* its prompts fork, what is refused before any prefill, the trie of its   *)
(* several-token labels and the answer it should have.                     *)
(*                                                                         *)
(* A request is a record: kind, the call ("score" for score_many,          *)
(* "control" for read_control, "split" for read_split); own, the tokens of *)
(* the prefix; prompts, a sequence of whole prompts (one for the readings  *)
(* of the polygraph); cands, for each prompt its labels, each the sequence *)
(* of its tokens; at, where a split reading is cut.                        *)
(***************************************************************************)
EXTENDS Integers, Sequences, FiniteSets, FiniteSetsExt, Functions, SequencesExt

CONSTANTS Token,         \* the vocabulary
          Requests,      \* the calls the engine may get
          Forks,         \* --forks: sequences beside the session's
          NCtx,          \* --ctx: the cells of the context
          BranchLimit,   \* TypeSafe's limit on the state and a question
          RequestLimit   \* TypeSafe's limit on a whole request

IsRequest(r) ==
    /\ r.kind \in {"score", "control", "split"}
    /\ r.own \in Seq(Token)
    /\ r.prompts \in Seq(Seq(Token)) /\ r.prompts # <<>>
    /\ r.cands \in Seq(Seq(Seq(Token))) /\ DOMAIN r.cands = DOMAIN r.prompts
    /\ <<>> \notin Range(r.cands)
    /\ r.at \in Nat
    /\ r.kind # "score" => Len(r.prompts) = 1 /\ r.prompts[1] # <<>>

ASSUME RequestAssumption == \A r \in Requests : IsRequest(r)
ASSUME LimitAssumption ==
    /\ Forks \in Nat \ {0} /\ NCtx \in Nat \ {0}
    /\ BranchLimit \in Nat /\ RequestLimit \in Nat

------------------------------------------------------------------------------
(* Prompts and their session.                                              *)

HasEmptyPrompt(r) == \E n \in DOMAIN r.prompts : r.prompts[n] = <<>>

CommonLen(a, b) == Len(LongestCommonPrefix({a, b}))

ForkPoint(prompts) ==
    Min({Len(prompts[n]) - 1 : n \in DOMAIN prompts}
        \cup {CommonLen(prompts[1], prompts[n]) : n \in DOMAIN prompts})

\* Never past the end of the session itself, the prefix's own tokens.
Shared(r) == Min({ForkPoint(r.prompts), CommonLen(r.own, r.prompts[1])})

Session(r) == SubSeq(r.prompts[1], 1, Shared(r))
Suffix(r, n) == SubSeq(r.prompts[n], Shared(r) + 1, Len(r.prompts[n]))
SuffixLen(r, n) == Len(r.prompts[n]) - Shared(r)

\* The limits of the state and a question, the labels left out.
WithinBareLimits(r) ==
    /\ \A n \in DOMAIN r.prompts :
          Len(r.prompts[n]) <= BranchLimit /\ Len(r.prompts[n]) <= NCtx
    /\ Shared(r) + MapThenSumSet(LAMBDA n : SuffixLen(r, n), DOMAIN r.prompts)
          <= RequestLimit

\* Every prompt with its longest label, and the request as a whole.
WithinLimits(r) ==
    /\ \A n \in DOMAIN r.prompts : \A c \in Range(r.cands[n]) \cup {<<>>} :
          LET longest == Len(r.prompts[n]) + Max({Len(c) - 1, 0})
          IN  longest <= BranchLimit /\ longest <= NCtx
    /\ Shared(r) + MapThenSumSet(LAMBDA n : SuffixLen(r, n), DOMAIN r.prompts)
          <= RequestLimit

------------------------------------------------------------------------------
(* Labels.                                                                 *)

Tokenless(r) == \E n \in DOMAIN r.cands : <<>> \in Range(r.cands[n])

OneToken(r, n) == \A c \in Range(r.cands[n]) : Len(c) = 1

\* The fingerprints read in rounds of forks, in order.
Single(r) ==
    LET upTo[n \in 0 .. Len(r.prompts)] ==
            IF n = 0 THEN <<>>
            ELSE IF OneToken(r, n) THEN Append(upTo[n - 1], n) ELSE upTo[n - 1]
    IN  upTo[Len(r.prompts)]

\* The nodes of the trie: every proper prefix of a label.
Nodes(labels) == UNION {{SubSeq(c, 1, d) : d \in 0 .. Len(c) - 1} : c \in labels}
Probes(r, n) == Nodes(Range(r.cands[n])) \ {<<>>}
ProbeTokens(r, n) == SumFunction([p \in Probes(r, n) |-> Len(p)])

------------------------------------------------------------------------------
(* What a log-probability is a function of: the tokens before it, with     *)
(* their positions, and the token itself.  A label's is the sum along its  *)
(* tokens, here the set of its terms.                                      *)

Placed(tokens) == {<<i, tokens[i]>> : i \in DOMAIN tokens}

\* The terms of label c, the rows read at the nodes given.
Terms(c, read) ==
    UNION {{<<x.ctx, c[d]>> : x \in {y \in read : y.node = SubSeq(c, 1, d - 1)}}
           : d \in DOMAIN c}

Marks(labels, read) == [m \in DOMAIN labels |-> Terms(labels[m], read)]

\* The answer of a request, whatever the engine did before it.
Reference(r) ==
    [n \in DOMAIN r.prompts |->
        Marks(r.cands[n], {[node |-> p, ctx |-> Placed(r.prompts[n] \o p)]
                           : p \in Nodes(Range(r.cands[n]))})]

\* A request the engine may refuse: nothing else is the caller's fault.
MayRefuse(r) ==
    \/ HasEmptyPrompt(r) \/ Tokenless(r)
    \/ r.kind = "score" /\ ~WithinLimits(r)
    \/ \E n \in DOMAIN r.prompts :
          ~OneToken(r, n) /\ (r.kind = "split" \/ (r.kind = "score" /\ Forks < 2))
==============================================================================
