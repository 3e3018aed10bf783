------------------------------- MODULE Judging -------------------------------
(***************************************************************************)
(* The judge (src/judge.rs): every question of a request is rendered, a    *)
(* choice once for each rotation of its options, all the prompts go to the *)
(* backend in one call, and the readings that come back are averaged into  *)
(* one distribution for each question.  Options count from 1.  A reading   *)
(* is a weight for each label (0: the backend did not report it), and a    *)
(* probability is a number of parts of a Unit that every sum of weights    *)
(* divides.  Conditioning at a positive temperature keeps the order of the *)
(* probabilities and is left out.                                          *)
(***************************************************************************)
EXTENDS Integers, Sequences, FiniteSets, SequencesExt

CONSTANTS Requests,       \* sequences of questions, [kind, n]
          Configs,        \* [permutations, layout, multi]: the judge and its backend
          Weights, Costs, Unit,
          LETTERS, MAX_OPTIONS, MIN_LEVELS, MAX_LEVELS

\* What a question asks, or that it cannot be read, and of how many options.
Question == [kind : {"choice", "noul", "score", "unreadable"}, n : Nat]

ASSUME JudgingAssumption ==
    /\ Requests \subseteq Seq(Question)
    /\ Weights \subseteq Nat /\ Costs \subseteq Nat /\ Unit \in Nat \ {0}
    /\ {LETTERS, MAX_OPTIONS, MIN_LEVELS, MAX_LEVELS} \subseteq Nat \ {0}
    /\ \A c \in Configs : c.permutations \in Nat /\ c.multi \in BOOLEAN

VARIABLES cfg,        \* the configuration, fixed
          request,    \* the questions being judged
          stage,      \* of the call: idle, parse, score, average or done
          readings,   \* what the backend has returned, [weights, evaluated]
          taken,      \* how many of them are averaged
          raws,       \* of each question: [rotations, mean, evaluated]
          outcome     \* none, answered, rejected or failed

judge == <<request, stage, readings, taken, raws, outcome>>

JudgeInit ==
    /\ cfg \in Configs
    /\ request = <<>> /\ stage = "idle"
    /\ readings = <<>> /\ taken = 0 /\ raws = <<>>
    /\ outcome = "none"

Total(f) == FoldFunction(+, 0, f)

------------------------------------------------------------------------------
(* Questions and prompts.                                                  *)

\* What parse_questions refuses, and raw before anything is rendered.
Malformed(q) ==
    \/ q.kind = "unreadable"
    \/ q.kind = "choice" /\ q.n = 0
    \/ q.kind = "score" /\ q.n \notin MIN_LEVELS .. MAX_LEVELS
Unparsed(qs) == qs = <<>> \/ \E k \in DOMAIN qs : Malformed(qs[k])
NeedsTrie(q) == q.n > LETTERS \/ cfg.layout = "jev"
Refused(qs) ==
    \/ Unparsed(qs)
    \/ \E k \in DOMAIN qs : \/ qs[k].n > MAX_OPTIONS
                            \/ NeedsTrie(qs[k]) /\ ~cfg.multi

PermsShort(q) ==
    IF q.kind # "choice" \/ cfg.permutations = 0 \/ q.n = 1 THEN 1
    ELSE IF cfg.permutations >= q.n THEN q.n - 1 ELSE cfg.permutations

\* permutations.clamp(1, n), for a choice alone.
Perms(q) ==
    IF q.kind # "choice" \/ cfg.permutations = 0 THEN 1
    ELSE IF cfg.permutations > q.n THEN q.n ELSE cfg.permutations

\* The option at each position of a rotation.
Order(n, r) == [i \in 1 .. n |-> 1 + ((i - 1 + r) % n)]

\* The options of a prompt as the subject reads them, from the first label on.
Keys(q, r) == IF q.kind = "choice" THEN Order(q.n, r) ELSE [i \in 1 .. q.n |-> i]

Prompts(qs) ==
    FlattenSeq([k \in DOMAIN qs |->
        [r \in 1 .. Perms(qs[k]) |-> [question |-> k, keys |-> Keys(qs[k], r - 1)]]])

------------------------------------------------------------------------------
(* The call.                                                               *)

Judge(qs) ==
    /\ stage = "idle"
    /\ request' = qs /\ stage' = "parse"
    /\ UNCHANGED <<cfg, readings, taken, raws, outcome>>

End(o) == stage' = "done" /\ outcome' = o

Refuse ==
    /\ stage = "parse" /\ Refused(request)
    /\ End("rejected")
    /\ UNCHANGED <<cfg, request, readings, taken, raws>>

Render ==
    /\ stage = "parse" /\ ~Refused(request)
    /\ stage' = "score"
    /\ raws' = [k \in DOMAIN request |->
                   [rotations |-> 0, mean |-> [o \in 1 .. request[k].n |-> 0], evaluated |-> 0]]
    /\ UNCHANGED <<cfg, request, readings, taken, outcome>>

Waiting == stage = "score" /\ Len(readings) < Len(Prompts(request))

\* The backend reads one prompt after another, or all of them at once.
Read ==
    /\ Waiting
    /\ LET p == Prompts(request)[Len(readings) + 1] IN
       \E w \in [DOMAIN p.keys -> Weights], c \in Costs :
          readings' = Append(readings, [weights |-> w, evaluated |-> c])
    /\ UNCHANGED <<cfg, request, stage, taken, raws, outcome>>

\* A prompt it rejects or fails on ends the call: score_many is all or nothing.
ReadFails ==
    /\ Waiting
    /\ \E o \in {"rejected", "failed"} : End(o)
    /\ UNCHANGED <<cfg, request, readings, taken, raws>>

Returned == stage = "score" /\ Len(readings) = Len(Prompts(request))

\* score_many's results: one for each prompt, or fewer.
Return ==
    /\ Returned \/ Waiting
    /\ stage' = "average"
    /\ UNCHANGED <<cfg, request, readings, taken, raws, outcome>>

\* softmax over the labels: uniform when none was reported.
Softmax(w) ==
    LET sum == Total(w) IN
    [i \in DOMAIN w |-> IF sum = 0 THEN Unit \div Len(w) ELSE (Unit * w[i]) \div sum]

\* The plan the next reading belongs to: the first with a rotation to come.
Unread(k) == raws[k].rotations < Perms(request[k])
Plan(k) == Unread(k) /\ \A j \in 1 .. k - 1 : ~Unread(j)

SpreadBack(mean, p, order) == [o \in DOMAIN mean |-> mean[o] + p[order[o]]]

\* Label i of the rotation's prompt stands for option order[i].
Spread(mean, p, order) ==
    [o \in DOMAIN mean |-> mean[o] + Total([i \in DOMAIN p |-> IF order[i] = o THEN p[i] ELSE 0])]

AveragedLast(raw, order, s) ==
    [rotations |-> raw.rotations + 1,
     mean |-> Spread(raw.mean, Softmax(s.weights), order),
     evaluated |-> s.evaluated]

Averaged(raw, order, s) ==
    [rotations |-> raw.rotations + 1,
     mean |-> Spread(raw.mean, Softmax(s.weights), order),
     evaluated |-> raw.evaluated + s.evaluated]

Average ==
    /\ stage = "average" /\ taken < Len(readings)
    /\ \E k \in DOMAIN raws :
          /\ Plan(k)
          /\ raws' = [raws EXCEPT ![k] =
                         Averaged(@, Order(request[k].n, @.rotations), readings[taken + 1])]
    /\ taken' = taken + 1
    /\ UNCHANGED <<cfg, request, stage, readings, outcome>>

TooFew ==
    /\ stage = "average" /\ taken = Len(readings)
    /\ \E k \in DOMAIN raws : Unread(k)
    /\ End("failed")
    /\ UNCHANGED <<cfg, request, readings, taken, raws>>

Answered ==
    /\ stage = "average" /\ \A k \in DOMAIN raws : ~Unread(k)
    /\ End("answered")
    /\ UNCHANGED <<cfg, request, readings, taken, raws>>

ForgetCall ==
    /\ stage' = "idle" /\ request' = <<>> /\ readings' = <<>> /\ taken' = 0
    /\ raws' = <<>> /\ UNCHANGED outcome

\* The caller has its answer.
Forget ==
    /\ stage' = "idle" /\ request' = <<>> /\ readings' = <<>> /\ taken' = 0
    /\ raws' = <<>> /\ outcome' = "none"

JudgeNext == Refuse \/ Render \/ Read \/ ReadFails \/ Return \/ Average \/ TooFew \/ Answered

------------------------------------------------------------------------------
(* The answer.                                                             *)

\* argmax: the first of the likeliest.
Best(p) ==
    CHOOSE i \in DOMAIN p : /\ \A j \in DOMAIN p : p[i] >= p[j]
                            /\ \A j \in 1 .. i - 1 : p[i] > p[j]
InputTokens == Total([k \in DOMAIN raws |-> raws[k].evaluated])

------------------------------------------------------------------------------
(* Properties.                                                             *)

JudgeTypeOK ==
    /\ cfg \in Configs
    /\ stage \in {"idle", "parse", "score", "average", "done"}
    /\ outcome \in {"none", "answered", "rejected", "failed"}
    /\ outcome = "none" <=> stage # "done"
    /\ taken \in 0 .. Len(readings)
    /\ Len(readings) <= Len(Prompts(request))

Done(o) == stage = "done" /\ outcome = o

\* What the prompts say of option o of question k: the parts its label took,
\* wherever a prompt of that question showed it.
Said(k, o) ==
    Total([j \in DOMAIN readings |->
        LET p == Prompts(request)[j] IN
        IF p.question = k
        THEN Total([i \in DOMAIN p.keys |->
                 IF p.keys[i] = o THEN Softmax(readings[j].weights)[i] ELSE 0])
        ELSE 0])

\* Every option of an answered question has what the subject said of it, at
\* the position each rotation's prompt showed it, and nothing said of another
\* question (judge.rs: "rendered position `pos` holds original option
\* `order[pos]`").
OptionsKeepTheirReadings ==
    Done("answered") =>
        \A k \in DOMAIN request : \A o \in 1 .. request[k].n :
            raws[k].mean[o] = Said(k, o)

Mine(k) == {j \in DOMAIN readings : Prompts(request)[j].question = k}
Biased(k) == \A j, l \in Mine(k) : readings[j].weights = readings[l].weights

\* A subject that only looks at positions says nothing of the options: with
\* as many rotations as a choice has options, it leaves them all alike
\* (JudgeConfig: "the pull toward one side of the list is balanced out").
Balanced ==
    Done("answered") =>
        \A k \in DOMAIN request :
            LET q == request[k] IN
            q.kind = "choice" /\ cfg.permutations >= q.n /\ Biased(k)
                => \A o, u \in 1 .. q.n : raws[k].mean[o] = raws[k].mean[u]

\* A request is answered whole, from one reading of each of its prompts, or
\* not at all, and what it is charged is what the backend evaluated for it,
\* every rotation of every question.
AnsweredWhole ==
    Done("answered") =>
        /\ Len(readings) = Len(Prompts(request)) /\ taken = Len(readings)
        /\ InputTokens = Total([j \in DOMAIN readings |-> readings[j].evaluated])
==============================================================================
