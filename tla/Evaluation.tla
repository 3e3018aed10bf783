------------------------------ MODULE Evaluation ------------------------------
(***************************************************************************)
(* The labelled evaluation (src/eval.rs): the cases of a file judged one   *)
(* after another, by the local judge (run) or by the hosted Jev (run_jev), *)
(* a row for each question that has a gold label, and the coverage that    *)
(* metrics reports of the rows, gated on the confidences of src/score.rs.  *)
(* Confidences are fractions, compared exactly.                            *)
(***************************************************************************)
EXTENDS Judging

CONSTANTS Files,    \* sequences of cases, [questions, gold]
          OneIn     \* metrics accepts one wrong row in OneIn (0.05: in 20)

NoGold == 0     \* a question the case has no label for
Stray == -1     \* a label that names no option

ASSUME EvaluationAssumption ==
    /\ OneIn \in Nat \ {0}
    /\ Files \subseteq Seq([questions : Seq(Question), gold : Seq(Int)])
    /\ \A f \in Files : \A c \in Range(f) : DOMAIN c.gold = DOMAIN c.questions

VARIABLES command,  \* "eval", "jev" (eval on the hosted Jev), or another
          file, case, found, failed,    \* run's cases, ci, rows and failed
          verdict,  \* running, aborted, or reported
          covered   \* the rows within metrics' coverage

evaluation == <<command, file, case, found, failed, verdict, covered>>

EvaluationInit ==
    /\ command \in {"eval", "jev", "mcp"}
    /\ file \in IF command = "mcp" THEN {<<>>} ELSE Files
    /\ case = 1 /\ found = <<>> /\ failed = 0 /\ covered = 0
    /\ verdict = "running"

Asked(c) == file[c].questions
Gold(c, k) == file[c].gold[k]
Unlabelled(c) == \E k \in DOMAIN Asked(c) : Gold(c, k) = Stray

\* The rows of case c, given the distribution of each of its questions.
RowsOfFirst(c, probs) ==
    [k \in 1 .. Cardinality({j \in DOMAIN probs : Gold(c, j) # NoGold}) |->
        [case |-> c, question |-> k, kind |-> Asked(c)[k].kind,
         probs |-> probs[k], gold |-> Gold(c, k)]]

RowsOf(c, probs) ==
    FlattenSeq([k \in DOMAIN probs |->
        IF Gold(c, k) = NoGold THEN <<>>
        ELSE <<[case |-> c, question |-> k, kind |-> Asked(c)[k].kind,
                probs |-> probs[k], gold |-> Gold(c, k)]>>])

Running(com) == command = com /\ verdict = "running" /\ case <= Len(file)
Abort == verdict' = "aborted" /\ UNCHANGED <<case, found, failed>>
CountFailed == failed' = failed + 1 /\ case' = case + 1 /\ UNCHANGED <<found, verdict>>
KeepRows(probs) ==
    IF Unlabelled(case) THEN Abort
    ELSE /\ found' = found \o RowsOf(case, probs) /\ case' = case + 1
         /\ UNCHANGED <<failed, verdict>>

------------------------------------------------------------------------------
(* run: the local judge.                                                   *)

OpenCase ==
    /\ Running("eval") /\ stage = "idle"
    /\ IF Unparsed(Asked(case))
       THEN Abort /\ UNCHANGED <<cfg, judge>>
       ELSE Judge(Asked(case)) /\ UNCHANGED <<case, found, failed, verdict>>
    /\ UNCHANGED <<command, file, covered>>

\* A case the judge refuses, or the backend fails on, is a failed case.
CloseCase ==
    /\ Running("eval") /\ stage = "done"
    /\ IF outcome = "answered"
       THEN KeepRows([k \in DOMAIN raws |-> raws[k].mean])
       ELSE CountFailed
    /\ Forget
    /\ UNCHANGED <<cfg, command, file, covered>>

Widest(c) == Max({Asked(c)[k].n : k \in DOMAIN Asked(c)})

(* run_jev: the hosted Jev answers with a weight for each option, or not.  *)

HostedCase ==
    /\ Running("jev")
    /\ \/ Abort             \* a status that is no success: Rejected
       \/ CountFailed       \* no connection, or no JSON
       \/ IF Unparsed(Asked(case)) THEN Abort
          ELSE \/ Abort     \* an answer is missing
               \/ \E w \in [DOMAIN Asked(case) -> [1 .. Widest(case) -> Weights]] :
                     KeepRows([k \in DOMAIN w |->
                                  Softmax(SubSeq(w[k], 1, Asked(case)[k].n))])
    /\ UNCHANGED <<cfg, judge, command, file, covered>>

------------------------------------------------------------------------------
(* metrics.                                                                *)

Frac(num, den) == [num |-> num, den |-> den]
Less(a, b) == a.num * b.den < b.num * a.den
Same(a, b) == ~Less(a, b) /\ ~Less(b, a)
Dist(i, j) == IF i < j THEN j - i ELSE i - j

\* (p_max - 1/n) / (1 - 1/n)
ChoiceConfidence(p) ==
    Frac(Len(p) * p[Best(p)] - Total(p), (Len(p) - 1) * Total(p))

\* 1 - E|level - mode| / MAD(uniform), or nothing.
ScoreConfidence(p) ==
    LET n == Len(p)
        spread == Total([i \in DOMAIN p |-> p[i] * Dist(i, Best(p))])
        mad2n == Total([i \in DOMAIN p |-> Dist(2 * i, n + 1)])
    IN  Frac(Max({0, Total(p) * mad2n - 2 * n * spread}), Total(p) * mad2n)

\* normalized: what sums to nothing is taken for uniform, of no confidence.
Unweighted(p) == Total(p) = 0

Confidence(x) ==
    IF Len(x.probs) < 2 THEN Frac(1, 1)
    ELSE IF Unweighted(x.probs) THEN Frac(0, 1)
    ELSE IF x.kind = "score" THEN ScoreConfidence(x.probs) ELSE ChoiceConfidence(x.probs)

Right(x) == Best(x.probs) = x.gold

\* sort_by: more confidence first, equal ones as they were; the place of a row
\* is how many are ahead of it.
Ahead(xs, i, j) ==
    \/ Less(Confidence(xs[j]), Confidence(xs[i]))
    \/ Same(Confidence(xs[i]), Confidence(xs[j])) /\ i < j
Ranked(xs) ==
    [k \in DOMAIN xs |->
        CHOOSE i \in DOMAIN xs : Cardinality({j \in DOMAIN xs : Ahead(xs, j, i)}) = k - 1]

CutAnywhere(xs, g, i) == TRUE

\* A threshold cannot split rows of equal confidence.
Boundary(xs, g, i) ==
    i = Len(g) \/ ~Same(Confidence(xs[g[i]]), Confidence(xs[g[i + 1]]))

Coverage(xs) ==
    LET g == Ranked(xs)
        wrong(i) == Cardinality({j \in 1 .. i : ~Right(xs[g[j]])})
    IN  Max({0} \cup {i \in DOMAIN g : Boundary(xs, g, i) /\ wrong(i) * OneIn <= i})

Report ==
    /\ verdict = "running" /\ command # "mcp" /\ case > Len(file) /\ stage = "idle"
    /\ verdict' = "reported" /\ covered' = Coverage(found)
    /\ UNCHANGED <<cfg, judge, command, file, case, found, failed>>

EvaluationNext ==
    \/ OpenCase
    \/ command = "eval" /\ JudgeNext /\ UNCHANGED evaluation
    \/ CloseCase \/ HostedCase \/ Report

------------------------------------------------------------------------------
(* Properties.                                                             *)

Labelled(c) ==
    FlattenSeq([k \in DOMAIN Asked(c) |->
        IF Gold(c, k) = NoGold THEN <<>> ELSE << <<c, k, Gold(c, k)>> >>])

\* Every case is counted once: it failed, or it has a row with its own gold
\* for each of its labelled questions, in the file's order.  A local run ends
\* early for a fault of its file alone, never for a case the engine refuses
\* (eval.md: "One long case used to throw away every row before it").
EveryCaseCounted ==
    /\ \E lost \in kSubset(failed, 1 .. case - 1) :
          [i \in DOMAIN found |-> <<found[i].case, found[i].question, found[i].gold>>]
              = FlattenSeq([c \in 1 .. case - 1 |-> IF c \in lost THEN <<>> ELSE Labelled(c)])
    /\ verdict = "reported" => case = Len(file) + 1
    /\ verdict = "aborted" /\ command = "eval" =>
          Unparsed(Asked(case)) \/ Unlabelled(case)

\* The coverage reported is what some threshold on the confidence accepts
\* with no more than the error allowed, and no threshold accepts more.
Accepted(i) ==
    {j \in DOMAIN found : ~Less(Confidence(found[j]), Confidence(found[i]))}
CoverageIsThreshold ==
    verdict = "reported" =>
        LET good(s) == Cardinality({j \in s : ~Right(found[j])}) * OneIn <= Cardinality(s)
            some == {Accepted(i) : i \in DOMAIN found}
        IN  covered = Max({0} \cup {Cardinality(s) : s \in {t \in some : good(t)}})
==============================================================================
