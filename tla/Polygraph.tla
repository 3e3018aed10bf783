------------------------------ MODULE Polygraph ------------------------------
(***************************************************************************)
(* The polygraph (src/polygraph.rs run): every fingerprint of every case   *)
(* read three ways by the engine - forked from the session, split in two   *)
(* decodes, whole - and the three readings set side by side in a row.      *)
(***************************************************************************)
EXTENDS Artichoke

CONSTANT Batteries  \* the cases of a run, those --limit keeps of its file

VARIABLES battery,  \* the cases of this run
          case,     \* which one is read
          nth,      \* which of its fingerprints
          stage,    \* what was asked of the engine last
          forked,   \* the case's answer
          control,  \* the fingerprint's control reading
          table     \* the rows

driver == <<battery, case, nth, stage, forked, control, table>>
polygraphVars == <<vars, driver>>

Case == battery[case]

\* The readings' calls: the whole prompt of a fingerprint and its labels,
\* and `at`, where score_many cuts it from the session (session_tokens).
OneOf(kind, r, k, at) ==
    [kind |-> kind, own |-> r.own, prompts |-> <<r.prompts[k]>>,
     cands |-> <<r.cands[k]>>, at |-> at]
ControlCall(r, k) == OneOf("control", r, k, 0)
SplitCallOfFirst(r, k) == OneOf("split", r, 1, Shared(r))
SplitCall(r, k) == OneOf("split", r, k, Shared(r))

ASSUME BatteryAssumption ==
    \A b \in Batteries :
        /\ b \in Seq(Requests)
        /\ \A r \in Range(b) :
              /\ r.kind = "score"
              /\ \A k \in DOMAIN r.prompts :
                    ControlCall(r, k) \in Requests /\ SplitCall(r, k) \in Requests

PolygraphInit ==
    /\ Init
    /\ battery \in IF command = "polygraph" THEN Batteries ELSE {<<>>}
    /\ case = 1 /\ nth = 1 /\ stage = "start"
    /\ forked = <<>> /\ control = <<>> /\ table = <<>>

\* The reading the last call returned; an error has ended the run already.
Answered(t, s) == alive /\ stage = s /\ pc[t] = "idle"
Marked(t) == answer[t].scores[1].marks

ReadCase(t, i) ==
    IF i <= Len(battery)
    THEN Ask(t, battery[i]) /\ stage' = "forked" /\ case' = i
    ELSE stage' = "done" /\ UNCHANGED <<vars, case>>

StartPolygraph(t) ==
    /\ Answered(t, "start")
    /\ ReadCase(t, 1)
    /\ UNCHANGED <<battery, nth, forked, control, table>>

KeepForked(t) ==
    /\ Answered(t, "forked")
    /\ Ask(t, ControlCall(Case, 1))
    /\ forked' = answer[t].scores /\ nth' = 1 /\ stage' = "control"
    /\ UNCHANGED <<battery, case, control, table>>

\* session_tokens tokenizes the case again, and may fail.
CutFails(t) ==
    /\ Answered(t, "forked")
    /\ alive' = FALSE
    /\ UNCHANGED <<inner, owner, pc, req, answer, frame, driver>>

KeepControl(t) ==
    /\ Answered(t, "control")
    /\ Ask(t, SplitCall(Case, nth))
    /\ control' = Marked(t) /\ stage' = "split"
    /\ UNCHANGED <<battery, case, nth, forked, table>>

\* A refused split reading (labels of several tokens) is the control's again.
SplitOr(t) == IF answer[t].status = "rejected" THEN control ELSE Marked(t)

PushRow(t) ==
    /\ Answered(t, "split")
    /\ table' = Append(table, [case |-> case, n |-> nth, forked |-> forked[nth].marks,
                               split |-> SplitOr(t), control |-> control])
    /\ IF nth < Len(Case.prompts)
       THEN /\ Ask(t, ControlCall(Case, nth + 1))
            /\ nth' = nth + 1 /\ stage' = "control"
            /\ UNCHANGED case
       ELSE ReadCase(t, case + 1) /\ UNCHANGED nth
    /\ UNCHANGED <<battery, forked, control>>

Drive == \E t \in Threads :
    StartPolygraph(t) \/ KeepForked(t) \/ CutFails(t) \/ KeepControl(t) \/ PushRow(t)

Engine(P(_)) == (\E t \in Threads : P(t) /\ Step(t)) /\ UNCHANGED <<command, driver>>

\* In `serve` the calls come from clients, in any order.
Serve ==
    /\ command = "serve"
    /\ \E t \in Threads, r \in Requests : r.kind = "score" /\ Ask(t, r)
    /\ UNCHANGED <<command, driver>>

PolygraphNext ==
    \/ Engine(LAMBDA t : TRUE)
    \/ Serve
    \/ command = "polygraph" /\ Drive /\ UNCHANGED command

PolygraphSpec ==
    /\ PolygraphInit /\ [][PolygraphNext]_polygraphVars
    /\ WF_polygraphVars(Engine(LAMBDA t : owner = t))
    /\ WF_polygraphVars(Engine(LAMBDA t : owner = None))

------------------------------------------------------------------------------
(* Properties.                                                             *)

\* The fingerprint that comes after the first i rows, case by case.
ComesAfter(i) ==
    IF i = 0 THEN <<1, 1>>
    ELSE LET x == table[i]
         IN  IF x.n < Len(battery[x.case].prompts)
             THEN <<x.case, x.n + 1>>
             ELSE <<x.case + 1, 1>>

\* What the polygraph sets side by side are three readings of one
\* fingerprint, each the reading of its whole prompt alone: a difference it
\* reports is the arithmetic's, never a session, a fork, a cut or a neighbour
\* in the wrong place.  The rows are the battery's fingerprints, in order,
\* and all of them once it is done.
ReadingsAgree ==
    /\ \A i \in DOMAIN table :
          LET x == table[i]
              truth == Reference(battery[x.case])[x.n]
          IN  /\ <<x.case, x.n>> = ComesAfter(i - 1)
              /\ x.forked = truth /\ x.split = truth /\ x.control = truth
    /\ stage = "done" => ComesAfter(Len(table)) = <<Len(battery) + 1, 1>>
==============================================================================
