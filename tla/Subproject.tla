----------------------------- MODULE Subproject -----------------------------
(***************************************************************************)
(* `xks subproject run` (src/subproject.rs): experiments run one after     *)
(* another, each a script of child processes that share a deadline, with a *)
(* llama-server beside them where a script compares against one, and a     *)
(* record of each, whether it finished or not.                             *)
(*                                                                         *)
(* External: the children (an evaluation answers what it answers, any      *)
(* child may fail, hang or end at any time), llama-server and its port.    *)
(***************************************************************************)
EXTENDS Corroborate

CONSTANTS Budget,     \* ticks; a tick may fall between any two steps
          None        \* no readings, no report

ASSUME SubprojectAssumption == Budget \in Nat /\ None \notin Readings

VARIABLES
    todo,      \* the chosen subprojects, the current one first
    at,        \* its place in its script
    pc,        \* of the command
    left,      \* until the deadline
    child,     \* the xks child: "none", "running", or how it ended
    llama,     \* our llama-server: "none", "loading", "serving" or "dead"
    other,     \* another server answers on its port
    read,      \* the readings in each side's rows' file, None when an earlier
               \* run of the subproject left it
    results,   \* places of the script with a result
    report,    \* the corroboration's
    outcome,   \* of the subproject
    failed     \* one of them did not finish: the command's status

vars == <<todo, at, pc, left, child, llama, other, read, results, report, outcome, failed>>

------------------------------------------------------------------------------
(* The subprojects.                                                        *)

Sides == {"bluebird", "x86", "cards", "avx512"}

Do(do, of) == [do |-> do, of |-> of]
Serve == Do("serve", <<>>)     \* the guard of llama-server
Drop == Do("drop", <<>>)       \* its end before the function's
Eval(side) == Do("eval", <<side>>)
Polygraph == Do("polygraph", <<>>)
Ledger == Do("ledger", <<>>)
Corroborated(a, b) == Do("corroborate", <<a, b>>)

s01 == <<Serve, Eval("bluebird")>>
s02 == <<Polygraph, Polygraph, Polygraph>>
s03 == <<Eval("x86"), Eval("cards"), Corroborated("x86", "cards")>>
s04Kept == <<Serve, Eval("bluebird"), Eval("x86"), Corroborated("bluebird", "x86")>>
s04 == <<Serve, Eval("bluebird"), Drop, Eval("x86"), Corroborated("bluebird", "x86")>>
s05 == <<Polygraph>>
s06 == <<Eval("x86"), Eval("avx512"), Corroborated("x86", "avx512")>>
s07 == <<Eval("x86"), Eval("cards"), Ledger, Corroborated("x86", "cards")>>

Script(id) ==
    CASE id = "01" -> s01 [] id = "02" -> s02 [] id = "03" -> s03 [] id = "04" -> s04
      [] id = "05" -> s05 [] id = "06" -> s06 [] id = "07" -> s07

ALL == {"01", "02", "03", "04", "05", "06", "07"}
NeedsCards(id) == id \in {"03", "06", "07"}

\* 06 is run by name only (in_all).
Find(which) ==
    IF which = "all" THEN <<"01", "02", "03", "04", "05", "07">> ELSE <<which>>

\* The one child whose failure is a result: phi512 may refuse.
ToleratedEval(step) == step.do = "eval"
Tolerated(step) == step = Eval("avx512")

Current == Head(todo)
Here == Script(Current)[at]
Runs(step) == step.do \notin {"serve", "drop"}

------------------------------------------------------------------------------
Init ==
    /\ todo = <<>> /\ at = 1 /\ pc = "new" /\ left = 0
    /\ child = "none" /\ llama = "none" /\ other \in BOOLEAN
    /\ read = [s \in Sides |-> None]
    /\ results = {} /\ report = None /\ outcome = "none" /\ failed = FALSE

Goto(l) == pc' = l

\* Refused while another process holds cards one of them needs, or without a
\* configuration.
Choose(which, held, configured) ==
    /\ pc = "new"
    /\ LET chosen == Find(which)
       IN  IF \/ held /\ \E i \in DOMAIN chosen : NeedsCards(chosen[i])
              \/ ~configured
           THEN Goto("ended") /\ failed' = TRUE /\ UNCHANGED todo
           ELSE Goto("begin") /\ todo' = chosen /\ UNCHANGED failed
    /\ UNCHANGED <<at, left, child, llama, other, read, results, report, outcome>>

Begin ==
    /\ pc = "begin" /\ todo # <<>>
    /\ left' = Budget
    /\ Goto("step")
    /\ UNCHANGED <<todo, at, child, llama, other, read, results, report, outcome, failed>>

\* The subproject's function returns: the guard, if it is up, goes.
ReturnKeeping(o) == outcome' = o /\ Goto("record") /\ UNCHANGED llama

Return(o) ==
    /\ outcome' = o
    /\ llama' = "none"
    /\ Goto("record")

\* A step's error is the subproject's, but for a tolerated one.
Fails == Return(IF Tolerated(Here) THEN "finished" ELSE "failed")

Finish ==
    /\ pc = "step" /\ at > Len(Script(Current))
    /\ Return("finished")
    /\ UNCHANGED <<todo, at, left, child, other, read, results, report, failed>>

------------------------------------------------------------------------------
(* llama-server: polled until it answers /health or the budget is gone.    *)

StartLlama ==
    /\ pc = "step" /\ at <= Len(Script(Current)) /\ Here.do = "serve"
    /\ llama' = "loading"
    /\ Goto("look")
    /\ UNCHANGED <<todo, at, left, child, other, read, results, report, outcome, failed>>

\* Nobody answers within the budget, or it cannot be started.
NoLlama ==
    /\ \/ pc = "look" /\ left = 0
       \/ pc = "step" /\ at <= Len(Script(Current)) /\ Here.do = "serve"
    /\ Fails
    /\ UNCHANGED <<todo, at, left, child, other, read, results, report, failed>>

Look ==
    /\ pc = "look" /\ left > 0
    /\ Goto("ask")
    /\ UNCHANGED <<todo, at, left, child, llama, other, read, results, report, outcome, failed>>

\* The port is asked, not the child: another server's answer does as well.
Ask ==
    /\ pc = "ask"
    /\ IF llama = "serving" \/ other
       THEN Goto("step") /\ at' = at + 1
       ELSE Goto("look") /\ UNCHANGED at
    /\ UNCHANGED <<todo, left, child, llama, other, read, results, report, outcome, failed>>

DropLlama ==
    /\ pc = "step" /\ at <= Len(Script(Current)) /\ Here.do = "drop"
    /\ llama' = "none"
    /\ at' = at + 1
    /\ UNCHANGED <<todo, pc, left, child, other, read, results, report, outcome, failed>>

------------------------------------------------------------------------------
(* A child, waited for inside what is left of the budget (Ctx::xks).       *)

Spawn ==
    /\ pc = "step" /\ at <= Len(Script(Current)) /\ Runs(Here)
    /\ child' = "running"
    /\ Goto("wait")
    /\ UNCHANGED <<todo, at, left, llama, other, read, results, report, outcome, failed>>

SpawnFails ==
    /\ pc = "step" /\ at <= Len(Script(Current)) /\ Runs(Here)
    /\ Fails
    /\ UNCHANGED <<todo, at, left, child, other, read, results, report, failed>>

\* What a corroborate child prints.
Side(i) == RowsOf(read[Here.of[i]])
Printed == IF Here.do = "corroborate" THEN Compare(Side(1), Side(2)) ELSE report

\* try_wait, before the deadline is looked at: a child that has ended well is
\* taken, however late.
TakeResult ==
    /\ pc = "wait" /\ child = "well"
    /\ child' = "none"
    /\ results' = results \cup {at} /\ report' = Printed
    /\ at' = at + 1
    /\ Goto("step")
    /\ UNCHANGED <<todo, left, llama, other, read, outcome, failed>>

\* It ended in an error, or printed no JSON.
PassErrorOver ==
    /\ pc = "wait" /\ child = "badly"
    /\ child' = "none"
    /\ at' = at + 1
    /\ Goto("step")
    /\ UNCHANGED <<todo, left, llama, other, read, results, report, outcome, failed>>

TakeError ==
    /\ pc = "wait" /\ child = "badly"
    /\ child' = "none"
    /\ Fails
    /\ UNCHANGED <<todo, at, left, other, read, results, report, failed>>

StillRuns ==
    /\ pc = "wait" /\ child = "running"
    /\ Goto("due")
    /\ UNCHANGED <<todo, at, left, child, llama, other, read, results, report, outcome, failed>>

Sleep ==
    /\ pc = "due" /\ left > 0
    /\ Goto("wait")
    /\ UNCHANGED <<todo, at, left, child, llama, other, read, results, report, outcome, failed>>

\* It may have ended since it was looked at.
KillPast ==
    /\ pc = "due" /\ left < 0
    /\ child' = "none"
    /\ Fails
    /\ UNCHANGED <<todo, at, left, other, read, results, report, failed>>

Kill ==
    /\ pc = "due" /\ left = 0
    /\ child' = "none"
    /\ Fails
    /\ UNCHANGED <<todo, at, left, other, read, results, report, failed>>

------------------------------------------------------------------------------
(* The record, and the next one.                                           *)

\* The next one has nothing of this one's; left is of no use until it begins.
WriteRecord ==
    /\ pc = "record"
    /\ failed' = (failed \/ outcome # "finished")
    /\ todo' = Tail(todo)
    /\ at' = 1 /\ left' = 0
    /\ read' = [s \in Sides |-> None]
    /\ results' = {} /\ report' = None /\ outcome' = "none"
    /\ Goto("begin")
    /\ UNCHANGED <<child, llama, other>>

\* The error ends the command, the subprojects after it are not run.
NotWritten ==
    /\ pc = "record"
    /\ failed' = TRUE
    /\ Goto("ended")
    /\ UNCHANGED <<todo, at, left, child, llama, other, read, results, report, outcome>>

End ==
    /\ pc = "begin" /\ todo = <<>>
    /\ Goto("ended")
    /\ UNCHANGED <<todo, at, left, child, llama, other, read, results, report, outcome, failed>>

Command ==
    \/ Begin \/ Finish \/ StartLlama \/ NoLlama \/ Look \/ Ask \/ DropLlama
    \/ Spawn \/ SpawnFails \/ TakeResult \/ TakeError \/ StillRuns \/ Sleep \/ Kill
    \/ WriteRecord \/ NotWritten \/ End

------------------------------------------------------------------------------
(* Everything else.                                                        *)

\* The child's rows are written whole at its end, after its result is
\* printed: one that fails may have written them.
ChildEnds ==
    /\ child = "running"
    /\ \/ child' = "well" /\ Here.do # "eval" /\ UNCHANGED read
       \/ child' = "badly" /\ UNCHANGED read
       \/ /\ child' \in {"well", "badly"} /\ Here.do = "eval"
          /\ \E v \in Readings : read' = [read EXCEPT ![Here.of[1]] = v]
    /\ UNCHANGED <<todo, at, pc, left, llama, other, results, report, outcome, failed>>

\* It cannot bind a port that is taken.
LlamaServes ==
    /\ llama = "loading" /\ ~other
    /\ llama' = "serving"
    /\ UNCHANGED <<todo, at, pc, left, child, other, read, results, report, outcome, failed>>

LlamaDies ==
    /\ llama \in {"loading", "serving"}
    /\ llama' = "dead"
    /\ UNCHANGED <<todo, at, pc, left, child, other, read, results, report, outcome, failed>>

Tick ==
    /\ left > 0
    /\ left' = left - 1
    /\ UNCHANGED <<todo, at, pc, child, llama, other, read, results, report, outcome, failed>>

Next ==
    \/ \E which \in ALL \cup {"all"}, held, configured \in BOOLEAN :
          Choose(which, held, configured)
    \/ Command \/ ChildEnds \/ LlamaServes \/ LlamaDies \/ Tick

\* The command and the clock go on; the children need not.
Fairness == WF_vars(Command) /\ WF_vars(Tick)

Spec == Init /\ [][Next]_vars /\ Fairness

------------------------------------------------------------------------------
(* Properties.                                                             *)

Stages == {"new", "begin", "step", "look", "ask", "wait", "due", "record", "ended"}

\* The types, and where the command is in a script.
TypeOK ==
    /\ todo \in Seq(ALL)
    /\ pc \in Stages
    /\ pc \in Stages \ {"new", "begin", "ended"} =>
           /\ todo # <<>>
           /\ at \in 1 .. Len(Script(Current)) + 1
    /\ left \in 0 .. Budget
    /\ child \in {"none", "running", "well", "badly"}
    /\ llama \in {"none", "loading", "serving", "dead"} /\ other \in BOOLEAN
    /\ read \in [Sides -> Readings \cup {None}]
    /\ results \in SUBSET (1 .. at - 1)
    /\ outcome \in {"none", "finished", "failed"} /\ failed \in BOOLEAN

\* A subproject leaves nothing behind, however it ended: when its record is
\* written no child of it runs and its llama-server is gone, so that the next
\* one has the host's memory, the port and the cards.
NothingLeft ==
    /\ pc \notin {"wait", "due"} => child = "none"
    /\ pc \in {"new", "begin", "record", "ended"} => llama = "none"

\* llama-server's guard is held exactly while the evaluation that asks it
\* runs: no other child has it beside it in memory.
AloneInMemory ==
    child # "none" => (llama # "none" <=> Here = Eval("bluebird"))

\* Only rows that this run of the subproject recorded are corroborated, never
\* those an earlier run left in the files, and the report counts what the two
\* sides answered, alike and right.
ReportsThisRun ==
    /\ child # "none" /\ Here.do = "corroborate" =>
           read[Here.of[1]] # None /\ read[Here.of[2]] # None
    /\ pc = "record" /\ report # None =>
           LET of == Script(Current)[Len(Script(Current))].of
           IN  report = Compared(read[of[1]], read[of[2]])

\* A record says "finished" exactly when every child of the script gave its
\* result, or phi512 did not: a killed or failed child is never passed over.
FinishedIsWhole ==
    pc = "record" =>
        LET script == Script(Current)
        IN  outcome = "finished" <=>
                \/ results = {i \in DOMAIN script : Runs(script[i])}
                \/ Current = "06" /\ results = {1}

\* The command ends, whatever hangs: a child, or a llama-server that loads for
\* ever.
Ends == pc # "new" ~> pc = "ended"
==============================================================================
