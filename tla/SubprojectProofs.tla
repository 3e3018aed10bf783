-------------------------- MODULE SubprojectProofs --------------------------
(***************************************************************************)
(* For any budget and any case file: however a subproject ends, it leaves  *)
(* nothing running, llama-server is up beside its own evaluation only, its *)
(* record says "finished" exactly when every child gave its result, and    *)
(* its report counts right the rows of this run only (Subproject,          *)
(* Corroborate).                                                           *)
(*                                                                         *)
(* The argument: at every place of a script the guard of llama-server is   *)
(* held or not whatever came before (Guarded), the results are those of    *)
(* the children before that place (Gathered), and every evaluation before  *)
(* it has recorded its rows (Recorded).  The rows of a reading are those   *)
(* of the questions it answered and the case grades, each once (RowsAre).  *)
(***************************************************************************)
EXTENDS Subproject, DataLemmas

\* What the proofs use of the scripts: where one starts llama-server, drops
\* it, asks it, and where a failure is tolerated.
Known(id) ==
    LET script == Script(id)
    IN  /\ Len(script) \in 1 .. 5
        /\ id = "01" => Len(script) = 2
        /\ id = "04" => Len(script) = 5
        /\ id = "06" => Len(script) = 3
        /\ \A i \in 1 .. Len(script) :
              /\ script[i].do = "serve" <=> id \in {"01", "04"} /\ i = 1
              /\ script[i].do = "drop" <=> id = "04" /\ i = 3
              /\ script[i] = Eval("bluebird") <=> id \in {"01", "04"} /\ i = 2
              /\ Tolerated(script[i]) <=> id = "06" /\ i = 2

LEMMA Scripts == \A id \in ALL : Known(id)
<1>. USE DEF Known, Script, Tolerated, Serve, Drop, Eval, Polygraph, Ledger, Corroborated, Do
<1>1. Known("01")
  BY DEF s01
<1>2. Known("02")
  BY DEF s02
<1>3. Known("03")
  BY DEF s03
<1>4. Known("04")
  BY DEF s04
<1>5. Known("05")
  BY DEF s05
<1>6. Known("06")
  BY DEF s06
<1>7. Known("07")
  BY DEF s07
<1>8. QED
  BY <1>1, <1>2, <1>3, <1>4, <1>5, <1>6, <1>7 DEF ALL

------------------------------------------------------------------------------
(* The invariant.                                                          *)

\* What the command is at, at each of its stages.
Placed ==
    /\ pc \in {"new", "begin"} => at = 1 /\ results = {}
    /\ pc \in {"look", "ask"} => at <= Len(Script(Current)) /\ Here.do = "serve"
    /\ pc \in {"wait", "due"} => at <= Len(Script(Current)) /\ Runs(Here)

\* The places of the scripts at which the guard is held.
Held(id, i) == id \in {"01", "04"} /\ i \in {2, 3}

Guarded ==
    /\ pc \in {"step", "wait", "due"} => (llama # "none" <=> Held(Current, at))
    /\ pc \in {"look", "ask"} => llama # "none"

Gathered ==
    pc \in {"step", "look", "ask", "wait", "due"} =>
        results = {i \in 1 .. at - 1 : Runs(Script(Current)[i])}

Inv == TypeOK /\ NothingLeft /\ Placed /\ Guarded /\ Gathered /\ FinishedIsWhole

\* In a subproject, the script's facts hold of it.
LEMMA CurrentKnown ==
  ASSUME TypeOK, pc \notin {"new", "begin", "ended"}
  PROVE  Current \in ALL /\ Known(Current)
<1>1. Current \in ALL
  BY DEF TypeOK, Current, Stages
<1>2. QED
  BY <1>1, Scripts

LEMMA FindType == \A which \in ALL \cup {"all"} : Find(which) \in Seq(ALL)
<1>1. <<"01", "02", "03", "04", "05", "07">> \in Seq(ALL)
  BY DEF ALL
<1>2. \A which \in ALL : <<which>> \in Seq(ALL)
  OBVIOUS
<1>3. "all" \notin ALL
  BY DEF ALL
<1>4. QED
  BY <1>1, <1>2, <1>3 DEF Find

LEMMA InitInv == Init => Inv
<1>. SUFFICES ASSUME Init PROVE Inv
  OBVIOUS
<1>1. TypeOK
  <2>1. todo \in Seq(ALL) /\ read \in [Sides -> Readings \cup {None}]
    BY DEF Init
  <2>2. pc = "new" /\ left \in 0 .. Budget /\ results \in SUBSET (1 .. at - 1)
    BY SubprojectAssumption DEF Init
  <2>3. QED
    BY <2>1, <2>2 DEF Init, TypeOK, Stages
<1>2. NothingLeft /\ Placed /\ Guarded /\ Gathered /\ FinishedIsWhole
  BY DEF Init, NothingLeft, Placed, Guarded, Gathered, FinishedIsWhole
<1>3. QED
  BY <1>1, <1>2 DEF Inv

\* Where the results are those of the steps before this one, and this one runs
\* a child, the script is not through.
LEMMA NotWhole ==
  ASSUME TypeOK, Placed, Gathered, pc \in {"step", "look", "ask", "wait", "due"},
         at <= Len(Script(Current)), Here.do # "drop"
  PROVE  /\ results # {i \in DOMAIN Script(Current) : Runs(Script(Current)[i])}
         /\ Current = "06" => (results = {1} <=> Tolerated(Here))
<1>1. Current \in ALL /\ Known(Current)
  BY CurrentKnown
<1>2. at \in 1 .. Len(Script(Current))
  BY DEF TypeOK
<1>3. results = {i \in 1 .. at - 1 : Runs(Script(Current)[i])}
  BY DEF Gathered
<1>4. DOMAIN Script(Current) = 1 .. Len(Script(Current))
  BY <1>1, Scripts
<1>5. CASE Here.do = "serve"
  <2>1. at = 1 /\ Current \in {"01", "04"}
    BY <1>1, <1>2, <1>5 DEF Known, Here
  <2>2. 2 \in DOMAIN Script(Current) /\ Runs(Script(Current)[2])
    BY <1>1, <1>4, <2>1 DEF Known, Runs, Eval, Do
  <2>3. QED
    BY <1>2, <1>3, <2>1, <2>2
<1>6. CASE Here.do # "serve"
  <2>1. Runs(Here)
    BY <1>6 DEF Runs
  <2>2. at \in DOMAIN Script(Current) /\ at \notin results
    BY <1>2, <1>3, <1>4
  <2>3. results # {i \in DOMAIN Script(Current) : Runs(Script(Current)[i])}
    BY <2>1, <2>2 DEF Here
  <2>4. ASSUME Current = "06" PROVE results = {1} <=> Tolerated(Here)
    <3>1. \A i \in 1 .. 3 : Runs(Script(Current)[i])
      BY <1>1, <2>4 DEF Known, Runs
    <3>2. results = 1 .. at - 1
      BY <1>1, <1>2, <1>3, <2>4, <3>1 DEF Known
    <3>3. results = {1} <=> at = 2
      BY <1>2, <3>2
    <3>4. QED
      BY <1>1, <1>2, <2>4, <3>3 DEF Known, Here
  <2>5. QED
    BY <2>3, <2>4
<1>7. QED
  BY <1>5, <1>6

\* A step that fails ends the subproject with a record that says so.
LEMMA FailsInv ==
  ASSUME Inv, pc \in {"step", "look", "ask", "wait", "due"},
         at <= Len(Script(Current)), Here.do # "drop",
         Fails, child' = "none",
         UNCHANGED <<todo, at, left, other, read, results, report, failed>>
  PROVE  Inv'
<1>1. /\ results # {i \in DOMAIN Script(Current) : Runs(Script(Current)[i])}
      /\ Current = "06" => (results = {1} <=> Tolerated(Here))
  BY NotWhole DEF Inv
<1>2. Tolerated(Here) => Current = "06"
  BY CurrentKnown DEF Inv, TypeOK, Known, Here
<1>3. /\ pc' = "record" /\ llama' = "none"
      /\ outcome' = IF Tolerated(Here) THEN "finished" ELSE "failed"
  BY DEF Fails, Return, Goto
<1>4. Current' = Current
  BY DEF Current
<1>5. TypeOK'
  BY <1>3, <1>4 DEF Inv, TypeOK, Stages
<1>6. NothingLeft' /\ Placed' /\ Guarded' /\ Gathered'
  BY <1>3 DEF NothingLeft, Placed, Guarded, Gathered
<1>7. FinishedIsWhole'
  BY <1>1, <1>2, <1>3, <1>4 DEF FinishedIsWhole
<1>8. QED
  BY <1>5, <1>6, <1>7 DEF Inv

\* Every step of the command, of a child, of llama-server and of the clock.
LEMMA NextInv == Inv /\ [Next]_vars => Inv'
<1>. SUFFICES ASSUME Inv, [Next]_vars PROVE Inv'
  OBVIOUS
<1>0. Budget \in Nat
  BY SubprojectAssumption
<1>. USE <1>0
     DEF Inv, TypeOK, NothingLeft, Placed, Guarded, Gathered, FinishedIsWhole, Stages,
         Goto, Current, Here, Runs
<1>1. ASSUME NEW which \in ALL \cup {"all"}, NEW held \in BOOLEAN,
             NEW configured \in BOOLEAN, Choose(which, held, configured)
      PROVE  Inv'
  BY <1>1, FindType DEF Choose
<1>2. CASE Begin
  <2>1. Current \in ALL /\ Known(Current) /\ Current' = Current
    BY <1>2, Scripts DEF Begin
  <2>2. Len(Script(Current)) \in 1 .. 5
    BY <2>1 DEF Known
  <2>3. TypeOK' /\ NothingLeft' /\ Placed' /\ FinishedIsWhole'
    BY <1>2, <2>1, <2>2 DEF Begin
  <2>4. Guarded'
    BY <1>2, <2>1 DEF Begin, Held
  <2>5. at' = 1 /\ results' = {}
    BY <1>2 DEF Begin
  <2>6. Gathered'
    BY <2>5
  <2>7. QED
    BY <2>3, <2>4, <2>6
<1>3. CASE Finish
  BY <1>3, CurrentKnown DEF Finish, Return, Known
<1>4. CASE StartLlama
  BY <1>4 DEF StartLlama
<1>5. CASE NoLlama
  BY <1>5, FailsInv DEF NoLlama
<1>6. CASE Look
  BY <1>6 DEF Look
<1>7. CASE Ask
  BY <1>7, CurrentKnown DEF Ask, Known, Held
<1>8. CASE DropLlama
  BY <1>8, CurrentKnown DEF DropLlama, Known, Held
<1>9. CASE Spawn
  BY <1>9 DEF Spawn
<1>10. CASE SpawnFails
  BY <1>10, FailsInv DEF SpawnFails
<1>11. CASE TakeResult
  BY <1>11, CurrentKnown DEF TakeResult, Known, Held
<1>12. CASE TakeError
  BY <1>12, FailsInv DEF TakeError
<1>13. CASE StillRuns \/ Sleep
  BY <1>13 DEF StillRuns, Sleep
<1>14. CASE Kill
  BY <1>14, FailsInv DEF Kill
<1>15. CASE WriteRecord
  BY <1>15 DEF WriteRecord
<1>16. CASE NotWritten \/ End
  BY <1>16 DEF NotWritten, End
<1>17. CASE ChildEnds
  BY <1>17, SMTT(20) DEF ChildEnds
<1>18. CASE LlamaServes \/ LlamaDies
  BY <1>18 DEF LlamaServes, LlamaDies
<1>19. CASE Tick
  BY <1>19 DEF Tick
<1>20. CASE UNCHANGED vars
  BY <1>20 DEF vars
<1>21. QED
  BY <1>1, <1>2, <1>3, <1>4, <1>5, <1>6, <1>7, <1>8, <1>9, <1>10, <1>11, <1>12, <1>13,
     <1>14, <1>15, <1>16, <1>17, <1>18, <1>19, <1>20 DEF Next, Command

THEOREM Invariance == Spec => []Inv
<1>. QED
  BY InitInv, NextInv, PTL DEF Spec

\* The types, and the place in a script, for any budget and any cases.
THEOREM TypeCorrect == Spec => []TypeOK
<1>1. Inv => TypeOK
  BY DEF Inv
<1>. QED
  BY <1>1, Invariance, PTL

\* However a subproject ends, no child and no llama-server of it is left.
THEOREM SubprojectsCleanUp == Spec => []NothingLeft
<1>1. Inv => NothingLeft
  BY DEF Inv
<1>. QED
  BY <1>1, Invariance, PTL

\* llama-server is up beside its own evaluation, and beside no other child.
THEOREM LlamaBesideItsOwn == Spec => []AloneInMemory
<1>1. Inv => AloneInMemory
  <2>. SUFFICES ASSUME Inv, child # "none" PROVE llama # "none" <=> Here = Eval("bluebird")
    BY DEF AloneInMemory
  <2>1. pc \in {"wait", "due"} /\ Current \in ALL /\ Known(Current)
    BY CurrentKnown DEF Inv, NothingLeft
  <2>2. at \in 1 .. Len(Script(Current)) /\ Runs(Here)
    BY <2>1 DEF Inv, TypeOK, Placed, Stages
  <2>3. llama # "none" <=> Held(Current, at)
    BY <2>1 DEF Inv, Guarded
  <2>4. Held(Current, at) <=> Here = Eval("bluebird")
    BY <2>1, <2>2 DEF Known, Held, Here, Runs
  <2>5. QED
    BY <2>3, <2>4
<1>. QED
  BY <1>1, Invariance, PTL

\* A record says "finished" exactly when every child of the script gave its
\* result, or phi512 was the one that did not.
THEOREM RecordsAreWhole == Spec => []FinishedIsWhole
<1>1. Inv => FinishedIsWhole
  BY DEF Inv
<1>. QED
  BY <1>1, Invariance, PTL

------------------------------------------------------------------------------
(* The sides of a corroboration.                                           *)

\* What the proofs use of the scripts here: a corroboration is a script's
\* last step, of two sides evaluated before it.
Ordered(id) ==
    LET script == Script(id)
    IN  /\ \A i \in 1 .. Len(script) :
              /\ script[i].do = "eval" => script[i].of[1] \in Sides
              /\ script[i].do = "corroborate" =>
                    /\ i = Len(script)
                    /\ \A k \in {1, 2} : \E j \in 1 .. i - 1 :
                          script[j].do = "eval" /\ script[j].of[1] = script[i].of[k]

LEMMA ScriptsOrdered == \A id \in ALL : Ordered(id)
<1>. USE DEF Ordered, Script, Serve, Drop, Eval, Polygraph, Ledger, Corroborated, Do, Sides
<1>1. Ordered("01")
  BY DEF s01
<1>2. Ordered("02")
  BY DEF s02
<1>3. Ordered("03")
  BY DEF s03
<1>4. Ordered("04")
  BY DEF s04
<1>5. Ordered("05")
  BY DEF s05
<1>6. Ordered("06")
  BY DEF s06
<1>7. Ordered("07")
  <2>1. /\ Len(s07) = 4 /\ s07[1].do = "eval" /\ s07[2].do = "eval"
        /\ s07[3].do = "ledger" /\ s07[4].do = "corroborate"
        /\ s07[1].of[1] = "x86" /\ s07[2].of[1] = "cards"
        /\ s07[4].of[1] = "x86" /\ s07[4].of[2] = "cards"
    BY DEF s07
  <2>2. \A i \in 1 .. 4 : i = 1 \/ i = 2 \/ i = 3 \/ i = 4
    OBVIOUS
  <2>3. 1 \in 1 .. 4 - 1 /\ 2 \in 1 .. 4 - 1
    OBVIOUS
  <2>4. Script("07") = s07
    OBVIOUS
  <2>5. ASSUME NEW k \in {1, 2}
        PROVE  \E j \in 1 .. 4 - 1 : s07[j].do = "eval" /\ s07[j].of[1] = s07[4].of[k]
    BY <2>1, <2>3
  <2>6. \A i \in 1 .. 4 : /\ s07[i].do = "eval" => s07[i].of[1] \in Sides
                          /\ s07[i].do = "corroborate" => i = 4
    BY <2>1, <2>2
  <2>. HIDE DEF Script, Serve, Drop, Eval, Polygraph, Ledger, Corroborated, Do, Sides
  <2>7. Len(Script("07")) = 4
    BY <2>1, <2>4
  <2>8. ASSUME NEW i \in 1 .. 4, s07[i].do = "corroborate", NEW k \in {1, 2}
        PROVE  \E j \in 1 .. i - 1 : s07[j].do = "eval" /\ s07[j].of[1] = s07[i].of[k]
    <3>1. i = 4
      BY <2>6, <2>8
    <3>. QED
      BY <2>5, <3>1
  <2>9. \A i \in 1 .. 4 :
           /\ s07[i].do = "eval" => s07[i].of[1] \in Sides
           /\ s07[i].do = "corroborate" =>
                 /\ i = 4
                 /\ \A k \in {1, 2} : \E j \in 1 .. i - 1 :
                       s07[j].do = "eval" /\ s07[j].of[1] = s07[i].of[k]
    BY <2>6, <2>8
  <2>. QED
    BY <2>4, <2>7, <2>9, Zenon
<1>8. QED
  <2>. HIDE DEF Ordered, Script
  <2>. QED
    BY <1>1, <1>2, <1>3, <1>4, <1>5, <1>6, <1>7 DEF ALL

\* What the command is at, in a script.
Working == {"step", "look", "ask", "wait", "due"}

\* Every evaluation that gave its result recorded its rows in this run; the
\* report is that of the script's corroboration, its last step.
Recorded ==
    /\ pc \in Working =>
          \A i \in 1 .. at - 1 :
              Script(Current)[i].do = "eval" => read[Script(Current)[i].of[1]] # None
    /\ child = "well" /\ Here.do = "eval" => read[Here.of[1]] # None
    /\ report # None /\ pc # "ended" =>
          LET script == Script(Current)
              of == script[Len(script)].of
          IN  /\ pc \in {"step", "record"} /\ at = Len(script) + 1
              /\ read[of[1]] \in Readings /\ read[of[2]] \in Readings
              /\ report = Compare(RowsOf(read[of[1]]), RowsOf(read[of[2]]))

\* At a corroboration, both sides' rows are this run's.
LEMMA SidesRead ==
  ASSUME Inv, Recorded, pc \in Working, at <= Len(Script(Current)), Here.do = "corroborate"
  PROVE  /\ at = Len(Script(Current))
         /\ read[Here.of[1]] \in Readings /\ read[Here.of[2]] \in Readings
<1>1. Current \in ALL /\ at \in 1 .. Len(Script(Current)) /\ Here = Script(Current)[at]
  BY CurrentKnown DEF Inv, TypeOK, Working, Stages, Here
<1>2. Ordered(Current)
  BY <1>1, ScriptsOrdered
<1>3. /\ at = Len(Script(Current))
      /\ \A k \in {1, 2} : \E j \in 1 .. at - 1 :
            Script(Current)[j].do = "eval" /\ Script(Current)[j].of[1] = Here.of[k]
  BY <1>1, <1>2 DEF Ordered
<1>4. ASSUME NEW k \in {1, 2} PROVE read[Here.of[k]] \in Readings
  <2>1. PICK j \in 1 .. at - 1 :
           Script(Current)[j].do = "eval" /\ Script(Current)[j].of[1] = Here.of[k]
    BY <1>3
  <2>2. read[Here.of[k]] # None
    BY <2>1 DEF Recorded
  <2>3. Here.of[k] \in Sides
    <3>1. j \in 1 .. Len(Script(Current))
      BY <1>1
    <3>. QED
      BY <1>2, <2>1, <3>1 DEF Ordered
  <2>. QED
    BY <2>2, <2>3 DEF Inv, TypeOK
<1>. QED
  BY <1>3, <1>4

\* A step that leaves the rows and the report.
LEMMA RecordedStays ==
  ASSUME Recorded, UNCHANGED <<todo, read, report>>,
         child' # "well" \/ (child = "well" /\ UNCHANGED at),
         pc' \in Working => pc \in Working /\ (at' = at \/ at' \in 1 .. 1),
         report # None /\ pc' # "ended" =>
            pc # "ended" /\ pc' \in {"step", "record"} /\ UNCHANGED at
  PROVE  Recorded'
<1>1. Current' = Current
  BY DEF Current
<1>2. child' = "well" => Here' = Here
  BY <1>1 DEF Here
<1>3. (pc \in Working => \A i \in 1 .. at - 1 :
          Script(Current)[i].do = "eval" => read[Script(Current)[i].of[1]] # None)'
  BY <1>1 DEF Recorded
<1>4. (child = "well" /\ Here.do = "eval" => read[Here.of[1]] # None)'
  BY <1>1, <1>2 DEF Recorded
<1>. QED
  BY <1>1, <1>3, <1>4 DEF Recorded

LEMMA NextRecorded == Inv /\ Recorded /\ [Next]_vars => Recorded'
<1>. SUFFICES ASSUME Inv, Recorded, [Next]_vars PROVE Recorded'
  OBVIOUS
<1>. USE DEF Goto, Return, Fails, Working
<1>0. pc \notin {"wait", "due"} => child = "none"
  BY DEF Inv, NothingLeft
<1>1. ASSUME NEW which \in ALL \cup {"all"}, NEW held \in BOOLEAN,
             NEW configured \in BOOLEAN, Choose(which, held, configured)
      PROVE  Recorded'
  <2>1. report = None
    BY <1>1 DEF Choose, Recorded
  <2>. QED
    BY <1>0, <1>1, <2>1 DEF Choose, Recorded
<1>2. CASE Begin
  <2>1. at = 1 /\ report = None
    BY <1>2 DEF Begin, Inv, Placed, Recorded
  <2>. QED
    BY <1>0, <1>2, <2>1 DEF Begin, Recorded
<1>3. CASE Finish
  BY <1>0, <1>3, RecordedStays DEF Finish
<1>4. ASSUME pc \in Working, at <= Len(Script(Current)) PROVE report = None
  <2>1. Len(Script(Current)) \in Nat /\ at \in Nat
    BY <1>4, CurrentKnown DEF Inv, TypeOK, Known, Stages
  <2>. QED
    BY <1>4, <2>1 DEF Recorded
<1>5. CASE StartLlama
  BY <1>0, <1>4, <1>5, RecordedStays DEF StartLlama
<1>6. CASE NoLlama
  <2>1. report = None
    BY <1>4, <1>6 DEF NoLlama, Inv, Placed
  <2>. QED
    BY <1>0, <1>6, <2>1, RecordedStays DEF NoLlama
<1>7. CASE Look
  <2>1. report = None
    BY <1>4, <1>7 DEF Look, Inv, Placed
  <2>. QED
    BY <1>0, <1>7, <2>1, RecordedStays DEF Look
<1>8. CASE Ask \/ DropLlama
  <2>1. report = None /\ at \in Nat /\ Script(Current)[at].do # "eval" /\ child = "none"
        /\ report' = None /\ child' = "none" /\ UNCHANGED <<todo, read>> /\ pc \in Working
    BY <1>0, <1>4, <1>8, CurrentKnown
    DEF Ask, DropLlama, Inv, Placed, TypeOK, Stages, Here
  <2>2. at' \in {at, at + 1} /\ Current' = Current
    BY <1>8 DEF Ask, DropLlama, Current
  <2>3. \A i \in 1 .. at' - 1 : i \in 1 .. at - 1 \/ i = at
    <3>1. CASE at' = at
      BY <3>1
    <3>2. CASE at' = at + 1
      BY <2>1, <3>2
    <3>. QED
      BY <2>2, <3>1, <3>2
  <2>. QED
    BY <2>1, <2>2, <2>3 DEF Recorded
<1>9. CASE Spawn \/ SpawnFails
  <2>1. report = None
    BY <1>4, <1>9 DEF Spawn, SpawnFails
  <2>. QED
    BY <1>0, <1>9, <2>1, RecordedStays DEF Spawn, SpawnFails
<1>10. CASE TakeResult
  <2>1. /\ report = None /\ at \in Nat /\ child = "well" /\ child' = "none" /\ pc = "wait"
        /\ report' = Printed /\ at' = at + 1 /\ pc' = "step" /\ UNCHANGED <<todo, read>>
        /\ at <= Len(Script(Current))
    BY <1>4, <1>10 DEF TakeResult, Inv, Placed, TypeOK, Stages
  <2>2. Current' = Current /\ Here = Script(Current)[at]
    BY <2>1 DEF Current, Here
  <2>3. \A i \in 1 .. at' - 1 : i \in 1 .. at - 1 \/ i = at
    BY <2>1
  <2>4. \A i \in 1 .. at' - 1 :
           Script(Current)[i].do = "eval" => read[Script(Current)[i].of[1]] # None
    BY <2>1, <2>2, <2>3 DEF Recorded
  <2>5. CASE Here.do = "corroborate"
    <3>1. at = Len(Script(Current))
      BY <2>1, <2>5, SidesRead
    <3>2. report' = Compare(RowsOf(read[Here.of[1]]), RowsOf(read[Here.of[2]]))
      BY <2>1, <2>5 DEF Printed, Side
    <3>3. LET script == Script(Current)'
              of == script[Len(script)].of
          IN  /\ at' = Len(script) + 1
              /\ read'[of[1]] \in Readings /\ read'[of[2]] \in Readings
              /\ report' = Compare(RowsOf(read'[of[1]]), RowsOf(read'[of[2]]))
      BY <2>1, <2>2, <2>5, <3>1, <3>2, SidesRead
    <3>. QED
      BY <2>1, <2>2, <2>4, <3>3 DEF Recorded
  <2>6. CASE Here.do # "corroborate"
    <3>1. report' = None
      BY <2>1, <2>6 DEF Printed
    <3>. QED
      BY <2>1, <2>2, <2>4, <3>1 DEF Recorded
  <2>. QED
    BY <2>5, <2>6
<1>11. CASE TakeError
  <2>1. report = None
    BY <1>4, <1>11 DEF TakeError, Inv, Placed
  <2>. QED
    BY <1>0, <1>11, <2>1, RecordedStays DEF TakeError
<1>12. CASE StillRuns \/ Sleep
  <2>1. report = None
    BY <1>4, <1>12 DEF StillRuns, Sleep, Inv, Placed
  <2>. QED
    BY <1>0, <1>12, <2>1, RecordedStays DEF StillRuns, Sleep
<1>13. CASE Kill
  <2>1. report = None
    BY <1>4, <1>13 DEF Kill, Inv, Placed
  <2>. QED
    BY <1>0, <1>13, <2>1, RecordedStays DEF Kill
<1>14. CASE WriteRecord
  BY <1>0, <1>14 DEF WriteRecord, Recorded
<1>15. CASE NotWritten \/ End
  BY <1>0, <1>15, RecordedStays DEF NotWritten, End
<1>16. CASE ChildEnds
  <2>1. /\ pc \in {"wait", "due"} /\ report = None /\ report' = None
        /\ at \in 1 .. Len(Script(Current)) /\ Current \in ALL
        /\ UNCHANGED <<todo, at, pc>>
    BY <1>0, <1>4, <1>16, CurrentKnown DEF ChildEnds, Inv, Placed, TypeOK, Stages
  <2>2. Current' = Current /\ Here' = Here /\ Here = Script(Current)[at]
    BY <2>1 DEF Current, Here
  <2>3. \A s \in Sides : read[s] # None => read'[s] # None
    BY <1>16, SubprojectAssumption DEF ChildEnds, Inv, TypeOK
  <2>4. child' = "well" /\ Here.do = "eval" => read'[Here.of[1]] # None
    <3>. SUFFICES ASSUME child' = "well", Here.do = "eval" PROVE read'[Here.of[1]] # None
      OBVIOUS
    <3>1. Here.of[1] \in Sides
      BY <2>1, <2>2, ScriptsOrdered DEF Ordered
    <3>2. PICK v \in Readings : read' = [read EXCEPT ![Here.of[1]] = v]
      BY <1>16 DEF ChildEnds
    <3>. QED
      BY <3>1, <3>2, SubprojectAssumption DEF Inv, TypeOK
  <2>5. ASSUME NEW i \in 1 .. at - 1, Script(Current)[i].do = "eval"
        PROVE  read'[Script(Current)[i].of[1]] # None
    <3>1. i \in 1 .. Len(Script(Current))
      BY <2>1
    <3>2. Script(Current)[i].of[1] \in Sides
      BY <2>1, <2>5, <3>1, ScriptsOrdered DEF Ordered
    <3>3. read[Script(Current)[i].of[1]] # None
      BY <2>1, <2>5 DEF Recorded
    <3>. QED
      BY <2>3, <3>2, <3>3
  <2>. QED
    BY <2>1, <2>2, <2>4, <2>5 DEF Recorded
<1>17. CASE LlamaServes \/ LlamaDies \/ Tick
  <2>1. UNCHANGED <<todo, at, pc, child, read, report>>
    BY <1>17 DEF LlamaServes, LlamaDies, Tick
  <2>2. Current' = Current /\ Here' = Here
    BY <2>1 DEF Current, Here
  <2>. QED
    BY <2>1, <2>2 DEF Recorded
<1>18. CASE UNCHANGED vars
  <2>1. Current' = Current /\ Here' = Here
    BY <1>18 DEF Current, Here, vars
  <2>. QED
    BY <1>18, <2>1 DEF Recorded, vars
<1>. QED
  BY <1>1, <1>2, <1>3, <1>5, <1>6, <1>7, <1>8, <1>9, <1>10, <1>11, <1>12, <1>13, <1>14,
     <1>15, <1>16, <1>17, <1>18 DEF Next, Command

LEMMA RecordedAlways == Spec => []Recorded
<1>1. Init => Recorded
  BY DEF Init, Recorded, Working
<1>. QED
  BY <1>1, NextRecorded, Invariance, PTL DEF Spec

\* What a corroboration is given, and its report.
FromThisRun ==
    /\ child # "none" /\ Here.do = "corroborate" =>
           read[Here.of[1]] # None /\ read[Here.of[2]] # None
    /\ pc = "record" /\ report # None =>
           LET of == Script(Current)[Len(Script(Current))].of
           IN  /\ read[of[1]] \in Readings /\ read[of[2]] \in Readings
               /\ report = Compare(RowsOf(read[of[1]]), RowsOf(read[of[2]]))

\* Only rows this run of the subproject recorded are corroborated, never those
\* an earlier run left in the files: for every script, however late a child
\* ends, and whichever failed before.
THEOREM OnlyThisRunsRows == Spec => []FromThisRun
<1>1. Inv /\ Recorded => FromThisRun
  <2>. SUFFICES ASSUME Inv, Recorded PROVE FromThisRun
    OBVIOUS
  <2>1. ASSUME child # "none", Here.do = "corroborate"
        PROVE  read[Here.of[1]] # None /\ read[Here.of[2]] # None
    <3>1. pc \in Working /\ at <= Len(Script(Current))
      BY <2>1 DEF Inv, NothingLeft, Placed, Working
    <3>. QED
      BY <2>1, <3>1, SidesRead, SubprojectAssumption
  <2>2. ASSUME pc = "record", report # None
        PROVE  LET of == Script(Current)[Len(Script(Current))].of
               IN  /\ read[of[1]] \in Readings /\ read[of[2]] \in Readings
                   /\ report = Compare(RowsOf(read[of[1]]), RowsOf(read[of[2]]))
    BY <2>2 DEF Recorded
  <2>. QED
    BY <2>1, <2>2 DEF FromThisRun
<1>. QED
  BY <1>1, Invariance, RecordedAlways, PTL

------------------------------------------------------------------------------
(* What compare is to count, of any two readings of the cases: the rows of *)
(* a reading are those of the questions it answered and the case grades,   *)
(* each once, and their keys the questions.                                *)

RowAt(v, k) == Row(k[1], k[2], Top(v, k))
GradedIn(v, c) == {k \in Graded(v) : k[1] = c}

LEMMA WhatIsGraded ==
  ASSUME NEW v \in Readings
  PROVE  /\ \A c \in DOMAIN Cases : \A q \in DOMAIN Cases[c] :
               <<c, q>> \in Graded(v) <=> v[c] # Failed /\ Cases[c][q] # NoGold
         /\ \A k \in Graded(v) : /\ k = <<k[1], k[2]>>
                                 /\ k[1] \in DOMAIN Cases /\ v[k[1]] # Failed
                                 /\ k[2] \in DOMAIN Cases[k[1]]
<1> DEFINE Q == UNION {DOMAIN Cases[d] : d \in DOMAIN Cases}
<1>1. \A c \in DOMAIN Cases : \A q \in DOMAIN Cases[c] : q \in Q
  OBVIOUS
<1>2. \A k : k \in Answered(v) <=>
         \E c \in DOMAIN Cases : \E q \in Q : v[c] # Failed /\ k = <<c, q>>
  <2>. HIDE DEF Q
  <2>. QED
    BY DEF Answered, Q
<1>. HIDE DEF Q
<1>3. ASSUME NEW c \in DOMAIN Cases, NEW q \in DOMAIN Cases[c]
      PROVE  <<c, q>> \in Graded(v) <=> v[c] # Failed /\ Cases[c][q] # NoGold
  <2>1. <<c, q>> \in Answered(v) <=> v[c] # Failed
    BY <1>1, <1>2
  <2>. QED
    BY <2>1 DEF Graded, GoldOf
<1>4. ASSUME NEW k \in Graded(v)
      PROVE  /\ k = <<k[1], k[2]>>
             /\ k[1] \in DOMAIN Cases /\ v[k[1]] # Failed
             /\ k[2] \in DOMAIN Cases[k[1]]
  <2>1. k \in Answered(v) /\ k[2] \in DOMAIN Cases[k[1]]
    BY DEF Graded
  <2>2. PICK c \in DOMAIN Cases, q \in Q : v[c] # Failed /\ k = <<c, q>>
    BY <1>2, <2>1
  <2>. QED
    BY <2>1, <2>2
<1>. QED
  BY <1>3, <1>4

LEMMA RowsOfCase ==
  ASSUME NEW v \in Readings, NEW c \in DOMAIN Cases
  PROVE  /\ CaseRows(c, v[c]) \in Seq({RowAt(v, k) : k \in Graded(v)})
         /\ IsInjective(CaseRows(c, v[c]))
         /\ Range(CaseRows(c, v[c])) = {RowAt(v, k) : k \in GradedIn(v, c)}
<1> DEFINE n == Len(Cases[c])
           V == Seq({RowAt(v, k) : k \in Graded(v)})
<1>1. /\ n \in Nat /\ DOMAIN Cases[c] = 1 .. n
  BY CorroborateAssumption
<1>. HIDE DEF n
<1>2. <<>> \in V /\ IsInjective(<<>>) /\ Range(<<>>) = {}
  <2>1. <<>> \in V /\ DOMAIN <<>> = {}
    OBVIOUS
  <2>. QED
    BY <2>1 DEF IsInjective, Range
<1>3. CASE v[c] = Failed
  <2>1. CaseRows(c, v[c]) = <<>>
    BY <1>3 DEF CaseRows
  <2>2. GradedIn(v, c) = {}
    BY <1>3, WhatIsGraded DEF GradedIn
  <2>. QED
    BY <1>2, <2>1, <2>2
<1>4. CASE v[c] # Failed
  <2> DEFINE R(q) == RowAt(v, <<c, q>>)
             one(f, q) == IF q = 0 THEN <<>>
                          ELSE IF Cases[c][q] = NoGold THEN f[q - 1]
                          ELSE Append(f[q - 1], Row(c, q, v[c][q]))
             Is(f) == f = [q \in 0 .. n |-> one(f, q)]
             upTo == CHOOSE f : Is(f)
             step == [q \in 1 .. n |-> [rows \in V |->
                        IF Cases[c][q] = NoGold THEN rows ELSE Append(rows, R(q))]]
  <2>1. \A q \in 1 .. n : R(q) = Row(c, q, v[c][q])
    BY DEF RowAt, Top
  <2>2. \A q \in 1 .. n : <<c, q>> \in Graded(v) <=> Cases[c][q] # NoGold
    BY <1>1, <1>4, WhatIsGraded
  <2>3. \A q, r \in 1 .. n : R(q) = R(r) => q = r
    BY DEF RowAt, Row
  <2>. HIDE DEF R
  <2>4. \E f : Is(f) /\ f \in [0 .. n -> V]
    <3>1. ASSUME NEW q \in 1 .. n, NEW rows \in V
          PROVE  /\ step[q][rows] = IF Cases[c][q] = NoGold THEN rows ELSE Append(rows, R(q))
                 /\ step[q][rows] \in V
      <4>1. Cases[c][q] # NoGold => R(q) \in {RowAt(v, k) : k \in Graded(v)}
        BY <2>2 DEF R
      <4>. QED
        BY <4>1
    <3>2. StepsWithin(V, step, 0, n)
      <4>. HIDE DEF step, V
      <4>1. \A q \in 0 + 1 .. n : q \in 1 .. n
        OBVIOUS
      <4>. QED
        BY <3>1, <4>1 DEF StepsWithin
    <3>. HIDE DEF step, V
    <3>3. 0 \in Nat /\ 0 =< n
      BY <1>1
    <3>4. \E f : Recurs(f, V, <<>>, step, 0, n)
      BY <1>1, <1>2, <3>2, <3>3, Recursion
    <3>5. PICK f : Recurs(f, V, <<>>, step, 0, n)
      BY <3>4
    <3>6. f \in [0 .. n -> V]
      BY <3>5 DEF Recurs
    <3>7. ASSUME NEW q \in 0 .. n PROVE f[q] = one(f, q)
      <4>1. f[q] = IF q = 0 THEN <<>> ELSE step[q][f[q - 1]]
        BY <3>5 DEF Recurs
      <4>2. CASE q # 0
        <5>1. q \in 1 .. n /\ f[q - 1] \in V
          BY <1>1, <3>6, <4>2
        <5>. QED
          BY <2>1, <3>1, <4>1, <4>2, <5>1
      <4>. QED
        BY <4>1, <4>2
    <3>. HIDE DEF one
    <3>8. Is(f)
      BY <3>6, <3>7
    <3>. HIDE DEF Is
    <3>. QED
      BY <3>6, <3>8
  <2>5. Is(upTo)
    <3>. HIDE DEF Is
    <3>. QED
      BY <2>4
  <2>6. CaseRows(c, v[c]) = upTo[n]
    BY <1>4, Zenon DEF CaseRows, upTo, Is, one, n
  <2>. HIDE DEF upTo
  <2>7. \A q \in 0 .. n : upTo[q] = one(upTo, q)
    BY <2>5
  <2> DEFINE Rows(q) == {R(j) : j \in {i \in 1 .. q : Cases[c][i] # NoGold}}
             Fine(q) == /\ upTo[q] \in V /\ IsInjective(upTo[q])
                        /\ Range(upTo[q]) = Rows(q)
             F == {q \in Nat : q =< n => Fine(q)}
  <2>8. 0 \in F
    <3>1. upTo[0] = <<>> /\ Rows(0) = {}
      BY <1>1, <2>7
    <3>. QED
      BY <1>2, <3>1
  <2>9. ASSUME NEW q \in Nat, q >= 0, q \in F PROVE q + 1 \in F
    <3>. SUFFICES ASSUME q + 1 =< n PROVE Fine(q + 1)
      OBVIOUS
    <3>1. /\ q + 1 \in 1 .. n /\ q + 1 \in 0 .. n /\ q + 1 # 0 /\ (q + 1) - 1 = q /\ q =< n
          /\ 1 .. q + 1 = (1 .. q) \cup {q + 1}
          /\ \A j \in 1 .. q : j \in 1 .. n /\ j # q + 1
      BY <1>1
    <3>2. Fine(q)
      BY <2>9, <3>1
    <3>3. CASE Cases[c][q + 1] = NoGold
      <4>1. upTo[q + 1] = upTo[q]
        BY <2>7, <3>1, <3>3
      <4>2. Rows(q + 1) = Rows(q)
        BY <3>1, <3>3
      <4>. QED
        BY <3>2, <4>1, <4>2
    <3>4. CASE Cases[c][q + 1] # NoGold
      <4>1. upTo[q + 1] = Append(upTo[q], R(q + 1))
        BY <2>1, <2>7, <3>1, <3>4
      <4>2. Rows(q + 1) = Rows(q) \cup {R(q + 1)}
        BY <3>1, <3>4
      <4>3. R(q + 1) \notin Rows(q)
        BY <2>3, <3>1
      <4>4. R(q + 1) \in {RowAt(v, k) : k \in Graded(v)}
        BY <2>2, <3>1, <3>4 DEF R
      <4>. HIDE DEF Rows
      <4>5. PICK S : S = {RowAt(v, k) : k \in Graded(v)}
        OBVIOUS
      <4>6. PICK s \in Seq(S), x \in S : s = upTo[q] /\ x = R(q + 1)
        BY <3>2, <4>4, <4>5
      <4>7. /\ Append(s, x) \in Seq(S) /\ Range(Append(s, x)) = Range(s) \cup {x}
            /\ IsInjective(s) /\ x \notin Range(s) => IsInjective(Append(s, x))
        BY AppendRange
      <4>. QED
        BY <3>2, <4>1, <4>2, <4>3, <4>5, <4>6, <4>7
    <3>. QED
      BY <3>3, <3>4
  <2>10. Fine(n)
    <3>. HIDE DEF F
    <3>1. 0 \in Nat /\ n >= 0
      BY <1>1
    <3>2. n \in F
      BY <1>1, <2>8, <2>9, <3>1, Induction
    <3>. QED
      BY <1>1, <3>2 DEF F
  <2>11. Rows(n) = {RowAt(v, k) : k \in GradedIn(v, c)}
    <3>1. ASSUME NEW j \in 1 .. n, Cases[c][j] # NoGold
          PROVE  <<c, j>> \in GradedIn(v, c)
      BY <2>2, <3>1 DEF GradedIn
    <3>2. ASSUME NEW k \in GradedIn(v, c)
          PROVE  k[2] \in 1 .. n /\ Cases[c][k[2]] # NoGold /\ k = <<c, k[2]>>
      <4>1. k \in Graded(v) /\ k[1] = c
        BY DEF GradedIn
      <4>2. k = <<c, k[2]>> /\ k[2] \in 1 .. n
        BY <1>1, <4>1, WhatIsGraded
      <4>. QED
        BY <2>2, <4>1, <4>2
    <3>. QED
      BY <3>1, <3>2 DEF R
  <2>. QED
    BY <2>6, <2>10, <2>11
<1>. QED
  BY <1>3, <1>4

\* The rows of a reading.
RowsAre(a, v) ==
    /\ Len(a) \in Nat /\ DOMAIN a = 1 .. Len(a)
    /\ \A i \in DOMAIN a : a[i].key \in Graded(v) /\ a[i] = RowAt(v, a[i].key)
    /\ \A k \in Graded(v) : \E i \in DOMAIN a : a[i].key = k
    /\ \A i, j \in DOMAIN a : a[i].key = a[j].key => i = j

LEMMA RowsOfReading ==
  ASSUME NEW v \in Readings
  PROVE  RowsAre(RowsOf(v), v)
<1> DEFINE ss == [c \in DOMAIN Cases |-> CaseRows(c, v[c])]
           S == {RowAt(v, k) : k \in Graded(v)}
           a == RowsOf(v)
<1>1. Len(Cases) \in Nat /\ DOMAIN Cases = 1 .. Len(Cases)
  BY CorroborateAssumption
<1>2. DOMAIN ss = DOMAIN Cases /\ \A c \in DOMAIN ss : ss[c] = CaseRows(c, v[c])
  OBVIOUS
<1>3. ss \in Seq(Seq(S))
  <2>1. \A c \in DOMAIN Cases : CaseRows(c, v[c]) \in Seq(S)
    BY RowsOfCase
  <2>. HIDE DEF S
  <2>2. \A c \in 1 .. Len(Cases) : CaseRows(c, v[c]) \in Seq(S)
    BY <1>1, <2>1
  <2>3. ss = [c \in 1 .. Len(Cases) |-> CaseRows(c, v[c])]
    BY <1>1
  <2>. QED
    BY <1>1, <2>2, <2>3
<1>4. \A k \in Graded(v) : RowAt(v, k).key = k
  BY WhatIsGraded DEF RowAt, Row
<1>5. \A c \in DOMAIN ss : /\ IsInjective(ss[c])
                           /\ Range(ss[c]) = {RowAt(v, k) : k \in GradedIn(v, c)}
  BY <1>2, RowsOfCase
<1>6. ASSUME NEW c \in DOMAIN ss, NEW d \in DOMAIN ss, c # d
      PROVE  Range(ss[c]) \cap Range(ss[d]) = {}
  <2>1. ASSUME NEW k \in GradedIn(v, c), NEW l \in GradedIn(v, d)
        PROVE  RowAt(v, k) # RowAt(v, l)
    <3>1. k \in Graded(v) /\ l \in Graded(v) /\ k # l
      BY <1>6 DEF GradedIn
    <3>. QED
      BY <1>4, <3>1
  <2>. QED
    BY <1>5, <2>1
<1>. HIDE DEF ss
<1>7. /\ a \in Seq(S) /\ IsInjective(a)
      /\ Range(a) = UNION {Range(ss[c]) : c \in DOMAIN ss}
  <2>. HIDE DEF S
  <2>1. a = FlattenSeq(ss)
    BY DEF RowsOf, ss
  <2>2. \A c \in DOMAIN ss : IsInjective(ss[c])
    BY <1>5
  <2>3. \A c, d \in DOMAIN ss : c # d => Range(ss[c]) \cap Range(ss[d]) = {}
    BY <1>6
  <2>. HIDE DEF a
  <2>. QED
    BY <1>3, <2>1, <2>2, <2>3, FlattenRange
<1>. HIDE DEF a
<1>8. Range(a) = S
  <2>1. \A c \in DOMAIN ss : Range(ss[c]) \subseteq S
    BY <1>5 DEF GradedIn
  <2>2. ASSUME NEW k \in Graded(v) PROVE \E c \in DOMAIN ss : RowAt(v, k) \in Range(ss[c])
    <3>1. k[1] \in DOMAIN ss /\ k \in GradedIn(v, k[1])
      BY <1>2, WhatIsGraded DEF GradedIn
    <3>. QED
      BY <1>5, <3>1
  <2>. QED
    BY <1>7, <2>1, <2>2
<1>9. Len(a) \in Nat /\ DOMAIN a = 1 .. Len(a)
  BY <1>7
<1>10. ASSUME NEW i \in DOMAIN a PROVE a[i].key \in Graded(v) /\ a[i] = RowAt(v, a[i].key)
  <2>1. a[i] \in S
    BY <1>8 DEF Range
  <2>2. PICK k \in Graded(v) : a[i] = RowAt(v, k)
    BY <2>1
  <2>. QED
    BY <1>4, <2>2
<1>11. ASSUME NEW k \in Graded(v) PROVE \E i \in DOMAIN a : a[i].key = k
  <2>1. RowAt(v, k) \in Range(a)
    BY <1>8
  <2>2. PICK i \in DOMAIN a : a[i] = RowAt(v, k)
    BY <2>1 DEF Range
  <2>. QED
    BY <1>4, <2>2
<1>12. ASSUME NEW i \in DOMAIN a, NEW j \in DOMAIN a, a[i].key = a[j].key PROVE i = j
  <2>1. a[i] = a[j]
    BY <1>10, <1>12
  <2>. QED
    BY <1>7, <2>1 DEF IsInjective
<1>13. RowsAre(a, v)
  BY <1>9, <1>10, <1>11, <1>12 DEF RowsAre
<1>. QED
  BY <1>13 DEF a

\* As many rows as questions, of any set of graded questions.
LEMMA RowsCounted ==
  ASSUME NEW v \in Readings, NEW a, RowsAre(a, v), NEW T \in SUBSET Graded(v)
  PROVE  /\ IsFiniteSet(T)
         /\ Cardinality({i \in DOMAIN a : a[i].key \in T}) = Cardinality(T)
<1> DEFINE I == {i \in DOMAIN a : a[i].key \in T}
           f == [i \in I |-> a[i].key]
<1>1. IsFiniteSet(I)
  <2>1. IsFiniteSet(1 .. Len(a))
    BY FS_Interval DEF RowsAre
  <2>2. I \in SUBSET (1 .. Len(a))
    BY DEF RowsAre
  <2>. QED
    BY <2>1, <2>2, FS_Subset
<1>2. f \in [I -> T] /\ \A i, j \in I : f[i] = f[j] => i = j
  BY DEF RowsAre
<1>3. \A k \in T : \E i \in I : f[i] = k
  BY DEF RowsAre
<1>. HIDE DEF I, f
<1>4. f \in Surjection(I, T) /\ f \in Injection(I, T)
  BY <1>2, <1>3 DEF Surjection, Injection, IsInjective
<1>5. IsFiniteSet(T) /\ Cardinality(T) = Cardinality(I)
  BY <1>1, <1>4, FS_Surjection
<1>. QED
  BY <1>5 DEF I

LEMMA RowsBeside ==
  ASSUME NEW w \in Readings, NEW b, RowsAre(b, w)
  PROVE  \A k : /\ With(b, k) # {} <=> k \in Graded(w)
                /\ \A row : row.key = k /\ k \in Graded(w) => Beside(b, row) = RowAt(w, k)
<1>1. ASSUME NEW k PROVE With(b, k) # {} <=> k \in Graded(w)
  BY DEF With, RowsAre
<1>2. ASSUME NEW k, NEW row, row.key = k, k \in Graded(w)
      PROVE  Beside(b, row) = RowAt(w, k)
  <2>1. PICK i \in DOMAIN b : b[i].key = k
    BY <1>2 DEF RowsAre
  <2>2. With(b, row.key) = {i}
    BY <1>2, <2>1 DEF With, RowsAre
  <2>3. i \in Nat
    BY DEF RowsAre
  <2>4. (CHOOSE j \in With(b, row.key) : \A l \in With(b, row.key) : l <= j) = i
    BY <2>2, <2>3
  <2>5. Beside(b, row) = b[i]
    BY <2>4 DEF Beside
  <2>. QED
    BY <2>1, <2>5 DEF RowsAre
<1>. QED
  BY <1>1, <1>2

\* Comparing the rows of two readings counts the questions both answered and
\* those only one did, where they agree and where each is right: whatever the
\* cases, the questions without a gold label and the calls that failed.
THEOREM CompareCountsRight ==
  ASSUME NEW v \in Readings, NEW w \in Readings
  PROVE  Compare(RowsOf(v), RowsOf(w)) = Compared(v, w)
<1>1. PICK a, b : a = RowsOf(v) /\ b = RowsOf(w)
  OBVIOUS
<1>2. RowsAre(a, v) /\ RowsAre(b, w)
  BY <1>1, RowsOfReading
<1> DEFINE both == Graded(v) \cap Graded(w)
           pairs == {i \in DOMAIN a : With(b, a[i].key) # {}}
<1>3. pairs = {i \in DOMAIN a : a[i].key \in both}
  <2>1. \A k : With(b, k) # {} <=> k \in Graded(w)
    BY <1>2, RowsBeside
  <2>. QED
    BY <1>2, <2>1 DEF RowsAre
<1>4. ASSUME NEW T \in SUBSET Graded(v)
      PROVE  /\ IsFiniteSet(T)
             /\ Cardinality({i \in DOMAIN a : a[i].key \in T}) = Cardinality(T)
  BY <1>2, RowsCounted
<1>5. IsFiniteSet(both) /\ Cardinality(pairs) = Cardinality(both)
  BY <1>3, <1>4
<1>6. /\ IsFiniteSet(Graded(v)) /\ Len(a) = Cardinality(Graded(v))
      /\ IsFiniteSet(Graded(w)) /\ Len(b) = Cardinality(Graded(w))
  <2>1. ASSUME NEW x \in Readings, NEW s, RowsAre(s, x)
        PROVE  IsFiniteSet(Graded(x)) /\ Len(s) = Cardinality(Graded(x))
    <3>1. {i \in DOMAIN s : s[i].key \in Graded(x)} = 1 .. Len(s)
      BY <2>1 DEF RowsAre
    <3>2. /\ IsFiniteSet(Graded(x))
          /\ Cardinality({i \in DOMAIN s : s[i].key \in Graded(x)}) = Cardinality(Graded(x))
      BY <2>1, RowsCounted
    <3>3. Len(s) \in Nat /\ Cardinality(1 .. Len(s)) = Len(s)
      BY <2>1, FS_Interval DEF RowsAre
    <3>. QED
      BY <3>1, <3>2, <3>3
  <2>. QED
    BY <1>2, <2>1
<1>7. /\ Len(a) - Cardinality(pairs) = Cardinality(Graded(v) \ Graded(w))
      /\ Len(b) - Cardinality(pairs) = Cardinality(Graded(w) \ Graded(v))
  <2>1. Cardinality(Graded(v) \ Graded(w)) = Cardinality(Graded(v)) - Cardinality(both)
    BY <1>6, FS_Difference
  <2>2. Graded(w) \cap Graded(v) = both
    OBVIOUS
  <2>3. Cardinality(Graded(w) \ Graded(v)) = Cardinality(Graded(w)) - Cardinality(both)
    BY <1>6, <2>2, FS_Difference
  <2>. QED
    BY <1>5, <1>6, <2>1, <2>3
<1>8. \A i \in pairs : /\ a[i].key \in both
                       /\ a[i].top = Top(v, a[i].key) /\ a[i].gold = GoldOf(a[i].key)
                       /\ Beside(b, a[i]).top = Top(w, a[i].key)
                       /\ Beside(b, a[i]).gold = GoldOf(a[i].key)
  <2>1. \A k, row : row.key = k /\ k \in Graded(w) => Beside(b, row) = RowAt(w, k)
    BY <1>2, RowsBeside
  <2>2. ASSUME NEW i \in pairs
        PROVE  /\ i \in DOMAIN a /\ a[i].key \in both
               /\ a[i] = RowAt(v, a[i].key)
               /\ Beside(b, a[i]) = RowAt(w, a[i].key)
    <3>1. i \in DOMAIN a /\ a[i].key \in both
      BY <1>3
    <3>2. Beside(b, a[i]) = RowAt(w, a[i].key)
      BY <2>1, <3>1
    <3>. QED
      BY <1>2, <3>1, <3>2 DEF RowsAre
  <2>3. \A x, k : RowAt(x, k).top = Top(x, k) /\ RowAt(x, k).gold = GoldOf(k)
    BY DEF RowAt, Row, GoldOf
  <2>. QED
    BY <2>2, <2>3
<1>. HIDE DEF pairs
<1>9. /\ Cardinality({i \in pairs : a[i].top = Beside(b, a[i]).top})
            = Cardinality({k \in both : Top(v, k) = Top(w, k)})
      /\ Cardinality({i \in pairs : a[i].top = a[i].gold})
            = Cardinality({k \in both : Top(v, k) = GoldOf(k)})
      /\ Cardinality({i \in pairs : Beside(b, a[i]).top = Beside(b, a[i]).gold})
            = Cardinality({k \in both : Top(w, k) = GoldOf(k)})
  <2>1. {i \in pairs : a[i].top = Beside(b, a[i]).top}
            = {i \in DOMAIN a : a[i].key \in {k \in both : Top(v, k) = Top(w, k)}}
    BY <1>3, <1>8
  <2>2. {i \in pairs : a[i].top = a[i].gold}
            = {i \in DOMAIN a : a[i].key \in {k \in both : Top(v, k) = GoldOf(k)}}
    BY <1>3, <1>8
  <2>3. {i \in pairs : Beside(b, a[i]).top = Beside(b, a[i]).gold}
            = {i \in DOMAIN a : a[i].key \in {k \in both : Top(w, k) = GoldOf(k)}}
    BY <1>3, <1>8
  <2>4. /\ {k \in both : Top(v, k) = Top(w, k)} \in SUBSET Graded(v)
        /\ {k \in both : Top(v, k) = GoldOf(k)} \in SUBSET Graded(v)
        /\ {k \in both : Top(w, k) = GoldOf(k)} \in SUBSET Graded(v)
    OBVIOUS
  <2>. QED
    BY <1>4, <2>1, <2>2, <2>3, <2>4
<1>10. Compare(a, b) = Compared(v, w)
  <2>1. Compare(a, b) =
           [matched     |-> Cardinality(pairs),
            only_in_a   |-> Len(a) - Cardinality(pairs),
            only_in_b   |-> Len(b) - Cardinality(pairs),
            same_argmax |-> Cardinality({i \in pairs : a[i].top = Beside(b, a[i]).top}),
            accurate_a  |-> Cardinality({i \in pairs : a[i].top = a[i].gold}),
            accurate_b  |-> Cardinality(
               {i \in pairs : Beside(b, a[i]).top = Beside(b, a[i]).gold})]
    BY Zenon DEF Compare, pairs
  <2>2. Compared(v, w) =
           [matched     |-> Cardinality(both),
            only_in_a   |-> Cardinality(Graded(v) \ Graded(w)),
            only_in_b   |-> Cardinality(Graded(w) \ Graded(v)),
            same_argmax |-> Cardinality({k \in both : Top(v, k) = Top(w, k)}),
            accurate_a  |-> Cardinality({k \in both : Top(v, k) = GoldOf(k)}),
            accurate_b  |-> Cardinality({k \in both : Top(w, k) = GoldOf(k)})]
    BY Zenon DEF Compared
  <2>. QED
    BY <1>5, <1>7, <1>9, <2>1, <2>2, Zenon
<1>. QED
  BY <1>1, <1>10

\* A report counts what the two sides answered, alike and right, in this run.
THEOREM ReportsAreOfThisRun == Spec => []ReportsThisRun
<1>1. FromThisRun => ReportsThisRun
  <2>. SUFFICES ASSUME FromThisRun, pc = "record", report # None
                PROVE  LET of == Script(Current)[Len(Script(Current))].of
                       IN  report = Compared(read[of[1]], read[of[2]])
    BY DEF FromThisRun, ReportsThisRun
  <2> DEFINE of == Script(Current)[Len(Script(Current))].of
  <2>1. /\ read[of[1]] \in Readings /\ read[of[2]] \in Readings
        /\ report = Compare(RowsOf(read[of[1]]), RowsOf(read[of[2]]))
    BY DEF FromThisRun
  <2>. QED
    BY <2>1, CompareCountsRight
<1>. QED
  BY <1>1, OnlyThisRunsRows, PTL
==============================================================================
