----------------------------- MODULE CardsProofs -----------------------------
(***************************************************************************)
(* For any processes and any cards: whatever is refused, killed, reused as *)
(* a process id or started by hand, one process at a time has the cards,   *)
(* the lock's file says of a holder that has written it only what that     *)
(* holder wrote, and subjects run on the workers they asked for (Cards).   *)
(*                                                                         *)
(* The argument: the flock is a process's exactly while it is past         *)
(* take_cards or in the probe of `holder` (the last part of TypeOK), so    *)
(* between the write of a holder and its end nobody else writes the file   *)
(* (NamesHolder is inductive with TypeOK).                                 *)
(***************************************************************************)
EXTENDS Cards, DataLemmas

Inv == TypeOK /\ NamesHolder

------------------------------------------------------------------------------
(* Types of the helpers.                                                   *)

\* The configuration a site asks for is one of the two.
LEMMA WantedType == \A s \in Sites, c \in Cards : Wanted(s, c) \in Configs
  BY DEF Wanted, Configs

\* The next card of a process with cards left to do is one of the host's.
LEMMA CardType ==
  ASSUME TypeOK, NEW p \in Procs, todo[p] # {}
  PROVE  Card(p) \in Cards
<1>1. todo[p] \in SUBSET Cards
  BY DEF TypeOK
<1>2. todo[p] \subseteq Nat
  BY <1>1, CardsAssumption
<1>3. QED
  BY <1>1, <1>2, MinOfNaturals DEF Card

------------------------------------------------------------------------------
(* The invariant.                                                          *)

LEMMA InitInv == Init => Inv
<1>. SUFFICES ASSUME Init PROVE Inv
  OBVIOUS
<1>1. NamesHolder
  BY DEF Init, NamesHolder, Holding
<1>2. \A p \in Procs : lock = p <=> Holding(p) \/ pc[p] = "probing"
  BY CardsAssumption DEF Init, Holding
<1>3. QED
  BY <1>1, <1>2, CardsAssumption DEF Init, Inv, TypeOK, Workers, Markers, Configs, Stages,
     AllCommands, Sites

\* What the end of a process leaves of the others.
LEMMA ExitLeaves ==
  ASSUME Inv, NEW p \in Procs, Exit(p)
  PROVE  /\ lock' = IF lock = p THEN Free ELSE lock
         /\ pc' = [pc EXCEPT ![p] = "new"] /\ cmd' = [cmd EXCEPT ![p] = "ask"]
         /\ site' = [site EXCEPT ![p] = "cards"] /\ used' = [used EXCEPT ![p] = {}]
         /\ todo' = [todo EXCEPT ![p] = {}]
  BY DEF Exit, EndOf, Goto, Inv, TypeOK

\* Who ends, whatever it was doing, keeps the invariant.
LEMMA ExitInv ==
  ASSUME Inv, NEW p \in Procs, Exit(p), UNCHANGED <<text, marker, given>>,
         worker' \in [Cards -> Workers]
  PROVE  Inv'
<1>1. NamesHolder'
  BY ExitLeaves DEF Inv, TypeOK, NamesHolder, Holding
<1>2. \A q \in Procs : lock' = q <=> Holding(q)' \/ pc'[q] = "probing"
  BY ExitLeaves, CardsAssumption DEF Inv, TypeOK, Holding
<1>3. QED
  BY <1>1, <1>2, ExitLeaves, CardsAssumption DEF Inv, TypeOK, Stages, AllCommands, Sites

\* The same for the server that `stop` ends, and for nobody.
LEMMA EndOfType ==
  ASSUME Inv, NEW ps \in SUBSET Procs, EndOf(ps)
  PROVE  /\ site' \in [Procs -> Sites] /\ used' \in [Procs -> SUBSET Cards]
         /\ todo' \in [Procs -> SUBSET Cards]
  BY DEF EndOf, Inv, TypeOK, Sites

\* `stop`, the end of a probe, and a worker that does not start keep it.
LEMMA StopInv ==
  ASSUME Inv, NEW p \in Procs, Stop(p)
  PROVE  Inv'
<1>1. PICK ended \in SUBSET {q \in Procs \ {p} : cmd[q] = "use"} :
         /\ pc' = [q \in Procs |-> CASE q = p -> "workers"
                                     [] q \in ended -> "new"
                                     [] OTHER -> pc[q]]
         /\ cmd' = [q \in Procs |-> CASE q = p -> "stop"
                                      [] q \in ended -> "ask"
                                      [] OTHER -> cmd[q]]
         /\ EndOf(ended)
  BY Zenon DEF Stop
<1>2. ended \in SUBSET Procs /\ pc[p] = "new" /\ UNCHANGED <<text, worker, marker>>
      /\ given' \in BOOLEAN
  BY DEF Stop
<1>3. pc' \in [Procs -> Stages] /\ cmd' \in [Procs -> AllCommands]
  BY <1>1 DEF AllCommands, Stages, Inv, TypeOK
<1>4. lock' = IF lock \in ended THEN Free ELSE lock
  BY <1>1 DEF EndOf
<1>5. \A q \in Procs : pc'[q] = IF q = p THEN "workers" ELSE
                                 IF q \in ended THEN "new" ELSE pc[q]
  <2>1. pc' = [q \in Procs |-> CASE q = p -> "workers"
                                  [] q \in ended -> "new"
                                  [] OTHER -> pc[q]]
    BY <1>1
  <2>2. p \notin ended
    OBVIOUS
  <2>3. QED
    BY <2>1, <2>2
<1>6. TypeOK'
  <2>1. \A q \in Procs : lock' = q <=> Holding(q)' \/ pc'[q] = "probing"
    BY <1>2, <1>4, <1>5, CardsAssumption DEF Inv, TypeOK, Holding
  <2>2. lock' \in Procs \cup {Free} /\ UNCHANGED <<text, worker, marker>>
    BY <1>2, <1>4 DEF Inv, TypeOK
  <2>3. /\ site' \in [Procs -> Sites] /\ used' \in [Procs -> SUBSET Cards]
        /\ todo' \in [Procs -> SUBSET Cards]
    BY <1>1, <1>2, EndOfType
  <2>4. QED
    BY <1>2, <1>3, <2>1, <2>2, <2>3 DEF Inv, TypeOK
<1>7. NamesHolder'
  BY <1>2, <1>5 DEF Inv, NamesHolder, Holding
<1>8. QED
  BY <1>6, <1>7 DEF Inv

LEMMA ProbeFreeInv ==
  ASSUME Inv, NEW p \in Procs, ProbeFree(p)
  PROVE  Inv'
<1>1. CASE cmd[p] \in {"stop", "release"}
  <2>1. PICK up \in SUBSET Cards :
           todo' = [todo EXCEPT ![p] = IF cmd[p] = "release" THEN up ELSE @]
    BY <1>1 DEF ProbeFree
  <2>2. /\ pc[p] = "probing" /\ lock' = Free /\ pc' = [pc EXCEPT ![p] = "release"]
        /\ cmd' = [cmd EXCEPT ![p] = "release"]
        /\ UNCHANGED <<text, worker, marker, site, used, given>>
    BY <1>1 DEF ProbeFree, Goto
  <2>3. todo' \in [Procs -> SUBSET Cards]
    BY <2>1 DEF Inv, TypeOK
  <2>4. QED
    BY <2>2, <2>3, CardsAssumption
       DEF Inv, TypeOK, NamesHolder, Holding, Stages, AllCommands
<1>2. CASE cmd[p] \notin {"stop", "release"}
  <2>1. Exit(p) /\ UNCHANGED <<text, marker, given>>
    BY <1>2 DEF ProbeFree
  <2>2. worker' \in [Cards -> Workers]
    BY <1>2 DEF ProbeFree, Inv, TypeOK
  <2>3. QED
    BY <2>1, <2>2, ExitInv
<1>3. QED
  BY <1>1, <1>2

LEMMA StartFailsInv ==
  ASSUME Inv, NEW p \in Procs, StartFails(p)
  PROVE  Inv'
<1>1. worker' \in [Cards -> Workers]
  BY CardType DEF StartFails, Workers, Inv, TypeOK
<1>2. QED
  BY <1>1, ExitInv DEF StartFails

\* So does every other step of a process, and a worker started by hand.
LEMMA NextInv == Inv /\ [Next]_vars => Inv'
<1>. SUFFICES ASSUME Inv, [Next]_vars PROVE Inv'
  OBVIOUS
<1>. USE CardsAssumption DEF Inv, TypeOK, NamesHolder, Stages, Holding, task
<1>1. ASSUME NEW p \in Procs, NEW c \in AllCommands, BeginProbe(p, c) PROVE Inv'
  <2>1. given' \in BOOLEAN
    BY <1>1, Zenon DEF BeginProbe
  <2>2. QED
    BY <1>1, <2>1 DEF BeginProbe, Goto
<1>2. ASSUME NEW p \in Procs, BeginUse(p) PROVE Inv'
  BY <1>2 DEF BeginUse, Goto, AllCommands
<1>3. ASSUME NEW p \in Procs, Probe(p) PROVE Inv'
  BY <1>3 DEF Probe, Goto
<1>4. ASSUME NEW p \in Procs, Take(p) \/ TakeRefused(p) PROVE Inv'
  <2>1. CASE Take(p)
    <3>1. PICK s \in Sites, up \in SUBSET Cards :
             /\ site' = [site EXCEPT ![p] = s] /\ used' = [used EXCEPT ![p] = up]
             /\ todo' = [todo EXCEPT ![p] = up]
      BY <2>1 DEF Take
    <3>2. QED
      BY <2>1, <3>1 DEF Take, Goto
  <2>2. CASE TakeRefused(p)
    BY <2>2 DEF TakeRefused, Goto, AllCommands
  <2>3. QED
    BY <1>4, <2>1, <2>2
<1>5. ASSUME NEW p \in Procs, WriteText(p) PROVE Inv'
  BY <1>5 DEF WriteText, Goto
<1>6. ASSUME NEW p \in Procs, Keep(p) \/ Ready(p) PROVE Inv'
  BY <1>6 DEF Keep, Ready, Goto
<1>7. ASSUME NEW p \in Procs, Start(p) PROVE Inv'
  BY <1>7, CardType, WantedType DEF Start, Goto, Workers
<1>8. ASSUME NEW p \in Procs, Mark(p) PROVE Inv'
  <2>1. marker' \in [Cards -> Markers]
    <3>1. PICK m \in {Wanted(site[p], Card(p)), marker[Card(p)], Torn} :
             marker' = [marker EXCEPT ![Card(p)] = m]
      BY <1>8, Zenon DEF Mark
    <3>2. m \in Markers \/ Card(p) \notin Cards
      BY WantedType DEF Markers
    <3>3. QED
      BY <3>1, <3>2
  <2>2. QED
    BY <1>8, <2>1 DEF Mark, Goto
<1>9. ASSUME NEW p \in Procs, Retire(p) PROVE Inv'
  BY <1>9 DEF Retire, Marked, Goto, Sites
<1>10. ASSUME NEW p \in Procs, ReleaseCard(p) PROVE Inv'
  BY <1>10, ZenonT(40) DEF ReleaseCard, Goto, Workers
<1>11. ASSUME NEW p \in Procs, Unmark(p) PROVE Inv'
  BY <1>11, ZenonT(40) DEF Unmark, Goto, Markers
<1>12. ASSUME NEW p \in Procs, EndRelease(p) \/ Die(p) \/ ProbeHeld(p) PROVE Inv'
  BY <1>12, ExitInv DEF EndRelease, Die, ProbeHeld
<1>13. ASSUME NEW c \in Cards, Foreign(c) PROVE Inv'
  BY <1>13 DEF Foreign, Workers
<1>14. ASSUME NEW p \in Procs, ReadWorkers(p) PROVE Inv'
  BY <1>14 DEF ReadWorkers, Marked, Goto
<1>15. CASE UNCHANGED vars
  BY <1>15 DEF vars
<1>16. QED
  BY <1>1, <1>2, <1>3, <1>4, <1>5, <1>6, <1>7, <1>8, <1>9, <1>10, <1>11, <1>12, <1>13,
     <1>14, <1>15, StopInv, ProbeFreeInv, StartFailsInv DEF Next, Step

\* Inv holds in every reachable state.
THEOREM Invariance == Spec => []Inv
<1>. QED
  BY InitInv, NextInv, PTL DEF Spec

\* The types hold, and a process has the flock exactly while it holds the
\* cards or asks who does.
THEOREM TypeCorrect == Spec => []TypeOK
<1>1. Inv => TypeOK
  BY DEF Inv
<1>. QED
  BY <1>1, Invariance, PTL

\* One process at a time has the cards.
THEOREM CardsExclusive == Spec => []Exclusive
<1>1. Inv => Exclusive
  BY DEF Inv, TypeOK, Exclusive
<1>. QED
  BY <1>1, Invariance, PTL

\* Once a holder has written the lock's file, a refusal names it or nobody,
\* whoever has the pid an earlier holder left there, and the address is its own.
THEOREM HolderNamed == Spec => []NamesHolder
<1>1. Inv => NamesHolder
  BY DEF Inv
<1>. QED
  BY <1>1, Invariance, PTL

------------------------------------------------------------------------------
(* A subject runs on the workers it asked for, as long as nobody gives     *)
(* cards back: `stop` and `release` look at the lock before they stop a    *)
(* worker, not while (the CardsRace run).                                  *)

\* Only the two commands stop workers without the cards.
Commanded ==
    \A p \in Procs :
        cmd[p] \in {"stop", "release"} \/ pc[p] \in {"workers", "release", "unmark"} => given

\* The worker of card c is the one process p asked for.
Works(p, c) == worker[c] = Wanted(site[p], c)

\* The cards of a holder that it has ensured, or has just started.
Ensured ==
    \A p \in Procs :
        /\ pc[p] = "write" => todo[p] = used[p]
        /\ pc[p] \in {"ensure", "mark", "running"} =>
               \A c \in used[p] \ todo[p] : Works(p, c)
        /\ pc[p] = "mark" => Works(p, Card(p))
        /\ pc[p] = "running" => todo[p] = {}

UseInv == Commanded /\ (Undisturbed => Ensured)

LEMMA InitUse == Init => UseInv
  BY DEF Init, UseInv, Commanded, Ensured

\* Once `stop` or `release` was run, it was.
LEMMA NextCommanded ==
  ASSUME Inv, Commanded, [Next]_vars
  PROVE  Commanded' /\ (Undisturbed' => Undisturbed)
<1>. USE DEF Inv, TypeOK, Commanded, Undisturbed, task
<1>1. ASSUME NEW p \in Procs, NEW c \in AllCommands, BeginProbe(p, c)
      PROVE  Commanded' /\ (given => given')
  BY <1>1 DEF BeginProbe, Goto
<1>2. ASSUME NEW p \in Procs, BeginUse(p)
      PROVE  Commanded' /\ (given => given')
  BY <1>2 DEF BeginUse, Goto
<1>3. ASSUME NEW p \in Procs, Stop(p)
      PROVE  Commanded' /\ (given => given')
  BY <1>3 DEF Stop
<1>4. ASSUME NEW p \in Procs, ProbeFree(p)
      PROVE  Commanded' /\ (given => given')
  <2>1. CASE cmd[p] \in {"stop", "release"}
    BY <1>4, <2>1 DEF ProbeFree, Goto
  <2>2. CASE cmd[p] \notin {"stop", "release"}
    BY <1>4, <2>2, ExitLeaves DEF ProbeFree
  <2>3. QED
    BY <2>1, <2>2
<1>5. ASSUME NEW p \in Procs, Probe(p) \/ Take(p) \/ TakeRefused(p) \/ WriteText(p)
      PROVE  Commanded' /\ (given => given')
  BY <1>5 DEF Probe, Take, TakeRefused, WriteText, Goto
<1>6. ASSUME NEW p \in Procs, Keep(p) \/ Start(p) \/ Mark(p) \/ Ready(p)
      PROVE  Commanded' /\ (given => given')
  BY <1>6 DEF Keep, Start, Mark, Ready, Goto
<1>7. ASSUME NEW p \in Procs, Retire(p) \/ ReadWorkers(p) \/ ReleaseCard(p) \/ Unmark(p)
      PROVE  Commanded' /\ (given => given')
  BY <1>7 DEF Retire, ReadWorkers, ReleaseCard, Unmark, Goto
<1>8. ASSUME NEW p \in Procs, ProbeHeld(p) \/ StartFails(p) \/ EndRelease(p) \/ Die(p)
      PROVE  Commanded' /\ (given => given')
  BY <1>8, ExitLeaves DEF ProbeHeld, StartFails, EndRelease, Die
<1>9. ASSUME NEW c \in Cards, Foreign(c)
      PROVE  Commanded' /\ (given => given')
  BY <1>9 DEF Foreign
<1>10. CASE UNCHANGED vars
  BY <1>10 DEF vars
<1>11. QED
  BY <1>1, <1>2, <1>3, <1>4, <1>5, <1>6, <1>7, <1>8, <1>9, <1>10 DEF Next, Step

LEMMA NextEnsured ==
  ASSUME Inv, Commanded, Undisturbed, Undisturbed', Ensured, [Next]_vars
  PROVE  Ensured'
<1>. USE DEF Inv, TypeOK, Holding, Commanded, Undisturbed, Ensured, task, Works, Card
<1>1. ASSUME NEW p \in Procs, NEW c \in AllCommands, BeginProbe(p, c) PROVE Ensured'
  BY <1>1 DEF BeginProbe, Goto
<1>2. ASSUME NEW p \in Procs, BeginUse(p) PROVE Ensured'
  BY <1>2 DEF BeginUse, Goto
<1>3. ASSUME NEW p \in Procs, Stop(p) PROVE Ensured'
  BY <1>3 DEF Stop
<1>4. ASSUME NEW p \in Procs, Probe(p) PROVE Ensured'
  BY <1>4 DEF Probe, Goto
<1>5. ASSUME NEW p \in Procs, ProbeFree(p) PROVE Ensured'
  BY <1>5, ExitLeaves DEF ProbeFree, Goto
<1>6. ASSUME NEW p \in Procs, Take(p) \/ TakeRefused(p) PROVE Ensured'
  BY <1>6 DEF Take, TakeRefused, Goto
<1>7. ASSUME NEW p \in Procs, WriteText(p) PROVE Ensured'
  BY <1>7 DEF WriteText, Goto
<1>8. ASSUME NEW p \in Procs, Keep(p) PROVE Ensured'
  BY <1>8 DEF Keep, Agrees
<1>9. ASSUME NEW p \in Procs, Ready(p) PROVE Ensured'
  BY <1>9 DEF Ready, Goto
<1>10. ASSUME NEW p \in Procs, Start(p) PROVE Ensured'
  BY <1>10, CardType DEF Start, Goto
<1>11. ASSUME NEW p \in Procs, StartFails(p) PROVE Ensured'
  BY <1>11, CardType, ExitLeaves DEF StartFails
<1>12. ASSUME NEW p \in Procs, Mark(p) PROVE Ensured'
  BY <1>12 DEF Mark, Goto
<1>13. ASSUME NEW p \in Procs, Retire(p) \/ ReadWorkers(p) PROVE Ensured'
  BY <1>13 DEF Retire, ReadWorkers, Goto
<1>14. ASSUME NEW p \in Procs, ReleaseCard(p) PROVE Ensured'
  BY <1>14, CardType DEF ReleaseCard, Goto
<1>15. ASSUME NEW p \in Procs, Unmark(p) PROVE Ensured'
  BY <1>15 DEF Unmark, Goto
<1>16. ASSUME NEW p \in Procs, ProbeHeld(p) \/ EndRelease(p) \/ Die(p) PROVE Ensured'
  BY <1>16, ExitLeaves DEF ProbeHeld, EndRelease, Die
<1>17. ASSUME NEW c \in Cards, Foreign(c) PROVE Ensured'
  BY <1>17, CardsAssumption DEF Foreign
<1>18. CASE UNCHANGED vars
  BY <1>18 DEF vars
<1>19. QED
  BY <1>1, <1>2, <1>3, <1>4, <1>5, <1>6, <1>7, <1>8, <1>9, <1>10, <1>11, <1>12, <1>13,
     <1>14, <1>15, <1>16, <1>17, <1>18 DEF Next, Step

\* As long as nobody has given cards back, every subject runs on the workers
\* it asked for, whatever other tools, failed starts and dead holders left.
THEOREM SubjectsRunAsAsked == Spec => []RunsUnlessReleased
<1>1. Inv /\ UseInv /\ [Next]_vars => UseInv'
  BY NextCommanded, NextEnsured DEF UseInv
<1>2. Spec => []UseInv
  BY InitUse, Invariance, <1>1, PTL DEF Spec
<1>3. UseInv => RunsUnlessReleased
  BY DEF UseInv, RunsUnlessReleased, RunsAsAsked, Ensured, Works
<1>4. QED
  BY <1>2, <1>3, PTL
==============================================================================
