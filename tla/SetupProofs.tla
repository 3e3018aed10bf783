----------------------------- MODULE SetupProofs -----------------------------
(***************************************************************************)
(* For any host, any doctors and any queries (Setup): what is judged is    *)
(* what was asked, through every process and file it went; the link the    *)
(* doctors fight over is one of theirs in the end, a file never lost; what *)
(* `xks doctor` calls ready a query finds in place, and what it misses no  *)
(* query does without.                                                     *)
(*                                                                         *)
(* The argument for the doctor: until the host changes, a report says of   *)
(* each piece what the host is (Sees), and a query begun after it is where *)
(* those pieces let it be (Follows), the two having read one               *)
(* configuration.                                                          *)
(***************************************************************************)
EXTENDS Setup, DataLemmas, SequenceTheorems, TLAPS

------------------------------------------------------------------------------
(* The query.  HandedOver follows the request: it is with the process once *)
(* it has read it, and in the file from the outer process's reading to the *)
(* inner one's.  `inner` and the avx512 site go with XKS_SITE, since what  *)
(* exec hands down outranks every file.                                    *)

HasRead == {"ask", "subject", "resolve", "prepare", "take", "payload", "load"}

HandedOver ==
    /\ inner \/ site = "avx512" => Requested(env) = "avx512"
    /\ stage \in HasRead \ {"ask"} => ~routed
    /\ stage \in {"none", "route", "read"} => reads = NoRequest
    /\ stage \in HasRead => reads = asked.request
    /\ {reads, judged} \subseteq {NoRequest, asked.request}
    /\ inner /\ asked.stdin =>
          IF stage \in {"route", "read"} THEN left = asked.request
          ELSE reads # NoRequest => left = NoRequest
    /\ Reexecs /\ asked.stdin /\ stage \in {"subject", "resolve", "prepare"} =>
          left = asked.request

LEMMA HandedOverInit == Init => HandedOver
  BY DEF Init, QueryInit, HandedOver, HasRead, Reexecs

\* Only a site asked for by name is the avx512 site.
LEMMA AskedByName == \A e : Resolve(e) = "avx512" => Requested(e) = "avx512"
  BY DEF Resolve

LEMMA HandedOverNext == HandedOver /\ [Next]_setupVars => HandedOver'
<1>. SUFFICES ASSUME HandedOver, [Next]_setupVars PROVE HandedOver'
  OBVIOUS
<1>. USE DEF HandedOver, HasRead, Reexecs, Requested
<1>1. ASSUME UNCHANGED queryVars PROVE HandedOver'
  BY <1>1 DEF queryVars, process
<1>2. ASSUME NEW o, stage # "none", End(o), UNCHANGED <<process, left>>, judged' \in {judged, reads}
      PROVE  HandedOver'
  BY <1>2 DEF End, process
<1>3. ASSUME NEW why, stage # "none", Refuse(why) PROVE HandedOver'
  BY <1>2, <1>3 DEF Refuse
<1>4. ASSUME NEW c \in CommandLines, Begin(c) PROVE HandedOver'
  BY <1>4 DEF Begin
<1>5. ASSUME Route PROVE HandedOver'
  BY <1>3, <1>5 DEF Route, hostVars
<1>6. ASSUME ReadRequest PROVE HandedOver'
  BY <1>6 DEF ReadRequest, Written, hostVars
<1>7. ASSUME Unreadable \/ Breaks \/ Killed PROVE HandedOver'
  <2>1. CASE Unreadable
    BY <2>1 DEF Unreadable, End, process
  <2>2. CASE Breaks \/ Killed
    BY <1>3, <2>2 DEF Breaks, Killed
  <2>3. QED
    BY <1>7, <2>1, <2>2
<1>8. ASSUME AskServer PROVE HandedOver'
  BY <1>2, <1>3, <1>8 DEF AskServer, Judge
<1>9. ASSUME CheckSubject PROVE HandedOver'
  BY <1>3, <1>9 DEF CheckSubject, Go
<1>10. ASSUME ResolveSite PROVE HandedOver'
  <2>1. CASE Resolve(env) = "none"
    BY <1>3, <1>10, <2>1 DEF ResolveSite
  <2>2. CASE Resolve(env) # "none"
    BY <1>10, <2>2, AskedByName DEF ResolveSite, Go
  <2>3. QED
    BY <2>1, <2>2
<1>11. ASSUME PrepareX86 \/ FindCards \/ PutWorkers PROVE HandedOver'
  BY <1>3, <1>11 DEF PrepareX86, FindCards, PutWorkers, On, Go
<1>12. ASSUME Exec PROVE HandedOver'
  <2>1. stage = "prepare" /\ site = "avx512" /\ ~inner /\ env # Unset
    BY <1>12 DEF Exec, On, Unset
  <2>2. Load(env) = env
    BY <2>1 DEF Load
  <2>3. QED
    BY <1>3, <1>12, <2>1, <2>2 DEF Exec
<1>13. ASSUME TakeCards PROVE HandedOver'
  BY <1>3, <1>13 DEF TakeCards, process
<1>14. ASSUME Answer PROVE HandedOver'
  BY <1>2, <1>14 DEF Answer, Judge
<1>15. QED
  BY <1>1, <1>4, <1>5, <1>6, <1>7, <1>8, <1>9, <1>10, <1>11, <1>12, <1>13, <1>14
     DEF Next, QueryNext, setupVars

\* What is judged is what was asked; the file a request was left in is gone
\* once it is read; and the process under phi512 is on the avx512 site.
THEOREM RequestsHandedOver == Spec => []RequestHandedOver
<1>1. HandedOver => RequestHandedOver
  BY DEF HandedOver, RequestHandedOver, HasRead
<1>. QED
  BY <1>1, HandedOverInit, HandedOverNext, PTL DEF Spec

------------------------------------------------------------------------------
(* The link.  A file, once there, is seen by every doctor that looks and   *)
(* removed by none.  Otherwise, as soon as one doctor has reported its     *)
(* link in place, the link is a placed one's, or it was removed by one     *)
(* that has yet to make its own; a doctor that saw its own link there may  *)
(* find, by the time it says so, that another is at it.                    *)

Steps == {"idle", "found", "look", "place", "symlink", "configuration", "windows", "site",
          "sibling", "pieces", "done"}
Findings == {"config", "subject", "site", "AVX-512", "payload", "stack", "cards",
             "avx512 site"}
Runs == [at : Steps, fix : BOOLEAN, saw : Elsewhere \cup Doctors, placed : BOOLEAN,
         env : Named \cup {Unset}, cards : SUBSET Cards, missing : SUBSET Findings,
         since : Nat]

Typed ==
    /\ host \in Hosts /\ changes \in Nat
    /\ link \in Elsewhere \cup Doctors
    /\ DOMAIN doctor \subseteq Doctors
    /\ doctor \in [DOMAIN doctor -> Runs]

Placed == {d \in DOMAIN doctor : doctor[d].placed}
InHand == link \in Placed \/ (link = "absent" /\ \E d \in DOMAIN doctor : At(d, "symlink"))

LinkOf(d) ==
    /\ At(d, "idle") => ~doctor[d].placed
    /\ doctor[d].saw = "file" => link = "file"
    /\ link = "file" => ~At(d, "symlink") /\ (At(d, "place") => doctor[d].saw = "file")
    /\ At(d, "place") /\ doctor[d].saw = d => link = d \/ InHand

LinkInv ==
    /\ \A d \in DOMAIN doctor : LinkOf(d)
    /\ Placed # {} => InHand

LEMMA LoadType ==
  ASSUME Typed, NEW e \in Named \cup {Unset}
  PROVE  Load(e) \in Named \cup {Unset}
<1> DEFINE set == {i \in DOMAIN host.files : host.files[i] # Unset}
<1>1. host.files \in Seq(Named \cup {Unset})
  BY DEF Typed, Hosts
<1>2. set \subseteq Nat
  BY <1>1
<1>3. set # {} => Min(set) \in set
  <2>. HIDE DEF set
  <2>. QED
    BY <1>2, MinOfNaturals
<1>4. \A i \in set : host.files[i] \in Named \cup {Unset}
  BY <1>1
<1>5. Load(e) = IF e # Unset \/ set = {} THEN e ELSE host.files[Min(set)]
  BY DEF Load
<1>6. QED
  BY <1>3, <1>4, <1>5

LEMMA TypedInit == Init => Typed
<1>. SUFFICES ASSUME Init PROVE Typed
  OBVIOUS
<1>1. host \in Hosts /\ changes \in Nat
  BY HostAssumption DEF Init, HostInit, IsHost
<1>2. changes \in Nat => Waiting \in Runs
  BY DEF Waiting, Runs, Steps, Elsewhere
<1>3. link \in Elsewhere \cup Doctors
  BY DoctorAssumption DEF Init, DoctorInit
<1>4. PICK some \in SUBSET Doctors : doctor = [d \in some |-> Waiting]
  BY DEF Init, DoctorInit
<1>5. QED
  BY <1>1, <1>2, <1>3, <1>4 DEF Typed

\* A doctor that goes on to its next step, with what it saw or found there.
LEMMA RunType ==
  ASSUME Typed, NEW d \in DOMAIN doctor, NEW r \in Runs,
         doctor' = [doctor EXCEPT ![d] = r], link' \in {link, "absent", d},
         host' \in Hosts, changes' \in Nat
  PROVE  Typed'
  BY DEF Typed, Elsewhere

LEMMA GotoType ==
  ASSUME Typed, NEW d \in DOMAIN doctor, NEW l \in Steps, Goto(d, l),
         link' \in {link, "absent", d}, host' \in Hosts, changes' \in Nat
  PROVE  Typed'
<1>1. [doctor[d] EXCEPT !.at = l] \in Runs
  BY DEF Typed, Runs
<1>2. doctor' = [doctor EXCEPT ![d] = [doctor[d] EXCEPT !.at = l]]
  BY DEF Goto
<1>3. QED
  BY <1>1, <1>2, RunType

LEMMA MissType ==
  ASSUME Typed, NEW d \in DOMAIN doctor, NEW l \in Steps, NEW what \in SUBSET Findings,
         Miss(d, l, what), UNCHANGED link, UNCHANGED <<host, changes>>
  PROVE  Typed'
<1> DEFINE r == [doctor[d] EXCEPT !.at = l, !.missing = @ \cup what]
<1>1. r \in Runs
  BY DEF Typed, Runs
<1>2. doctor' = [doctor EXCEPT ![d] = r]
  BY DEF Miss
<1>3. QED
  BY <1>1, <1>2, RunType DEF Typed

LEMMA TypedNext == Typed /\ [Next]_setupVars => Typed'
<1>. SUFFICES ASSUME Typed, [Next]_setupVars PROVE Typed'
  OBVIOUS
<1>0. host \in Hosts /\ changes \in Nat /\ link \in Elsewhere \cup Doctors
  BY DEF Typed
<1>1. ASSUME NEW d \in DOMAIN doctor, NEW fix \in BOOLEAN, Visit(d, fix) PROVE Typed'
  <2> DEFINE r == [Waiting EXCEPT !.at = "found", !.fix = fix, !.since = changes,
                                  !.env = Load(Unset)]
  <2>1. r \in Runs
    BY LoadType DEF Typed, Runs, Steps, Waiting, Elsewhere
  <2>2. QED
    BY <1>1, <2>1, RunType DEF Visit, hostVars, Typed
<1>2. ASSUME NEW d \in DOMAIN doctor, FindXks(d) PROVE Typed'
  <2>1. PICK l \in {"look", "configuration"} : Goto(d, l)
    BY <1>2 DEF FindXks
  <2>2. QED
    BY <1>0, <1>2, <2>1, GotoType DEF FindXks, hostVars, Steps
<1>3. ASSUME NEW d \in DOMAIN doctor, LookAtLink(d) PROVE Typed'
  <2>1. [doctor[d] EXCEPT !.at = "place", !.saw = link] \in Runs
    BY <1>0 DEF Typed, Runs, Steps
  <2>2. doctor' = [doctor EXCEPT ![d] = [doctor[d] EXCEPT !.at = "place", !.saw = link]]
    BY <1>3 DEF LookAtLink
  <2>3. QED
    BY <1>0, <1>3, <2>1, <2>2, RunType DEF LookAtLink, hostVars
<1>4. ASSUME NEW d \in DOMAIN doctor, NEW ours \in BOOLEAN,
             doctor' = [doctor EXCEPT ![d].at = "configuration", ![d].placed = ours],
             link' \in {link, d}, UNCHANGED hostVars
      PROVE  Typed'
  <2> DEFINE r == [doctor[d] EXCEPT !.at = "configuration", !.placed = ours]
  <2>1. r \in Runs
    BY ZenonT(40) DEF Typed, Runs, Steps
  <2>2. doctor' = [doctor EXCEPT ![d] = r]
    BY <1>4
  <2>3. QED
    BY <1>0, <1>4, <2>1, <2>2, RunType DEF hostVars
<1>5. ASSUME NEW d \in DOMAIN doctor, LeaveLink(d) PROVE Typed'
  <2>1. (doctor[d].saw = d) \in BOOLEAN
    OBVIOUS
  <2>2. QED
    BY <1>4, <1>5, <2>1 DEF LeaveLink
<1>6. ASSUME NEW d \in DOMAIN doctor, RemoveLink(d) PROVE Typed'
  <2>1. PICK l \in {"symlink", "configuration"} : Goto(d, l)
    BY <1>6 DEF RemoveLink
  <2>2. QED
    BY <1>0, <1>6, <2>1, GotoType DEF RemoveLink, hostVars, Steps
<1>7. ASSUME NEW d \in DOMAIN doctor, MakeLink(d) PROVE Typed'
  <2>1. CASE link = "absent"
    BY <1>4, <1>7, <2>1 DEF MakeLink
  <2>2. CASE link # "absent"
    BY <1>0, <1>7, <2>2, GotoType DEF MakeLink, hostVars, Steps
  <2>3. QED
    BY <2>1, <2>2
<1>8. ASSUME NEW d \in DOMAIN doctor, CheckConfiguration(d) PROVE Typed'
  <2>1. PICK what \in SUBSET Findings : Miss(d, "windows", what)
    BY <1>8 DEF CheckConfiguration, Findings
  <2>2. QED
    BY <1>8, <2>1, MissType DEF CheckConfiguration, hostVars, Steps
<1>9. ASSUME NEW d \in DOMAIN doctor, CheckSite(d) PROVE Typed'
  <2>1. PICK what \in SUBSET Findings : Miss(d, "sibling", what)
    BY <1>9 DEF CheckSite, Findings
  <2>2. QED
    BY <1>9, <2>1, MissType DEF CheckSite, hostVars, Steps
<1>10. ASSUME NEW d \in DOMAIN doctor, CheckPieces(d) PROVE Typed'
  <2>1. PICK what \in SUBSET Findings : Miss(d, "done", what)
    BY <1>10 DEF CheckPieces, Findings
  <2>2. QED
    BY <1>10, <2>1, MissType DEF CheckPieces, hostVars, Steps
<1>11. ASSUME NEW d \in DOMAIN doctor, ReadWindows(d) PROVE Typed'
  <2>1. [doctor[d] EXCEPT !.at = "site", !.cards = host.up] \in Runs
    BY <1>0, ZenonT(40) DEF Typed, Runs, Steps, Hosts
  <2>2. doctor' = [doctor EXCEPT ![d] = [doctor[d] EXCEPT !.at = "site", !.cards = host.up]]
    BY <1>11 DEF ReadWindows
  <2>3. QED
    BY <1>0, <1>11, <2>1, <2>2, RunType DEF ReadWindows, hostVars
<1>12. ASSUME NEW d \in DOMAIN doctor, CheckSibling(d) PROVE Typed'
  <2>1. ASSUME NEW what \in SUBSET Findings, Miss(d, "pieces", what), UNCHANGED <<link, hostVars>>
        PROVE  Typed'
    BY <2>1, MissType DEF hostVars, Steps
  <2>2. ASSUME Goto(d, "pieces"), UNCHANGED <<link, changes>>,
               host' \in {host, [host EXCEPT !.payload = TRUE]}
        PROVE  Typed'
    <3>1. host' \in Hosts
      BY <1>0, <2>2 DEF Hosts
    <3>2. QED
      BY <1>0, <2>2, <3>1, GotoType DEF Steps
  <2>3. QED
    BY <1>12, <2>1, <2>2 DEF CheckSibling, MissForCards, Findings, hostVars
<1>13. ASSUME QueryNext PROVE UNCHANGED <<host, changes>>
  BY <1>13 DEF QueryNext, Begin, Route, ReadRequest, Unreadable, AskServer, CheckSubject,
     ResolveSite, PrepareX86, FindCards, Exec, TakeCards, PutWorkers, Breaks, Answer,
     Killed, Refuse, Go, Judge, End, hostVars
<1>14. ASSUME Change PROVE host' \in Hosts /\ changes' \in Nat
  <2>1. changes' \in Nat
    BY <1>0, <1>14 DEF Change
  <2>2. CASE UNCHANGED host
    BY <1>0, <2>1, <2>2
  <2>3. CASE \E c \in Cards :
               host' = [host EXCEPT !.up = IF c \in @ THEN @ \ {c} ELSE @ \cup {c}]
    BY <1>0, <2>1, <2>3 DEF Hosts
  <2>4. CASE host' = [host EXCEPT !.server = ~@]
    BY <1>0, <2>1, <2>4 DEF Hosts
  <2>5. ASSUME NEW s \in Named, host' = [host EXCEPT !.files[1] = s] PROVE host' \in Hosts
    <3>0. host.files \in Seq(Named \cup {Unset})
      BY <1>0 DEF Hosts
    <3>1. [host.files EXCEPT ![1] = s] \in Seq(Named \cup {Unset})
      <4>1. CASE 1 \in 1 .. Len(host.files)
        BY <3>0, <4>1, ExceptSeq
      <4>2. CASE 1 \notin 1 .. Len(host.files)
        <5>1. [host.files EXCEPT ![1] = s] = host.files
          BY <3>0, <4>2
        <5>2. QED
          BY <3>0, <5>1
      <4>3. QED
        BY <4>1, <4>2
    <3>2. QED
      BY <1>0, <2>5, <3>1 DEF Hosts
  <2>6. QED
    BY <1>14, <2>1, <2>2, <2>3, <2>4, <2>5 DEF Change
<1>15. QED
  <2>1. CASE \E d \in DOMAIN doctor : DoctorStep(d)
    BY <1>1, <1>2, <1>3, <1>5, <1>6, <1>7, <1>8, <1>9, <1>10, <1>11, <1>12, <2>1
       DEF DoctorStep
  <2>2. CASE UNCHANGED <<doctorVars>> /\ host' \in Hosts /\ changes' \in Nat
    BY <2>2 DEF Typed, doctorVars
  <2>3. QED
    BY <1>0, <1>13, <1>14, <2>1, <2>2 DEF Next, DoctorNext, setupVars, hostVars, doctorVars

LEMMA LinkInit == Init => LinkInv
  BY DoctorAssumption DEF Init, DoctorInit, LinkInv, LinkOf, Placed, InHand, At, Waiting, Elsewhere

\* A step of d that is not about the link.
LEMMA LinkStays ==
  ASSUME Typed, LinkInv, NEW d \in DOMAIN doctor, ~At(d, "symlink"),
         DOMAIN doctor' = DOMAIN doctor,
         \A e \in DOMAIN doctor \ {d} : doctor'[e] = doctor[e],
         doctor'[d].at \notin {"idle", "place", "symlink"},
         doctor'[d].saw \in {doctor[d].saw, "absent"},
         doctor'[d].placed <=> doctor[d].placed, UNCHANGED link
  PROVE  LinkInv'
<1>1. Placed' = Placed /\ (InHand => InHand')
  BY DEF Placed, InHand, At
<1>2. QED
  BY <1>1 DEF LinkInv, LinkOf, At

LEMMA LinkNext == Typed /\ LinkInv /\ [Next]_setupVars => LinkInv'
<1>. SUFFICES ASSUME Typed, LinkInv, [Next]_setupVars PROVE LinkInv'
  OBVIOUS
<1>. USE DEF At, LinkOf
<1>0. doctor \in [DOMAIN doctor -> Runs] /\ DOMAIN doctor \subseteq Doctors
  BY DEF Typed
<1>1. ASSUME NEW d \in DOMAIN doctor, NEW fix \in BOOLEAN, Visit(d, fix) PROVE LinkInv'
  <2>1. ~doctor[d].placed
    BY <1>1 DEF Visit, LinkInv
  <2>2. /\ DOMAIN doctor' = DOMAIN doctor /\ ~At(d, "symlink") /\ UNCHANGED link
        /\ doctor'[d] = [Waiting EXCEPT !.at = "found", !.fix = fix, !.since = changes,
                                       !.env = Load(Unset)]
        /\ \A e \in DOMAIN doctor \ {d} : doctor'[e] = doctor[e]
    BY <1>0, <1>1 DEF Visit
  <2>3. doctor'[d].at = "found" /\ doctor'[d].saw = "absent" /\ doctor'[d].placed = FALSE
    BY <2>2 DEF Waiting
  <2>4. QED
    BY <2>1, <2>2, <2>3, LinkStays
<1>2. ASSUME NEW d \in DOMAIN doctor, NEW l \in Steps \ {"idle", "place", "symlink"}, Goto(d, l),
             ~At(d, "symlink"), UNCHANGED link
      PROVE  LinkInv'
  BY <1>0, <1>2, LinkStays DEF Goto, Runs
<1>3. ASSUME NEW d \in DOMAIN doctor, NEW l \in Steps \ {"idle", "place", "symlink"}, NEW what,
             Miss(d, l, what), ~At(d, "symlink"), UNCHANGED link
      PROVE  LinkInv'
  BY <1>0, <1>3, LinkStays DEF Miss, Runs
<1>4. ASSUME NEW d \in DOMAIN doctor, FindXks(d) \/ CheckConfiguration(d) \/ CheckSite(d)
                                       \/ CheckSibling(d) \/ CheckPieces(d)
      PROVE  LinkInv'
  BY <1>2, <1>3, <1>4 DEF FindXks, CheckConfiguration, CheckSite, CheckSibling, CheckPieces,
     MissForCards, Steps
<1>5. ASSUME NEW d \in DOMAIN doctor, ReadWindows(d) PROVE LinkInv'
  BY <1>0, <1>5, LinkStays DEF ReadWindows, Runs
<1>6. ASSUME NEW d \in DOMAIN doctor, LookAtLink(d) PROVE LinkInv'
  <2>1. /\ DOMAIN doctor' = DOMAIN doctor /\ UNCHANGED link
        /\ doctor'[d] = [doctor[d] EXCEPT !.at = "place", !.saw = link]
        /\ \A e \in DOMAIN doctor \ {d} : doctor'[e] = doctor[e]
    BY <1>0, <1>6 DEF LookAtLink
  <2>2. doctor[d] \in Runs
    BY <1>0
  <2>3. doctor'[d].at = "place" /\ doctor'[d].saw = link
    BY <2>1, <2>2 DEF Runs
  <2>4. doctor'[d].placed = doctor[d].placed
    BY <2>1, <2>2 DEF Runs
  <2>5. Placed' = Placed /\ (InHand => InHand')
    BY <1>6, <2>1, <2>3, <2>4 DEF Placed, InHand, LookAtLink
  <2>6. ASSUME NEW e \in DOMAIN doctor PROVE LinkOf(e)'
    <3>1. CASE e = d
      BY <2>1, <2>3, <3>1
    <3>2. CASE e # d
      <4>1. LinkOf(e)
        BY DEF LinkInv
      <4>2. doctor'[e] = doctor[e] /\ UNCHANGED link
        BY <2>1, <3>2
      <4>3. QED
        BY <2>5, <4>1, <4>2
    <3>3. QED
      BY <3>1, <3>2
  <2>7. QED
    BY <2>1, <2>5, <2>6 DEF LinkInv
\* Its link is reported in place: it was there when d looked.
<1>7. ASSUME NEW d \in DOMAIN doctor, LeaveLink(d) PROVE LinkInv'
  <2>1. /\ DOMAIN doctor' = DOMAIN doctor /\ UNCHANGED link /\ At(d, "place")
        /\ doctor'[d] = [doctor[d] EXCEPT !.at = "configuration", !.placed = (doctor[d].saw = d)]
        /\ \A e \in DOMAIN doctor \ {d} : doctor'[e] = doctor[e]
    BY <1>0, <1>7 DEF LeaveLink
  <2>2. doctor[d] \in Runs
    BY <1>0
  <2>3. doctor'[d].at = "configuration" /\ doctor'[d].saw = doctor[d].saw
    BY <2>1, <2>2 DEF Runs
  <2>4. doctor'[d].placed <=> doctor[d].saw = d
    <3>1. "placed" \in DOMAIN doctor[d]
      BY <2>2 DEF Runs
    <3>2. QED
      BY <2>1, <3>1
  <2>5. (doctor[d].saw = d => Placed' = Placed \cup {d})
        /\ (doctor[d].saw # d => Placed' = Placed \ {d})
    BY <2>1, <2>4, ZenonT(40) DEF Placed
  <2>6. LinkOf(d)
    BY DEF LinkInv
  <2>7. doctor[d].saw # d => Placed = {} /\ ~InHand
    <3>1. SUFFICES ASSUME doctor[d].saw # d PROVE Placed = {} /\ ~InHand
      OBVIOUS
    <3>2. link = "file"
      BY <1>7, <2>6, <3>1 DEF LeaveLink, LeftAlone
    <3>3. link \notin Doctors
      BY <3>2, DoctorAssumption DEF Elsewhere
    <3>4. ~InHand
      BY <1>0, <3>2, <3>3 DEF InHand, Placed
    <3>5. QED
      BY <3>4 DEF LinkInv
  <2>8. (InHand => InHand') /\ (Placed' # {} => InHand')
    <3>1. CASE doctor[d].saw = d
      BY <2>1, <2>3, <2>5, <2>6, <3>1 DEF InHand
    <3>2. CASE doctor[d].saw # d
      BY <2>5, <2>7, <3>2
    <3>3. QED
      BY <3>1, <3>2
  <2>9. ASSUME NEW e \in DOMAIN doctor PROVE LinkOf(e)'
    <3>1. CASE e = d
      BY <2>1, <2>3, <2>6, <3>1
    <3>2. CASE e # d
      <4>1. LinkOf(e)
        BY DEF LinkInv
      <4>2. doctor'[e] = doctor[e] /\ UNCHANGED link
        BY <2>1, <3>2
      <4>3. QED
        BY <2>8, <4>1, <4>2
    <3>3. QED
      BY <3>1, <3>2
  <2>10. QED
    BY <2>1, <2>8, <2>9 DEF LinkInv
<1>8. ASSUME NEW d \in DOMAIN doctor, RemoveLink(d) PROVE LinkInv'
  <2>1. link # "file" /\ link' = "absent"
    BY <1>8 DEF RemoveLink, LeftAlone, LinkInv
  <2>2. PICK l \in {"symlink", "configuration"} :
           doctor' = [doctor EXCEPT ![d].at = l] /\ (l = "configuration" => link = "absent")
    BY <1>8 DEF RemoveLink, Goto
  <2>3. /\ DOMAIN doctor' = DOMAIN doctor
        /\ doctor'[d].at = l /\ doctor'[d].saw = doctor[d].saw
        /\ doctor'[d].placed = doctor[d].placed
        /\ \A e \in DOMAIN doctor \ {d} : doctor'[e] = doctor[e]
    BY <1>0, <2>2 DEF Runs
  <2>4. At(d, "place")
    BY <1>8 DEF RemoveLink
  <2>5. Placed' = Placed
    BY <2>3 DEF Placed
  <2>6. CASE l = "symlink"
    <3>1. InHand'
      BY <2>1, <2>3, <2>6 DEF InHand
    <3>2. QED
      BY <2>1, <2>3, <2>6, <3>1 DEF LinkInv
  <2>7. CASE l = "configuration"
    <3>1. link = "absent"
      BY <2>2, <2>7
    <3>2. InHand => InHand'
      BY <2>1, <2>3, <2>4, <2>5, <3>1 DEF InHand
    <3>3. QED
      BY <2>1, <2>3, <2>5, <2>7, <3>1, <3>2 DEF LinkInv
  <2>8. QED
    BY <2>6, <2>7
<1>9. ASSUME NEW d \in DOMAIN doctor, MakeLink(d) PROVE LinkInv'
  <2>1. CASE link = "absent"
    <3>1. /\ DOMAIN doctor' = DOMAIN doctor /\ link' = d
          /\ doctor'[d].at = "configuration" /\ doctor'[d].saw = doctor[d].saw
          /\ doctor'[d].placed
          /\ \A e \in DOMAIN doctor \ {d} : doctor'[e] = doctor[e]
      BY <1>0, <1>9, <2>1, ZenonT(40) DEF MakeLink, Runs
    <3>2. InHand'
      BY <3>1 DEF InHand, Placed
    <3>3. link' # "file"
      BY <1>0, <3>1, DoctorAssumption DEF Elsewhere
    <3>4. QED
      BY <2>1, <3>1, <3>2, <3>3 DEF LinkInv
  <2>2. CASE link # "absent"
    <3>1. /\ DOMAIN doctor' = DOMAIN doctor /\ UNCHANGED link
          /\ doctor'[d].at = "configuration" /\ doctor'[d].saw = doctor[d].saw
          /\ doctor'[d].placed = doctor[d].placed
          /\ \A e \in DOMAIN doctor \ {d} : doctor'[e] = doctor[e]
      BY <1>0, <1>9, <2>2 DEF MakeLink, Goto, Runs
    <3>2. Placed' = Placed /\ (InHand => InHand')
      BY <2>2, <3>1 DEF Placed, InHand
    <3>3. QED
      BY <3>1, <3>2 DEF LinkInv
  <2>3. QED
    BY <2>1, <2>2
<1>10. CASE UNCHANGED doctorVars
  BY <1>10 DEF LinkInv, Placed, InHand, doctorVars
<1>11. QED
  BY <1>1, <1>4, <1>5, <1>6, <1>7, <1>8, <1>9, <1>10
     DEF Next, DoctorNext, DoctorStep, setupVars, doctorVars

\* A file in the link's place stays; of the doctors that reported their link
\* in place, one has it there once none is at it.
THEOREM LinksPlaced == Spec => []LinkPlaced
<1>1. Typed /\ LinkInv => LinkPlaced
  BY DEF LinkInv, LinkOf, LinkPlaced, Placed, InHand, Placing, At
<1>. QED
  BY <1>1, TypedInit, TypedNext, LinkInit, LinkNext, PTL DEF Spec

------------------------------------------------------------------------------
(* The doctor and the query: what a report says, and what it comes to.     *)

Unmissed(r, what) == what \notin r.missing

\* A run that is past a check has the host's answer to it; a check that is
\* still to come has found nothing.
Past(r, steps) == r.at \in steps
SeesConfiguration(r) == Past(r, {"windows", "site", "sibling", "pieces", "done"}) =>
    /\ Unmissed(r, "config") <=> host.parses
    /\ Unmissed(r, "subject") <=> host.subject
SeesWindows(r) == Past(r, {"site", "sibling", "pieces", "done"}) => r.cards = host.up
SeesSite(r) == Past(r, {"sibling", "pieces", "done"}) =>
    (Unmissed(r, "site") <=> Resolve(r.env) # "none")
SeesSibling(r) == Past(r, {"pieces", "done"}) /\ NeedsCards(r) =>
    /\ Unmissed(r, "AVX-512") <=> host.sibling
    /\ Unmissed(r, "AVX-512") /\ Unmissed(r, "payload") => host.payload
SeesPieces(r) == Past(r, {"done"}) =>
    /\ NeedsCards(r) => (Unmissed(r, "cards") <=> host.up # {})
    /\ Unmissed(r, "avx512 site") <=> ~NeedsBuild(r)
NothingYet(r) ==
    /\ r.at \in {"found", "look", "place", "symlink", "configuration"} => r.missing = {}
    /\ r.at \in {"windows", "site"} => r.missing \subseteq {"config", "subject"}
    /\ r.at = "sibling" => r.missing \subseteq {"config", "subject", "site"}
    /\ r.at = "pieces" => r.missing \cap {"cards", "stack", "avx512 site"} = {}
    /\ ~NeedsCards(r) /\ r.at \in {"pieces", "done"} =>
          r.missing \cap {"AVX-512", "payload", "stack", "cards"} = {}

Sees(r) ==
    /\ r.env = Load(Unset)
    /\ SeesConfiguration(r) /\ SeesWindows(r) /\ SeesSite(r) /\ SeesSibling(r)
    /\ SeesPieces(r) /\ NothingYet(r)

Told(r) == changes <= r.since /\ (r.since = changes => Sees(r))
Begun == {doctor[d] : d \in {e \in DOMAIN doctor : ~At(e, "idle")}}
SeesInv == \A r \in Begun : Told(r)

\* What a query that has come as far as taking its cards, or loading its
\* subject, has met.
Reached(s) ==
    /\ host.parses /\ host.subject
    /\ site = Resolve(env) /\ site # "none"
    /\ site = "cards" => host.up # {} /\ (s = "load" => host.payload)
    /\ site = "avx512" =>
          /\ inner /\ cards = host.up /\ 0 \in host.up
          /\ s = "load" => host.up = {0} \/ host.payload

Subjected == {"resolve", "prepare", "take", "payload", "load"}
Parsed == Subjected \cup {"read", "ask", "subject"}
Stands ==
    /\ site \in {"none", Resolve(env)}
    /\ stage = "prepare" => site # "none"
    /\ inner => host.wrapper /\ host.avx512
    /\ stage \in Parsed => host.parses
    /\ stage \in Subjected => host.subject
    /\ stage \in {"take", "payload"} =>
          Reached("take") /\ cards = host.up /\ site \in {"cards", "avx512"}
    /\ stage = "load" \/ outcome = "answered" => Reached("load")
    /\ outcome = "answered" => stage = "done"

NotInPlace == {"config", "subject", "site", "cards", "payload", "avx512 site"}
Follows(r) == env = r.env /\ Stands /\ (r.missing = {} => outcome \notin NotInPlace)

ToldInv == \A r \in told :
    r \in Runs /\ r.at = "done" /\ Told(r) /\ (r.since = changes => Follows(r))

IsHostInv == host.payload \/ host.wrapper => host.sibling

Inv == Typed /\ IsHostInv /\ queries \in Nat /\ SeesInv /\ ToldInv

------------------------------------------------------------------------------
(* The host, until it changes.                                             *)

\* All a report is about, but that --fix may build the payload.
Kept ==
    /\ UNCHANGED changes
    /\ \A what \in {"files", "parses", "subject", "sibling", "wrapper", "avx512", "up"} :
          host'[what] = host[what]
    /\ host.payload => host'.payload

LEMMA KeptIfUnchanged == UNCHANGED <<host, changes>> => Kept
  BY DEF Kept

LEMMA KeptReading ==
  ASSUME Kept, NEW e
  PROVE  Load(e)' = Load(e) /\ Resolve(e)' = Resolve(e)
<1>1. host'.files = host.files /\ host'.up = host.up
  BY DEF Kept
<1>2. QED
  BY <1>1 DEF Load, Resolve

LEMMA SeesConfigurationKept ==
  ASSUME NEW r, SeesConfiguration(r), host'.parses = host.parses, host'.subject = host.subject
  PROVE  SeesConfiguration(r)'
  BY DEF SeesConfiguration, Unmissed, Past

LEMMA SeesWindowsKept ==
  ASSUME NEW r, SeesWindows(r), host'.up = host.up
  PROVE  SeesWindows(r)'
  BY DEF SeesWindows, Past

LEMMA SeesSiteKept ==
  ASSUME NEW r, SeesSite(r), Resolve(r.env)' = Resolve(r.env)
  PROVE  SeesSite(r)'
  BY DEF SeesSite, Unmissed, Past

LEMMA SeesSiblingKept ==
  ASSUME NEW r, SeesSibling(r), host'.sibling = host.sibling, host.payload => host'.payload
  PROVE  SeesSibling(r)'
  BY DEF SeesSibling, Unmissed, Past, NeedsCards, Requested

LEMMA SeesPiecesKept ==
  ASSUME NEW r, SeesPieces(r), host'.up = host.up, host'.avx512 = host.avx512
  PROVE  SeesPieces(r)'
  BY DEF SeesPieces, Unmissed, Past, NeedsCards, NeedsBuild, Requested

LEMMA NothingYetKept ==
  ASSUME NEW r, NothingYet(r)
  PROVE  NothingYet(r)'
  BY DEF NothingYet, NeedsCards, Requested

LEMMA SeesKept ==
  ASSUME Kept, NEW r, Sees(r)
  PROVE  Sees(r)'
<1>1. host'.parses = host.parses /\ host'.subject = host.subject
  BY DEF Kept
<1>2. host'.sibling = host.sibling /\ host'.avx512 = host.avx512
  BY DEF Kept
<1>3. host'.up = host.up /\ (host.payload => host'.payload)
  BY DEF Kept
<1>4. Load(Unset)' = Load(Unset) /\ Resolve(r.env)' = Resolve(r.env)
  BY KeptReading
<1>5. r.env = Load(Unset)'
  BY <1>4 DEF Sees
<1>6. SeesConfiguration(r)'
  BY <1>1, SeesConfigurationKept DEF Sees
<1>7. SeesWindows(r)'
  BY <1>3, SeesWindowsKept DEF Sees
<1>8. SeesSite(r)'
  BY <1>4, SeesSiteKept DEF Sees
<1>9. SeesSibling(r)'
  BY <1>2, <1>3, SeesSiblingKept DEF Sees
<1>10. SeesPieces(r)'
  BY <1>2, <1>3, SeesPiecesKept DEF Sees
<1>11. NothingYet(r)'
  BY NothingYetKept DEF Sees
<1>12. QED
  BY <1>5, <1>6, <1>7, <1>8, <1>9, <1>10, <1>11 DEF Sees

------------------------------------------------------------------------------
(* The doctor's steps: the host is kept, and the run that goes on has it   *)
(* right.                                                                  *)

Early == {"found", "look", "place", "symlink", "configuration"}

LEMMA SeesEarly ==
  ASSUME NEW r, r.at \in Early, r.env = Load(Unset), r.missing = {}
  PROVE  Sees(r)
  BY DEF Early, Sees, SeesConfiguration, SeesWindows, SeesSite, SeesSibling, SeesPieces,
     NothingYet, Past

LEMMA ToldKept ==
  ASSUME Kept, NEW r, Told(r)
  PROVE  Told(r)'
<1>1. changes' = changes
  BY DEF Kept
<1>2. r.since = changes => Sees(r)'
  BY SeesKept DEF Told
<1>3. QED
  BY <1>1, <1>2 DEF Told

\* d goes on as r, which sees the host if d's run did.
LEMMA DoctorSees ==
  ASSUME Typed, SeesInv, Kept, NEW d \in DOMAIN doctor, NEW r,
         doctor' = [doctor EXCEPT ![d] = r], changes <= r.since,
         r.since = changes => Sees(r)'
  PROVE  SeesInv'
<1>1. Told(r)'
  BY DEF Kept, Told
<1>2. Begun' \subseteq Begun \cup {r}
  BY DEF Typed, Begun, At
<1>3. \A s \in Begun : Told(s)'
  BY ToldKept DEF SeesInv
<1>4. QED
  BY <1>1, <1>2, <1>3 DEF SeesInv

\* The same, for a step that leaves the host alone.
LEMMA DoctorLooks ==
  ASSUME Typed, SeesInv, UNCHANGED <<host, changes>>, NEW d \in DOMAIN doctor, NEW r,
         doctor' = [doctor EXCEPT ![d] = r], changes <= r.since,
         r.since = changes => Sees(r)
  PROVE  SeesInv'
<1>1. Kept
  BY KeptIfUnchanged
<1>2. r.since = changes => Sees(r)'
  BY <1>1, SeesKept
<1>3. QED
  BY <1>1, <1>2, DoctorSees

LEMMA DoctorMisses ==
  ASSUME Typed, SeesInv, NEW d \in DOMAIN doctor, ~At(d, "idle"), NEW l, NEW what,
         Miss(d, l, what)
  PROVE  \E s, r :
            /\ s \in Runs /\ s = doctor[d] /\ doctor' = [doctor EXCEPT ![d] = r]
            /\ r.at = l /\ r.env = s.env /\ r.cards = s.cards /\ r.missing = s.missing \cup what
            /\ r.since = s.since /\ Told(s)
<1>1. PICK s \in Runs : s = doctor[d]
  BY DEF Typed
<1>2. PICK r : r = [s EXCEPT !.at = l, !.missing = @ \cup what]
  OBVIOUS
<1>3. doctor' = [doctor EXCEPT ![d] = r]
  BY <1>1, <1>2 DEF Miss
<1>4. r.at = l /\ r.env = s.env /\ r.cards = s.cards
  BY <1>2 DEF Runs
<1>5. r.missing = s.missing \cup what /\ r.since = s.since
  BY <1>2 DEF Runs
<1>6. s \in Begun
  BY <1>1 DEF Begun
<1>7. Told(s)
  BY <1>6 DEF SeesInv
<1>8. QED
  BY <1>1, <1>3, <1>4, <1>5, <1>7

\* What each check adds is what it saw.
LEMMA AfterConfiguration ==
  ASSUME NEW s, NEW r, Sees(s), s.at = "configuration", r.at = "windows", r.env = s.env,
         r.missing = s.missing \cup (IF host.parses THEN {} ELSE {"config"})
                         \cup (IF host.subject THEN {} ELSE {"subject"})
  PROVE  Sees(r)
<1>1. s.missing = {} /\ r.env = Load(Unset)
  BY DEF Sees, NothingYet
<1>2. SeesConfiguration(r)
  BY <1>1 DEF SeesConfiguration, Unmissed
<1>3. NothingYet(r)
  BY <1>1 DEF NothingYet
<1>4. QED
  BY <1>1, <1>2, <1>3 DEF Sees, SeesWindows, SeesSite, SeesSibling, SeesPieces, Past

LEMMA AfterWindows ==
  ASSUME NEW s, NEW r, Sees(s), s.at = "windows", r.at = "site", r.env = s.env,
         r.cards = host.up, r.missing = s.missing
  PROVE  Sees(r)
<1>1. s.missing \subseteq {"config", "subject"} /\ r.env = Load(Unset)
  BY DEF Sees, NothingYet
<1>2. SeesConfiguration(r)
  BY DEF Sees, SeesConfiguration, Unmissed, Past
<1>3. NothingYet(r)
  BY <1>1 DEF NothingYet
<1>4. QED
  BY <1>1, <1>2, <1>3 DEF Sees, SeesWindows, SeesSite, SeesSibling, SeesPieces, Past

LEMMA AfterSite ==
  ASSUME NEW s, NEW r, Sees(s), s.at = "site", r.at = "sibling", r.env = s.env,
         r.cards = s.cards,
         r.missing = s.missing \cup IF Resolve(s.env) = "none" THEN {"site"} ELSE {}
  PROVE  Sees(r)
<1>1. s.missing \subseteq {"config", "subject"} /\ r.env = Load(Unset)
  BY DEF Sees, NothingYet
<1>2. SeesConfiguration(r)
  BY DEF Sees, SeesConfiguration, Unmissed, Past
<1>3. SeesSite(r) /\ SeesWindows(r)
  BY <1>1 DEF Sees, SeesSite, SeesWindows, Unmissed, Past
<1>4. NothingYet(r)
  BY <1>1 DEF NothingYet
<1>5. QED
  BY <1>1, <1>2, <1>3, <1>4 DEF Sees, SeesSibling, SeesPieces, Past

\* The parts of it that a build of the payload leaves alone.
LEMMA PastSibling ==
  ASSUME NEW s, NEW r, Sees(s), s.at = "sibling", r.at = "pieces", r.env = s.env,
         r.cards = s.cards, NEW what \in SUBSET {"AVX-512", "payload"},
         r.missing = s.missing \cup what, ~NeedsCards(s) => what = {}
  PROVE  /\ r.env = Load(Unset) /\ SeesConfiguration(r) /\ SeesWindows(r) /\ SeesSite(r)
         /\ SeesPieces(r) /\ NothingYet(r)
<1>1. s.missing \subseteq {"config", "subject", "site"} /\ r.env = Load(Unset)
  BY DEF Sees, NothingYet
<1>2. NeedsCards(r) <=> NeedsCards(s)
  BY DEF NeedsCards
<1>3. SeesConfiguration(r)
  BY DEF Sees, SeesConfiguration, Unmissed, Past
<1>4. SeesWindows(r)
  BY DEF Sees, SeesWindows, Past
<1>5. SeesSite(r)
  BY DEF Sees, SeesSite, Unmissed, Past
<1>6. NothingYet(r)
  BY <1>1, <1>2 DEF NothingYet
<1>7. QED
  BY <1>1, <1>3, <1>4, <1>5, <1>6 DEF SeesPieces, Past

LEMMA AfterSibling ==
  ASSUME IsHostInv, NEW s, NEW r, Sees(s), s.at = "sibling", r.at = "pieces", r.env = s.env,
         r.cards = s.cards, NEW what \in SUBSET {"AVX-512", "payload"},
         r.missing = s.missing \cup what, ~NeedsCards(s) => what = {},
         NeedsCards(s) => what = (IF ~host.sibling THEN {"AVX-512"}
                                  ELSE IF host.payload THEN {} ELSE {"payload"})
  PROVE  Sees(r)
<1>1. NeedsCards(r) <=> NeedsCards(s)
  BY DEF NeedsCards
<1>2. s.missing \subseteq {"config", "subject", "site"}
  BY DEF Sees, NothingYet
<1>3. SeesSibling(r)
  BY <1>1, <1>2 DEF SeesSibling, Unmissed
<1>4. QED
  BY <1>3, PastSibling DEF Sees

\* --fix builds the payload.
LEMMA AfterBuild ==
  ASSUME Kept, NEW s, NEW r, Sees(s), s.at = "sibling", r.at = "pieces", r.env = s.env,
         r.cards = s.cards, r.missing = s.missing, host'.sibling, host'.payload
  PROVE  Sees(r)'
<1>1. /\ r.env = Load(Unset) /\ SeesConfiguration(r) /\ SeesWindows(r) /\ SeesSite(r)
      /\ SeesPieces(r) /\ NothingYet(r)
  <2>1. r.missing = s.missing \cup {}
    OBVIOUS
  <2>2. QED
    BY <2>1, PastSibling
<1>2. Load(Unset)' = Load(Unset) /\ Resolve(r.env)' = Resolve(r.env)
  BY KeptReading
<1>3. SeesConfiguration(r)' /\ SeesWindows(r)'
  BY <1>1, SeesConfigurationKept, SeesWindowsKept DEF Kept
<1>4. SeesSite(r)' /\ SeesPieces(r)' /\ NothingYet(r)'
  BY <1>1, <1>2, SeesSiteKept, SeesPiecesKept, NothingYetKept DEF Kept
<1>5. SeesSibling(r)'
  <2>1. "AVX-512" \notin r.missing
    BY DEF Sees, NothingYet
  <2>2. QED
    BY <2>1 DEF SeesSibling, Unmissed
<1>6. r.env = Load(Unset)'
  BY <1>1, <1>2
<1>7. QED
  BY <1>3, <1>4, <1>5, <1>6 DEF Sees

LEMMA AfterPieces ==
  ASSUME NEW s, NEW r, Sees(s), s.at = "pieces", r.at = "done", r.env = s.env,
         r.cards = s.cards,
         r.missing = s.missing
             \cup (IF NeedsCards(s) THEN (IF host.phi THEN {} ELSE {"stack"})
                                       \cup (IF s.cards # {} THEN {} ELSE {"cards"})
                   ELSE {})
             \cup (IF NeedsBuild(s) THEN {"avx512 site"} ELSE {})
  PROVE  Sees(r)
<1>1. r.env = Load(Unset) /\ s.cards = host.up
  BY DEF Sees, SeesWindows, Past
<1>2. s.missing \cap {"cards", "stack", "avx512 site"} = {}
  BY DEF Sees, NothingYet
<1>3. (NeedsCards(r) <=> NeedsCards(s)) /\ (NeedsBuild(r) <=> NeedsBuild(s))
  BY DEF NeedsCards, NeedsBuild
<1>4. SeesConfiguration(r)
  BY DEF Sees, SeesConfiguration, Unmissed, Past
<1>5. SeesWindows(r)
  BY <1>1 DEF SeesWindows
<1>6. SeesSite(r)
  BY DEF Sees, SeesSite, Unmissed, Past
<1>7. SeesSibling(r)
  BY <1>3 DEF Sees, SeesSibling, Unmissed, Past
<1>8. SeesPieces(r)
  BY <1>1, <1>2, <1>3 DEF SeesPieces, Unmissed
<1>9. NothingYet(r)
  <2>1. ~NeedsCards(s) => s.missing \cap {"AVX-512", "payload", "stack", "cards"} = {}
    BY DEF Sees, NothingYet
  <2>2. ~NeedsCards(s) => r.missing \cap {"AVX-512", "payload", "stack", "cards"} = {}
    BY <2>1
  <2>3. QED
    BY <1>3, <2>2 DEF NothingYet
<1>10. QED
  BY <1>1, <1>4, <1>5, <1>6, <1>7, <1>8, <1>9 DEF Sees

LEMMA QueryKeeps == QueryNext => UNCHANGED <<host, changes>>
  BY DEF QueryNext, Begin, Route, ReadRequest, Unreadable, AskServer, CheckSubject,
     ResolveSite, PrepareX86, FindCards, Exec, TakeCards, PutWorkers, Breaks, Answer,
     Killed, Refuse, Go, Judge, End, hostVars

LEMMA SeesInvNext == Typed /\ IsHostInv /\ SeesInv /\ [Next]_setupVars => SeesInv'
<1>. SUFFICES ASSUME Typed, IsHostInv, SeesInv, [Next]_setupVars PROVE SeesInv'
  OBVIOUS
<1>0. doctor \in [DOMAIN doctor -> Runs] /\ changes \in Nat
  BY DEF Typed
<1>1. ASSUME NEW d \in DOMAIN doctor, NEW fix \in BOOLEAN, Visit(d, fix) PROVE SeesInv'
  <2>1. PICK r : r = [Waiting EXCEPT !.at = "found", !.fix = fix, !.since = changes,
                                     !.env = Load(Unset)]
    OBVIOUS
  <2>2. doctor' = [doctor EXCEPT ![d] = r] /\ UNCHANGED <<host, changes>>
    BY <1>1, <2>1 DEF Visit, hostVars
  <2>3. r.at = "found" /\ r.env = Load(Unset)
    BY <2>1 DEF Waiting
  <2>4. r.missing = {} /\ r.since = changes
    BY <2>1 DEF Waiting
  <2>5. Sees(r)
    BY <2>3, <2>4, SeesEarly DEF Early
  <2>6. changes <= r.since
    BY <1>0, <2>4
  <2>7. QED
    BY <2>2, <2>4, <2>5, <2>6, DoctorLooks
\* From one early step to the next.
<1>2. ASSUME NEW d \in DOMAIN doctor, NEW r, doctor[d].at \in Early, r.at \in Early,
             r.env = doctor[d].env, r.missing = doctor[d].missing, r.since = doctor[d].since,
             doctor' = [doctor EXCEPT ![d] = r], UNCHANGED hostVars
      PROVE  SeesInv'
  <2>1. PICK s \in Runs : s = doctor[d]
    BY <1>0
  <2>2. s \in Begun
    BY <1>2, <2>1 DEF Begun, At, Early
  <2>3. Told(s)
    BY <2>2 DEF SeesInv
  <2>4. changes <= r.since
    BY <1>2, <2>1, <2>3 DEF Told
  <2>5. ASSUME r.since = changes PROVE Sees(r)
    <3>1. Sees(s)
      BY <1>2, <2>1, <2>3, <2>5 DEF Told
    <3>2. r.env = Load(Unset) /\ r.missing = {}
      BY <1>2, <2>1, <3>1 DEF Sees, NothingYet, Early
    <3>3. QED
      BY <1>2, <3>2, SeesEarly
  <2>6. QED
    BY <1>2, <2>4, <2>5, DoctorLooks DEF hostVars
<1>3. ASSUME NEW d \in DOMAIN doctor, NEW l \in Early, doctor[d].at \in Early, Goto(d, l),
             UNCHANGED hostVars
      PROVE  SeesInv'
  <2>1. doctor' = [doctor EXCEPT ![d] = [doctor[d] EXCEPT !.at = l]]
    BY <1>3 DEF Goto
  <2>2. doctor[d] \in Runs
    BY <1>0
  <2>3. PICK r : r = [doctor[d] EXCEPT !.at = l]
    OBVIOUS
  <2>4. r.at = l /\ r.env = doctor[d].env /\ r.missing = doctor[d].missing
          /\ r.since = doctor[d].since
    BY <2>2, <2>3 DEF Runs
  <2>5. QED
    BY <1>2, <1>3, <2>1, <2>3, <2>4
<1>4. ASSUME NEW d \in DOMAIN doctor, FindXks(d) \/ RemoveLink(d) PROVE SeesInv'
  BY <1>3, <1>4 DEF FindXks, RemoveLink, At, Early
<1>5. ASSUME NEW d \in DOMAIN doctor, LookAtLink(d) \/ LeaveLink(d) \/ MakeLink(d) PROVE SeesInv'
  <2>1. doctor[d] \in Runs
    BY <1>0
  <2>2. doctor[d].at \in Early /\ UNCHANGED hostVars
    BY <1>5 DEF LookAtLink, LeaveLink, MakeLink, At, Early
  <2>3. CASE LookAtLink(d)
    <3>1. PICK r : r = [doctor[d] EXCEPT !.at = "place", !.saw = link]
      OBVIOUS
    <3>2. doctor' = [doctor EXCEPT ![d] = r]
      BY <2>3, <3>1 DEF LookAtLink
    <3>3. r.at \in Early /\ r.env = doctor[d].env
      BY <2>1, <3>1 DEF Runs, Early
    <3>4. r.missing = doctor[d].missing /\ r.since = doctor[d].since
      BY <2>1, <3>1 DEF Runs
    <3>5. QED
      BY <1>2, <2>2, <3>2, <3>3, <3>4
  <2>4. ASSUME NEW p \in BOOLEAN,
               doctor' = [doctor EXCEPT ![d].at = "configuration", ![d].placed = p]
        PROVE  SeesInv'
    <3>1. PICK r : r = [doctor[d] EXCEPT !.at = "configuration", !.placed = p]
      OBVIOUS
    <3>2. doctor' = [doctor EXCEPT ![d] = r]
      BY <2>4, <3>1
    <3>3. r.at \in Early /\ r.env = doctor[d].env
      BY <2>1, <3>1 DEF Runs, Early
    <3>4. r.missing = doctor[d].missing /\ r.since = doctor[d].since
      BY <2>1, <3>1 DEF Runs
    <3>5. QED
      BY <1>2, <2>2, <3>2, <3>3, <3>4
  <2>5. CASE LeaveLink(d)
    <3>1. (doctor[d].saw = d) \in BOOLEAN
      OBVIOUS
    <3>2. QED
      BY <2>4, <2>5, <3>1 DEF LeaveLink
  <2>6. CASE MakeLink(d)
    BY <1>3, <2>2, <2>4, <2>6 DEF MakeLink, Early
  <2>7. QED
    BY <1>5, <2>3, <2>5, <2>6
<1>6. ASSUME NEW d \in DOMAIN doctor, CheckConfiguration(d) PROVE SeesInv'
  <2> DEFINE what == (IF host.parses THEN {} ELSE {"config"})
                         \cup (IF host.subject THEN {} ELSE {"subject"})
  <2>1. /\ doctor[d].at = "configuration" /\ Miss(d, "windows", what)
        /\ UNCHANGED <<host, changes>>
    BY <1>6 DEF CheckConfiguration, At, hostVars
  <2>2. PICK s, r :
            /\ s \in Runs /\ s = doctor[d] /\ doctor' = [doctor EXCEPT ![d] = r]
            /\ r.at = "windows" /\ r.env = s.env /\ r.cards = s.cards
            /\ r.missing = s.missing \cup what /\ r.since = s.since /\ Told(s)
    BY <2>1, DoctorMisses DEF At
  <2>3. Sees(s) => Sees(r)
    BY <2>1, <2>2, AfterConfiguration
  <2>4. QED
    BY <2>1, <2>2, <2>3, DoctorLooks DEF Told
<1>7. ASSUME NEW d \in DOMAIN doctor, ReadWindows(d) PROVE SeesInv'
  <2>1. PICK s \in Runs : s = doctor[d]
    BY <1>0
  <2>2. PICK r : r = [s EXCEPT !.at = "site", !.cards = host.up]
    OBVIOUS
  <2>3. doctor' = [doctor EXCEPT ![d] = r] /\ UNCHANGED <<host, changes>> /\ s.at = "windows"
    BY <1>7, <2>1, <2>2 DEF ReadWindows, At, hostVars
  <2>4. r.at = "site" /\ r.env = s.env /\ r.cards = host.up
    BY <2>2 DEF Runs
  <2>5. r.missing = s.missing /\ r.since = s.since
    BY <2>2 DEF Runs
  <2>6. s \in Begun
    BY <2>1, <2>3 DEF Begun, At
  <2>7. Told(s)
    BY <2>6 DEF SeesInv
  <2>8. Sees(s) => Sees(r)
    BY <2>3, <2>4, <2>5, AfterWindows
  <2>9. QED
    BY <2>3, <2>5, <2>7, <2>8, DoctorLooks DEF Told
<1>8. ASSUME NEW d \in DOMAIN doctor, CheckSite(d) PROVE SeesInv'
  <2> DEFINE what == IF Resolve(doctor[d].env) = "none" THEN {"site"} ELSE {}
  <2>1. doctor[d].at = "site" /\ Miss(d, "sibling", what) /\ UNCHANGED <<host, changes>>
    BY <1>8 DEF CheckSite, At, hostVars
  <2>2. PICK s, r :
            /\ s \in Runs /\ s = doctor[d] /\ doctor' = [doctor EXCEPT ![d] = r]
            /\ r.at = "sibling" /\ r.env = s.env /\ r.cards = s.cards
            /\ r.missing = s.missing \cup what /\ r.since = s.since /\ Told(s)
    BY <2>1, DoctorMisses DEF At
  <2>3. Sees(s) => Sees(r)
    BY <2>1, <2>2, AfterSite
  <2>4. QED
    BY <2>1, <2>2, <2>3, DoctorLooks DEF Told
<1>9. ASSUME NEW d \in DOMAIN doctor, CheckPieces(d) PROVE SeesInv'
  <2> DEFINE what ==
        (IF NeedsCards(doctor[d])
         THEN (IF host.phi THEN {} ELSE {"stack"})
                  \cup (IF doctor[d].cards # {} THEN {} ELSE {"cards"})
         ELSE {})
        \cup (IF NeedsBuild(doctor[d]) THEN {"avx512 site"} ELSE {})
  <2>1. doctor[d].at = "pieces" /\ Miss(d, "done", what) /\ UNCHANGED <<host, changes>>
    BY <1>9 DEF CheckPieces, At, hostVars
  <2>2. PICK s, r :
            /\ s \in Runs /\ s = doctor[d] /\ doctor' = [doctor EXCEPT ![d] = r]
            /\ r.at = "done" /\ r.env = s.env /\ r.cards = s.cards
            /\ r.missing = s.missing \cup what /\ r.since = s.since /\ Told(s)
    <3>. HIDE DEF what
    <3>. QED
      BY <2>1, DoctorMisses DEF At
  <2>3. Sees(s) => Sees(r)
    BY <2>1, <2>2, AfterPieces
  <2>4. QED
    BY <2>1, <2>2, <2>3, DoctorLooks DEF Told
<1>10. ASSUME NEW d \in DOMAIN doctor, CheckSibling(d) PROVE SeesInv'
  <2>1. doctor[d].at = "sibling" /\ UNCHANGED changes
    BY <1>10 DEF CheckSibling, At
  <2>2. ASSUME UNCHANGED host,
               NEW what \in SUBSET {"AVX-512", "payload"}, Miss(d, "pieces", what),
               ~NeedsCards(doctor[d]) => what = {},
               NeedsCards(doctor[d]) => what = (IF ~host.sibling THEN {"AVX-512"}
                                                ELSE IF host.payload THEN {} ELSE {"payload"})
        PROVE  SeesInv'
    <3>1. PICK s, r :
              /\ s \in Runs /\ s = doctor[d] /\ doctor' = [doctor EXCEPT ![d] = r]
              /\ r.at = "pieces" /\ r.env = s.env /\ r.cards = s.cards
              /\ r.missing = s.missing \cup what /\ r.since = s.since /\ Told(s)
      BY <2>1, <2>2, DoctorMisses DEF At
    <3>2. Sees(s) => Sees(r)
      BY <2>1, <2>2, <3>1, AfterSibling
    <3>3. QED
      BY <2>1, <2>2, <3>1, <3>2, DoctorLooks DEF Told
  <2>3. ASSUME Goto(d, "pieces") PROVE Miss(d, "pieces", {})
    <3>1. doctor[d] \in Runs
      BY <1>0
    <3>2. [doctor[d] EXCEPT !.at = "pieces"] = [doctor[d] EXCEPT !.at = "pieces", !.missing = @ \cup {}]
      BY <3>1 DEF Runs
    <3>3. QED
      BY <2>3, <3>2 DEF Goto, Miss
  <2>4. ASSUME host' = [host EXCEPT !.payload = TRUE], host.sibling,
               NEW what, what = {}, Miss(d, "pieces", what)
        PROVE  SeesInv'
    <3>1. PICK s, r :
              /\ s \in Runs /\ s = doctor[d] /\ doctor' = [doctor EXCEPT ![d] = r]
              /\ r.at = "pieces" /\ r.env = s.env /\ r.cards = s.cards
              /\ r.missing = s.missing \cup what /\ r.since = s.since /\ Told(s)
      <4>1. Miss(d, "pieces", what) /\ ~At(d, "idle")
        BY <2>1, <2>4 DEF At
      <4>2. QED
        BY <4>1, DoctorMisses
    <3>2. host \in Hosts
      BY DEF Typed
    <3>3. Kept /\ host'.sibling /\ host'.payload
      BY <2>1, <2>4, <3>2 DEF Kept, Hosts
    <3>4. Sees(s) => Sees(r)'
      <4>1. r.missing = s.missing
        BY <2>4, <3>1
      <4>2. QED
        BY <2>1, <3>1, <3>3, <4>1, AfterBuild
    <3>5. QED
      BY <3>1, <3>3, <3>4, DoctorSees DEF Told
  <2>5. CASE ~host.sibling
    BY <1>10, <2>2, <2>5 DEF CheckSibling, MissForCards
  <2>6. CASE host.sibling /\ host.payload
    BY <1>10, <2>2, <2>3, <2>6 DEF CheckSibling
  <2>7. CASE host.sibling /\ ~host.payload
    BY <1>10, <2>2, <2>3, <2>4, <2>7 DEF CheckSibling, MissForCards
  <2>8. QED
    BY <2>5, <2>6, <2>7
\* Nothing a query does is seen.
<1>11. CASE UNCHANGED <<host, changes, doctorVars>>
  <2>1. Kept /\ Begun' = Begun
    BY <1>11, KeptIfUnchanged DEF Begun, At, doctorVars
  <2>2. QED
    BY <2>1, ToldKept DEF SeesInv
\* A report of before a change is of no account.
<1>12. CASE Change /\ UNCHANGED doctorVars
  <2>1. changes > 0 /\ changes' = changes - 1
    BY <1>12 DEF Change
  <2>2. Begun' = Begun
    BY <1>12 DEF Begun, At, doctorVars
  <2>3. ASSUME NEW r \in Begun PROVE Told(r)'
    <3>1. r \in Runs /\ changes <= r.since
      BY <1>0, <2>3 DEF Begun, SeesInv, Told
    <3>2. changes' <= r.since /\ changes' # r.since
      BY <1>0, <2>1, <3>1 DEF Runs
    <3>3. QED
      BY <3>2 DEF Told
  <2>4. QED
    BY <2>2, <2>3 DEF SeesInv
<1>13. QED
  BY <1>1, <1>4, <1>5, <1>6, <1>7, <1>8, <1>9, <1>10, <1>11, <1>12, QueryKeeps
     DEF Next, DoctorNext, DoctorStep, setupVars, hostVars, doctorVars

------------------------------------------------------------------------------
(* The query, begun after the report and on the same host.                 *)

\* How a query ends on a host where r missed nothing.
LEMMA FollowsEnd ==
  ASSUME NEW r, Follows(r), UNCHANGED <<host, process>>, NEW why, End(why),
         why # "answered", r.missing = {} => why \notin NotInPlace
  PROVE  Follows(r)'
<1>1. stage' = "done" /\ outcome' = why
  BY DEF End
<1>2. env' = env /\ inner' = inner /\ site' = site /\ host' = host
  BY DEF process
<1>3. Resolve(env)' = Resolve(env)
  BY <1>2 DEF Resolve
<1>4. Stands'
  BY <1>1, <1>2, <1>3 DEF Follows, Stands, Subjected, Parsed
<1>5. QED
  BY <1>1, <1>2, <1>4 DEF Follows, NotInPlace

LEMMA FollowsRefuse ==
  ASSUME NEW r, Follows(r), NEW why, Refuse(why), why # "answered",
         r.missing = {} => why \notin NotInPlace
  PROVE  Follows(r)'
  BY FollowsEnd DEF Refuse

\* A query that goes on with what it had.
LEMMA FollowsGo ==
  ASSUME NEW r, Follows(r), UNCHANGED <<host, env, inner, site, outcome>>,
         outcome # "answered",
         stage' \notin {"take", "payload", "load"},
         stage' = "prepare" => site # "none",
         stage' \in Parsed => host.parses,
         stage' \in Subjected => host.subject
  PROVE  Follows(r)'
<1>1. Resolve(env)' = Resolve(env)
  BY DEF Resolve
<1>2. Stands'
  BY <1>1 DEF Follows, Stands, Subjected, Parsed
<1>3. QED
  BY <1>2 DEF Follows, NotInPlace

\* What a report of "done" that sees the host says of it.
LEMMA DoneSees ==
  ASSUME NEW r, Sees(r), r.at = "done"
  PROVE  /\ Unmissed(r, "config") <=> host.parses
         /\ Unmissed(r, "subject") <=> host.subject
         /\ r.cards = host.up
         /\ Unmissed(r, "site") <=> Resolve(r.env) # "none"
         /\ NeedsCards(r) =>
               /\ Unmissed(r, "AVX-512") <=> host.sibling
               /\ Unmissed(r, "AVX-512") /\ Unmissed(r, "payload") => host.payload
               /\ Unmissed(r, "cards") <=> host.up # {}
         /\ Unmissed(r, "avx512 site") <=> ~NeedsBuild(r)
<1>1. (Unmissed(r, "config") <=> host.parses) /\ (Unmissed(r, "subject") <=> host.subject)
  BY DEF Sees, SeesConfiguration, Past
<1>2. r.cards = host.up
  BY DEF Sees, SeesWindows, Past
<1>3. Unmissed(r, "site") <=> Resolve(r.env) # "none"
  BY DEF Sees, SeesSite, Past
<1>4. NeedsCards(r) => /\ Unmissed(r, "AVX-512") <=> host.sibling
                       /\ Unmissed(r, "AVX-512") /\ Unmissed(r, "payload") => host.payload
  BY DEF Sees, SeesSibling, Past
<1>5. /\ NeedsCards(r) => (Unmissed(r, "cards") <=> host.up # {})
      /\ Unmissed(r, "avx512 site") <=> ~NeedsBuild(r)
  BY DEF Sees, SeesPieces, Past
<1>6. QED
  BY <1>1, <1>2, <1>3, <1>4, <1>5

\* The cards' sites need them, however they were asked for.
LEMMA SiteNeedsCards ==
  ASSUME NEW r, r.cards = host.up, Resolve(r.env) \in {"cards", "avx512"}
  PROVE  NeedsCards(r)
  BY DEF Resolve, NeedsCards

LEMMA FollowsNext ==
  ASSUME QueryNext, \A c \in CommandLines : ~Begin(c), NEW r, Sees(r), r.at = "done", Follows(r)
  PROVE  Follows(r)'
<1>0. env = r.env /\ Stands /\ (outcome = "answered" => stage = "done")
  BY DEF Follows, Stands
<1>1. r.missing = {} => \A what : Unmissed(r, what)
  BY DEF Unmissed
<1>2. Route => Follows(r)'
  <2>1. CASE host.parses /\ host.conditions
    BY <1>0, <2>1, FollowsGo DEF Route, hostVars, Subjected, Parsed
  <2>2. CASE ~host.parses
    BY <1>1, <2>2, DoneSees, FollowsRefuse DEF Route
  <2>3. CASE host.parses /\ ~host.conditions
    BY <2>3, FollowsRefuse DEF Route, NotInPlace
  <2>4. QED
    BY <2>1, <2>2, <2>3
<1>3. ReadRequest => Follows(r)'
  <2>1. ReadRequest => host.parses
    BY <1>0 DEF ReadRequest, Stands, Parsed
  <2>2. QED
    BY <1>0, <2>1, FollowsGo DEF ReadRequest, hostVars, Subjected, Parsed
<1>4. Unreadable => Follows(r)'
  BY FollowsEnd DEF Unreadable, NotInPlace
<1>5. AskServer => Follows(r)'
  BY FollowsRefuse, FollowsEnd DEF AskServer, Judge, NotInPlace
<1>6. CheckSubject => Follows(r)'
  <2>1. CASE host.subject
    BY <1>0, <2>1, FollowsGo DEF CheckSubject, Go, Subjected, Parsed, Stands, hostVars
  <2>2. CASE ~host.subject
    BY <1>1, <2>2, DoneSees, FollowsRefuse DEF CheckSubject
  <2>3. QED
    BY <2>1, <2>2
<1>7. ResolveSite => Follows(r)'
  <2>1. CASE Resolve(env) = "none"
    BY <1>0, <1>1, <2>1, DoneSees, FollowsRefuse DEF ResolveSite
  <2>2. ASSUME ResolveSite, Resolve(env) # "none" PROVE Stands'
    <3>1. /\ stage = "resolve" /\ stage' = "prepare" /\ site' = Resolve(env)
          /\ UNCHANGED <<host, env, inner, outcome>>
      BY <2>2 DEF ResolveSite, Go, hostVars
    <3>2. Resolve(env)' = Resolve(env)
      BY <3>1 DEF Resolve
    <3>3. QED
      BY <1>0, <2>2, <3>1, <3>2 DEF Stands, Subjected, Parsed
  <2>3. QED
    BY <1>0, <2>1, <2>2 DEF ResolveSite, Go, Follows, NotInPlace
<1>8. ASSUME NEW l \in {"take", "load"}, stage = "prepare", Go(l), UNCHANGED site,
             Reached(l)', l = "take" => cards' = host.up /\ site \in {"cards", "avx512"}
      PROVE  Follows(r)'
  <2>1. /\ stage' = l /\ UNCHANGED <<host, env, inner, outcome>>
    BY <1>8 DEF Go, hostVars
  <2>2. Resolve(env)' = Resolve(env)
    BY <2>1 DEF Resolve
  <2>3. Stands'
    BY <1>0, <1>8, <2>1, <2>2 DEF Stands, Subjected, Parsed
  <2>4. QED
    BY <1>0, <2>1, <2>3 DEF Follows, NotInPlace
\* `prepare` is where its site is put in place.
<1>9. ASSUME stage = "prepare"
      PROVE  host.parses /\ host.subject /\ site = Resolve(env) /\ site # "none"
  BY <1>0, <1>9 DEF Stands, Subjected, Parsed
<1>10. PrepareX86 => Follows(r)'
  <2>1. ASSUME PrepareX86 PROVE Reached("load")'
    <3>1. stage = "prepare" /\ site = "x86" /\ UNCHANGED <<host, env, site>>
      BY <2>1 DEF PrepareX86, On, Go, hostVars
    <3>2. Resolve(env)' = Resolve(env)
      BY <3>1 DEF Resolve
    <3>3. QED
      BY <1>9, <3>1, <3>2 DEF Reached
  <2>2. QED
    BY <1>8, <2>1 DEF PrepareX86, On
\* r, like the query, asked for the cards or found some up.
<1>11. ASSUME stage \in {"prepare", "payload"}, site \in {"cards", "avx512"} PROVE NeedsCards(r)
  <2>1. site = Resolve(r.env)
    BY <1>0, <1>11 DEF Stands
  <2>2. QED
    BY <1>11, <2>1, DoneSees, SiteNeedsCards
<1>12. FindCards => Follows(r)'
  <2>1. CASE site = "cards" /\ host.up = {}
    <3>1. FindCards => (r.missing = {} => FALSE)
      BY <1>1, <1>11, <2>1, DoneSees DEF FindCards, On
    <3>2. QED
      BY <2>1, <3>1, FollowsRefuse DEF FindCards
  <2>2. CASE site = "avx512" /\ 0 \notin host.up
    BY <2>2, FollowsRefuse DEF FindCards, NotInPlace
  <2>3. ASSUME FindCards, ~(site = "cards" /\ host.up = {}), ~(site = "avx512" /\ 0 \notin host.up)
        PROVE  Reached("take")'
    <3>1. /\ stage = "prepare" /\ (site = "avx512" => inner) /\ cards' = host.up
          /\ UNCHANGED <<host, env, inner, site>>
      BY <2>3 DEF FindCards, On, Go, hostVars
    <3>2. Resolve(env)' = Resolve(env)
      BY <3>1 DEF Resolve
    <3>3. QED
      BY <1>9, <2>3, <3>1, <3>2 DEF Reached
  <2>4. QED
    BY <1>8, <2>1, <2>2, <2>3 DEF FindCards, On
<1>13. Exec => Follows(r)'
  <2>. SUFFICES ASSUME Exec PROVE Follows(r)'
    OBVIOUS
  <2>1. stage = "prepare" /\ site = "avx512" /\ ~inner
    BY DEF Exec, On
  <2>2. Requested(env) = "avx512"
    BY <1>9, <2>1, AskedByName
  <2>3. Load(env) = env
    BY <2>2 DEF Load, Requested
  <2>4. CASE ~host.wrapper
    BY <2>4, FollowsRefuse DEF Exec, NotInPlace
  <2>5. CASE host.wrapper /\ ~host.avx512
    <3>1. NeedsBuild(r)
      BY <1>0, <2>2, <2>5 DEF NeedsBuild
    <3>2. r.missing # {}
      BY <1>1, <3>1, DoneSees
    <3>3. QED
      BY <2>5, <3>2, FollowsRefuse DEF Exec
  <2>6. CASE host.wrapper /\ host.avx512
    <3>1. /\ stage' = "route" /\ inner' /\ site' = "none" /\ env' = env
          /\ UNCHANGED <<host, outcome>>
      BY <2>3, <2>6 DEF Exec, hostVars
    <3>2. Stands'
      BY <1>0, <2>1, <2>6, <3>1 DEF Stands, Subjected, Parsed
    <3>3. QED
      BY <1>0, <3>1, <3>2 DEF Follows, NotInPlace
  <2>7. QED
    BY <2>4, <2>5, <2>6
<1>14. TakeCards => Follows(r)'
  <2>1. CASE holder # Nobody
    BY <2>1, FollowsRefuse DEF TakeCards, NotInPlace
  <2>2. ASSUME TakeCards, holder = Nobody PROVE Follows(r)'
    <3>1. /\ stage = "take" /\ stage' = "payload"
          /\ UNCHANGED <<host, env, inner, site, cards, outcome>>
      BY <2>2 DEF TakeCards, process
    <3>2. Resolve(env)' = Resolve(env)
      BY <3>1 DEF Resolve
    <3>3. Reached("take")'
      BY <1>0, <3>1, <3>2 DEF Stands, Reached
    <3>4. Stands'
      BY <1>0, <3>1, <3>2, <3>3 DEF Stands, Subjected, Parsed
    <3>5. QED
      BY <1>0, <3>1, <3>4 DEF Follows, NotInPlace
  <2>3. QED
    BY <2>1, <2>2
<1>15. PutWorkers => Follows(r)'
  <2>. SUFFICES ASSUME PutWorkers PROVE Follows(r)'
    OBVIOUS
  <2>1. stage = "payload" /\ Reached("take") /\ cards = host.up
    BY <1>0 DEF PutWorkers, Stands
  <2>2. CASE PayloadCards # {} /\ ~host.payload
    <3>1. site \in {"cards", "avx512"} => r.missing # {}
      BY <1>1, <1>11, <2>1, <2>2, DoneSees
    <3>2. r.missing # {}
      BY <1>0, <2>1, <3>1 DEF Stands
    <3>3. QED
      BY <2>2, <3>2, FollowsRefuse DEF PutWorkers
  <2>3. CASE ~(PayloadCards # {} /\ ~host.payload)
    <3>1. Reached("load")
      BY <2>1, <2>3 DEF Reached, PayloadCards
    <3>2. stage' = "load" /\ UNCHANGED <<host, env, inner, site, cards, outcome>>
      BY <2>3 DEF PutWorkers, Go, hostVars
    <3>3. Resolve(env)' = Resolve(env)
      BY <3>2 DEF Resolve
    <3>4. Reached("load")'
      BY <3>1, <3>2, <3>3 DEF Reached
    <3>5. Stands'
      BY <1>0, <2>1, <3>2, <3>3, <3>4 DEF Stands, Subjected, Parsed
    <3>6. QED
      BY <1>0, <2>1, <3>2, <3>5 DEF Follows, NotInPlace
  <2>4. QED
    BY <2>2, <2>3
<1>16. Breaks \/ Killed => Follows(r)'
  BY FollowsRefuse DEF Breaks, Killed, NotInPlace
<1>17. Answer => Follows(r)'
  <2>. SUFFICES ASSUME Answer PROVE Follows(r)'
    OBVIOUS
  <2>1. /\ stage = "load" /\ stage' = "done" /\ outcome' = "answered"
        /\ UNCHANGED <<host, env, inner, site, cards>>
    BY DEF Answer, Judge, End, process
  <2>2. Resolve(env)' = Resolve(env)
    BY <2>1 DEF Resolve
  <2>3. Reached("load")'
    BY <1>0, <2>1, <2>2 DEF Stands, Reached
  <2>4. Stands'
    BY <1>0, <2>1, <2>2, <2>3 DEF Stands, Subjected, Parsed
  <2>5. QED
    BY <1>0, <2>1, <2>4 DEF Follows, NotInPlace
<1>18. QED
  BY <1>2, <1>3, <1>4, <1>5, <1>6, <1>7, <1>10, <1>12, <1>13, <1>14, <1>15, <1>16, <1>17
     DEF QueryNext

\* A doctor's fix helps a query that is under way, and undoes nothing.
LEMMA FollowsKept ==
  ASSUME Kept, UNCHANGED queryVars, NEW r, Follows(r)
  PROVE  Follows(r)'
<1>1. Resolve(env)' = Resolve(env)
  <2>1. \A e : Resolve(e)' = Resolve(e)
    BY DEF Kept, Resolve
  <2>2. env' = env
    BY DEF queryVars, process
  <2>3. QED
    BY <2>1, <2>2 DEF Kept, Resolve
<1>2. /\ UNCHANGED <<stage, env, inner, site, cards, outcome>>
      /\ UNCHANGED <<host.parses, host.subject, host.wrapper, host.avx512, host.up>>
      /\ host.payload => host'.payload
  BY DEF Kept, queryVars, process
<1>3. Stands'
  BY <1>1, <1>2 DEF Follows, Stands, Reached, Subjected, Parsed
<1>4. QED
  BY <1>2, <1>3 DEF Follows, NotInPlace

LEMMA DoctorKeeps == Typed /\ DoctorNext => Kept
<1>. SUFFICES ASSUME Typed, DoctorNext PROVE Kept
  OBVIOUS
<1>1. CASE UNCHANGED hostVars
  BY <1>1, KeptIfUnchanged DEF hostVars
<1>2. CASE host' = [host EXCEPT !.payload = TRUE] /\ UNCHANGED changes
  BY <1>2 DEF Typed, Hosts, Kept
<1>3. QED
  BY <1>1, <1>2, KeptIfUnchanged
     DEF DoctorNext, DoctorStep, Visit, FindXks, LookAtLink, LeaveLink, RemoveLink, MakeLink,
         CheckConfiguration, ReadWindows, CheckSite, CheckSibling, CheckPieces, hostVars

LEMMA QueryGoesOn == QueryNext /\ (\A c \in CommandLines : ~Begin(c)) => UNCHANGED queries
  BY DEF QueryNext, Route, ReadRequest, Unreadable, AskServer, CheckSubject,
     ResolveSite, PrepareX86, FindCards, Exec, TakeCards, PutWorkers, Breaks, Answer,
     Killed, Refuse, Go, Judge

LEMMA ToldInvNext == Inv /\ [Next]_setupVars => ToldInv'
<1>. SUFFICES ASSUME Inv, [Next]_setupVars PROVE ToldInv'
  OBVIOUS
<1>0. Typed /\ IsHostInv /\ SeesInv /\ ToldInv /\ queries \in Nat /\ changes \in Nat
  BY DEF Inv, Typed
<1>1. CASE DoctorNext /\ UNCHANGED <<queryVars, told>>
  <2>1. Kept /\ changes' = changes
    BY <1>0, <1>1, DoctorKeeps DEF Kept
  <2>2. \A r \in told : Told(r)' /\ (r.since = changes => Follows(r)')
    BY <1>0, <1>1, <2>1, ToldKept, FollowsKept DEF ToldInv
  <2>3. QED
    BY <1>0, <1>1, <2>1, <2>2 DEF ToldInv
<1>2. CASE Change /\ UNCHANGED <<doctorVars, queryVars, told>>
  <2>1. changes > 0 /\ changes' = changes - 1
    BY <1>2 DEF Change
  <2>2. ASSUME NEW r \in told PROVE Told(r)' /\ r.since # changes'
    <3>1. r \in Runs /\ changes <= r.since
      BY <1>0 DEF ToldInv, Told
    <3>2. changes' <= r.since /\ changes' # r.since
      BY <1>0, <2>1, <3>1 DEF Runs
    <3>3. QED
      BY <3>2 DEF Told
  <2>3. QED
    BY <1>0, <1>2, <2>2 DEF ToldInv
\* The reports on the desk when a query begins.
<1>3. ASSUME NEW c \in CommandLines, Begin(c), UNCHANGED doctorVars, told' = Reports
      PROVE  ToldInv'
  <2>1. Kept /\ changes' = changes
    BY <1>3, KeptIfUnchanged DEF Begin, hostVars
  <2>2. ASSUME NEW r \in Reports PROVE r \in Runs /\ r.at = "done" /\ Told(r)
    <3>1. r \in Begun /\ r \in Runs /\ r.at = "done"
      BY <1>0, <2>2 DEF Reports, Begun, At, Typed
    <3>2. QED
      BY <1>0, <3>1 DEF SeesInv
  <2>3. ASSUME NEW r \in Reports, r.since = changes PROVE Follows(r)'
    <3>1. r.env = Load(Unset)
      BY <2>2, <2>3 DEF Told, Sees
    <3>2. env' = r.env /\ site' = "none" /\ inner' = FALSE /\ stage' = "route" /\ outcome' = "none"
      BY <1>3, <3>1 DEF Begin
    <3>3. Stands'
      BY <3>2 DEF Stands, Subjected, Parsed
    <3>4. QED
      BY <3>2, <3>3 DEF Follows, NotInPlace
  <2>4. \A r \in Reports : Told(r)'
    BY <2>1, <2>2, ToldKept
  <2>5. QED
    BY <1>3, <2>1, <2>2, <2>3, <2>4 DEF ToldInv
<1>4. ASSUME QueryNext, \A c \in CommandLines : ~Begin(c), UNCHANGED told PROVE ToldInv'
  <2>1. Kept /\ changes' = changes
    BY <1>4, QueryKeeps, KeptIfUnchanged DEF Kept
  <2>2. ASSUME NEW r \in told PROVE r \in Runs /\ r.at = "done" /\ Told(r)'
    BY <1>0, <2>1, ToldKept DEF ToldInv
  <2>3. ASSUME NEW r \in told, r.since = changes PROVE Follows(r)'
    BY <1>0, <1>4, <2>3, FollowsNext DEF ToldInv, Told
  <2>4. QED
    BY <1>4, <2>1, <2>2, <2>3 DEF ToldInv
<1>5. CASE UNCHANGED setupVars
  <2>1. Kept /\ UNCHANGED <<changes, queryVars, told>>
    BY <1>5, KeptIfUnchanged DEF setupVars, hostVars
  <2>2. \A r \in told : Told(r)' /\ (r.since = changes => Follows(r)')
    BY <1>0, <2>1, ToldKept, FollowsKept DEF ToldInv
  <2>3. QED
    BY <1>0, <2>1, <2>2 DEF ToldInv
<1>6. QED
  <2>1. ASSUME QueryNext, told' = (IF queries' # queries THEN Reports ELSE told),
               UNCHANGED doctorVars
        PROVE  ToldInv'
    <3>1. CASE \E c \in CommandLines : Begin(c)
      <4>1. queries' # queries
        BY <1>0, <3>1 DEF Begin
      <4>2. QED
        BY <1>3, <2>1, <3>1, <4>1
    <3>2. CASE \A c \in CommandLines : ~Begin(c)
      <4>1. queries' = queries
        BY <2>1, <3>2, QueryGoesOn
      <4>2. QED
        BY <1>4, <2>1, <3>2, <4>1
    <3>3. QED
      BY <3>1, <3>2
  <2>2. QED
    BY <1>1, <1>2, <1>5, <2>1 DEF Next

LEMMA InvInit == Init => Inv
<1>. SUFFICES ASSUME Init PROVE Inv
  OBVIOUS
<1>1. Typed
  BY TypedInit
<1>2. IsHostInv
  BY HostAssumption DEF Init, HostInit, IsHost, IsHostInv
<1>3. queries \in Nat
  BY QueryAssumption DEF Init, QueryInit
<1>4. SeesInv
  BY DEF Init, DoctorInit, Waiting, SeesInv, Begun, At
<1>5. ToldInv
  BY DEF Init, ToldInv
<1>6. QED
  BY <1>1, <1>2, <1>3, <1>4, <1>5 DEF Inv

LEMMA InvNext == Inv /\ [Next]_setupVars => Inv'
<1>. SUFFICES ASSUME Inv, [Next]_setupVars PROVE Inv'
  OBVIOUS
<1>0. Typed /\ IsHostInv /\ SeesInv /\ ToldInv /\ queries \in Nat
  BY DEF Inv
<1>1. Typed' /\ SeesInv' /\ ToldInv'
  BY <1>0, TypedNext, SeesInvNext, ToldInvNext
<1>2. IsHostInv'
  <2>1. CASE DoctorNext
    <3>1. \/ UNCHANGED host
          \/ host.sibling /\ host' = [host EXCEPT !.payload = TRUE]
      BY <2>1 DEF DoctorNext, DoctorStep, Visit, FindXks, LookAtLink, LeaveLink, RemoveLink,
         MakeLink, CheckConfiguration, ReadWindows, CheckSite, CheckSibling, CheckPieces,
         hostVars
    <3>2. QED
      BY <1>0, <3>1 DEF IsHostInv, Typed, Hosts
  <2>2. CASE Change
    BY <1>0, <2>2 DEF Change, IsHostInv, Typed, Hosts
  <2>3. CASE UNCHANGED host
    BY <1>0, <2>3 DEF IsHostInv
  <2>4. QED
    BY <2>1, <2>2, <2>3, QueryKeeps DEF Next, setupVars, hostVars
<1>3. queries' \in Nat
  <2>1. CASE \E c \in CommandLines : Begin(c)
    BY <1>0, <2>1 DEF Begin
  <2>2. CASE UNCHANGED queries
    BY <1>0, <2>2
  <2>3. QED
    BY <2>1, <2>2, QueryGoesOn DEF Next, setupVars, queryVars
<1>4. QED
  BY <1>1, <1>2, <1>3 DEF Inv

LEMMA SpecInv == Spec => []Inv
  BY InvInit, InvNext, PTL DEF Spec

------------------------------------------------------------------------------
\* A query on the host that the doctor called ready is not refused for want
\* of a piece (but for phi512's wrapper, that card 0 is among the cards up, and
\* the file XKS_CONDITIONING names).
THEOREM ReadyIsEnough == Spec => []ReadyAnswers
<1>1. Inv => ReadyAnswers
  BY DEF Inv, ToldInv, Follows, ReadyAnswers, Fresh, NotInPlace
<1>. QED
  BY <1>1, SpecInv, PTL

\* What the doctor misses a query needs: one that answered had it by then
\* (but for `phi`, and the payload on the avx512 site with card 0 alone).
THEOREM MissingIsNotIdle == Spec => []MissingIsNeeded
<1>1. Inv => MissingIsNeeded
  <2>. SUFFICES ASSUME Inv, NEW r \in Fresh, outcome = "answered"
                PROVE  Still(r) \subseteq IF site = "avx512" /\ cards = {0}
                                          THEN {"stack", "payload"} ELSE {"stack"}
    BY DEF MissingIsNeeded
  <2>1. Sees(r) /\ r.at = "done" /\ r \in Runs /\ env = r.env /\ Stands /\ Reached("load")
    BY DEF Inv, ToldInv, Fresh, Told, Follows, Stands
  <2>2. Unmissed(r, "config") /\ Unmissed(r, "subject") /\ Unmissed(r, "site")
    BY <2>1, DoneSees DEF Reached
  <2>3. site \in {"cards", "avx512"} => host.sibling
    BY <2>1 DEF Inv, IsHostInv, Reached, Stands
  <2>4. NeedsCards(r) => site \in {"cards", "avx512"}
    BY <2>1, DoneSees DEF Reached, Resolve, NeedsCards
  <2>5. Unmissed(r, "AVX-512")
    BY <2>1, <2>3, <2>4, DoneSees DEF Sees, NothingYet, Unmissed
  <2>6. Unmissed(r, "cards")
    BY <2>1, <2>4, DoneSees DEF Sees, NothingYet, Unmissed, Reached
  <2>7. Unmissed(r, "avx512 site")
    BY <2>1, DoneSees DEF NeedsBuild, Reached, Resolve, Stands
  <2>8. r.missing \subseteq {"payload", "stack"}
    BY <2>1, <2>2, <2>5, <2>6, <2>7 DEF Runs, Findings, Unmissed
  <2>9. Unmissed(r, "payload") \/ host.payload \/ (site = "avx512" /\ cards = {0})
    BY <2>1, <2>4 DEF Sees, NothingYet, Unmissed, Reached
  <2>10. QED
    BY <2>8, <2>9 DEF Still, Unmissed
<1>. QED
  BY <1>1, SpecInv, PTL
==============================================================================
