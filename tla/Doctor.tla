-------------------------------- MODULE Doctor --------------------------------
(***************************************************************************)
(* `xks doctor` (src/doctor.rs run and place_link): the walk from this     *)
(* binary to the cards, what it reports missing, and what --fix does, a    *)
(* link on PATH and the payload's build.  Several may run at once, each    *)
(* from a checkout of its own, and link at the same place.                 *)
(***************************************************************************)
EXTENDS Host

CONSTANTS Doctors,  \* the runs; each is also the name of its build
          Links     \* what may be at PREFIX/bin/xks at first

VARIABLES link,     \* what is at PREFIX/bin/xks
          doctor    \* of each run, the record below

doctorVars == <<link, doctor>>

\* What the link may be when it is no run's build.
Elsewhere == {"absent", "file", "dangling", "other"}

ASSUME DoctorAssumption ==
    Links \subseteq Elsewhere \cup Doctors /\ Doctors \cap Elsewhere = {}

\* at: its next look; saw: the link's state when it looked; placed: it
\* reported its link in place; env, cards: XKS_SITE and the cards it read;
\* missing: the findings of level Missing; since: the changes then to come.
Waiting == [at |-> "idle", fix |-> FALSE, saw |-> "absent", placed |-> FALSE,
            env |-> Unset, cards |-> {}, missing |-> {}, since |-> 0]

DoctorInit ==
    /\ link \in Links
    /\ \E some \in SUBSET Doctors : doctor = [d \in some |-> Waiting]

At(d, l) == doctor[d].at = l
Goto(d, l) == doctor' = [doctor EXCEPT ![d].at = l]
Miss(d, l, what) ==
    doctor' = [doctor EXCEPT ![d].at = l, ![d].missing = @ \cup what]

\* The process starts, its configuration in its environment.
Visit(d, fix) ==
    /\ At(d, "idle")
    /\ doctor' = [doctor EXCEPT ![d] =
                     [Waiting EXCEPT !.at = "found", !.fix = fix, !.since = changes,
                                     !.env = Load(Unset)]]
    /\ UNCHANGED <<link, hostVars>>

\* Whether a shell finds this build first on PATH, at the link's place or at
\* another; a note at most.
FindXks(d) ==
    /\ At(d, "found")
    /\ \E first \in BOOLEAN :
          Goto(d, IF ~first /\ doctor[d].fix THEN "look" ELSE "configuration")
    /\ UNCHANGED <<link, hostVars>>

------------------------------------------------------------------------------
(* place_link.                                                             *)

LookAtLink(d) ==
    /\ At(d, "look")
    /\ doctor' = [doctor EXCEPT ![d].at = "place", ![d].saw = link]
    /\ UNCHANGED <<link, hostVars>>

\* Left alone: a file, and the link that is there already.
LeftIfOurs(d) == {d}
LeftAlone(d) == {"file", d}

LeaveLink(d) ==
    /\ At(d, "place") /\ doctor[d].saw \in LeftAlone(d)
    /\ doctor' = [doctor EXCEPT ![d].at = "configuration", ![d].placed = doctor[d].saw = d]
    /\ UNCHANGED <<link, hostVars>>

\* remove_file, of whatever is there by now: an error when nothing is.
RemoveLink(d) ==
    /\ At(d, "place") /\ doctor[d].saw \notin LeftAlone(d) \cup {"absent"}
    /\ link' = "absent"
    /\ Goto(d, IF link = "absent" THEN "configuration" ELSE "symlink")
    /\ UNCHANGED hostVars

\* symlink: an error when something is there by now.
MakeLink(d) ==
    /\ \/ At(d, "symlink")
       \/ At(d, "place") /\ doctor[d].saw = "absent"
    /\ IF link = "absent"
       THEN link' = d /\ doctor' = [doctor EXCEPT ![d].at = "configuration",
                                                  ![d].placed = TRUE]
       ELSE Goto(d, "configuration") /\ UNCHANGED link
    /\ UNCHANGED hostVars

------------------------------------------------------------------------------
(* The chain a question needs.                                             *)

CheckConfiguration(d) ==
    /\ At(d, "configuration")
    /\ Miss(d, "windows", (IF host.parses THEN {} ELSE {"config"})
                              \cup (IF host.subject THEN {} ELSE {"subject"}))
    /\ UNCHANGED <<link, hostVars>>

\* The cards are read once for the report, and by `resolve` again.
ReadWindows(d) ==
    /\ At(d, "windows")
    /\ doctor' = [doctor EXCEPT ![d].at = "site", ![d].cards = host.up]
    /\ UNCHANGED <<link, hostVars>>

CheckSite(d) ==
    /\ At(d, "site")
    /\ Miss(d, "sibling", IF Resolve(doctor[d].env) = "none" THEN {"site"} ELSE {})
    /\ UNCHANGED <<link, hostVars>>

\* Asked for by name, or `auto` with a card up.
NeedsUnlessX86(r) == Requested(r.env) # "x86"

NeedsCards(r) ==
    \/ Requested(r.env) \in {"cards", "avx512"}
    \/ Requested(r.env) = "auto" /\ r.cards # {}
MissForCards(d, l, what) == Miss(d, l, IF NeedsCards(doctor[d]) THEN what ELSE {})

CheckSibling(d) ==
    /\ At(d, "sibling")
    /\ IF ~host.sibling THEN MissForCards(d, "pieces", {"AVX-512"}) /\ UNCHANGED host
       ELSE IF host.payload THEN Goto(d, "pieces") /\ UNCHANGED host
       ELSE \/ MissForCards(d, "pieces", {"payload"}) /\ UNCHANGED host
            \/ /\ doctor[d].fix                     \* the build succeeds
               /\ host' = [host EXCEPT !.payload = TRUE]
               /\ Goto(d, "pieces")
    /\ UNCHANGED <<link, changes, holder>>

\* The stack, the cards and the avx512 build; who has the cards and which
\* server answers are notes.
NeedsNoBuild(r) == FALSE
NeedsBuild(r) == Requested(r.env) = "avx512" /\ ~host.avx512

CheckPieces(d) ==
    /\ At(d, "pieces")
    /\ LET forCards == (IF host.phi THEN {} ELSE {"stack"})
                           \cup (IF doctor[d].cards # {} THEN {} ELSE {"cards"})
       IN  Miss(d, "done", (IF NeedsCards(doctor[d]) THEN forCards ELSE {})
                               \cup (IF NeedsBuild(doctor[d]) THEN {"avx512 site"} ELSE {}))
    /\ UNCHANGED <<link, hostVars>>

Ready(d) == At(d, "done") /\ doctor[d].missing = {}

DoctorStep(d) ==
    \/ \E fix \in BOOLEAN : Visit(d, fix)
    \/ FindXks(d) \/ LookAtLink(d) \/ LeaveLink(d) \/ RemoveLink(d) \/ MakeLink(d)
    \/ CheckConfiguration(d) \/ ReadWindows(d) \/ CheckSite(d) \/ CheckSibling(d)
    \/ CheckPieces(d)

DoctorNext == \E d \in DOMAIN doctor : DoctorStep(d)

------------------------------------------------------------------------------
(* Properties.                                                             *)

Placing(d) == doctor[d].at \in {"look", "place", "symlink"}

\* A file a doctor saw in the link's place is still there ("never replaced"),
\* and of all the runs that placed their link, whatever they undid of one
\* another's, one has it in place in the end.
LinkPlaced ==
    /\ \A d \in DOMAIN doctor : doctor[d].saw = "file" => link = "file"
    /\ LET placed == {d \in DOMAIN doctor : doctor[d].placed}
       IN  placed # {} /\ (\A d \in DOMAIN doctor : ~Placing(d)) => link \in placed
==============================================================================
