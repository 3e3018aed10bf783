--------------------------------- MODULE Setup ---------------------------------
(***************************************************************************)
(* The doctor and the query on one host: what the one says is what the     *)
(* other meets.                                                            *)
(***************************************************************************)
EXTENDS Doctor, Query

VARIABLE told   \* the reports made before the query began

setupVars == <<hostVars, doctorVars, queryVars, told>>

Init == HostInit /\ DoctorInit /\ QueryInit /\ told = {}

Reports == {doctor[d] : d \in {e \in DOMAIN doctor : At(e, "done")}}

Next ==
    \/ DoctorNext /\ UNCHANGED <<queryVars, told>>
    \/ QueryNext /\ told' = (IF queries' # queries THEN Reports ELSE told)
                 /\ UNCHANGED doctorVars
    \/ Change /\ UNCHANGED <<doctorVars, queryVars, told>>

Spec == Init /\ [][Next]_setupVars

------------------------------------------------------------------------------
(* Properties.                                                             *)

\* Nothing but a doctor's own fix has changed the host since the report.
Fresh == {r \in told : r.since = changes}
Still(r) == IF host.payload THEN r.missing \ {"payload"} ELSE r.missing

\* What the doctor calls ready, a query on the same host finds in place, but
\* for three things the doctor does not look at: phi512's wrapper, that the card
\* it needs is card 0, and the file XKS_CONDITIONING names.
ReadyAnswers ==
    \A r \in Fresh : r.missing = {} =>
        outcome \notin {"config", "subject", "site", "cards", "payload", "avx512 site"}

\* A query that loads its subject has met everything the doctor misses, but
\* for the command that starts the cards, and for the payload on the avx512
\* site with card 0 alone.
MissingIsNeeded ==
    \A r \in Fresh : outcome = "answered" =>
        Still(r) \subseteq IF site = "avx512" /\ cards = {0} THEN {"stack", "payload"}
                           ELSE {"stack"}
==============================================================================
