-------------------------------- MODULE MCSetup --------------------------------
(***************************************************************************)
(* Three kinds of start: a host that lacks up to two things, one doctor    *)
(* and one query; a complete host that changes under a doctor and two      *)
(* queries of one process id; three doctors at one link.                   *)
(***************************************************************************)
EXTENDS Setup

CONSTANT FirstDoctor

MCLinks == Elsewhere \cup {FirstDoctor}

Pieces == {"parses", "conditions", "subject", "sibling", "payload", "wrapper", "avx512",
           "phi"}

\* Without the sibling there is no payload and no wrapper.
Lacking == {s \in SUBSET Pieces :
    /\ "sibling" \in s => {"payload", "wrapper"} \subseteq s
    /\ Cardinality(s \ {"sibling"}) <= 2 \/ ("sibling" \in s /\ Cardinality(s) <= 4)}

AHost(local, lacks, up) ==
    [files |-> <<local, "auto">>, parses |-> "parses" \notin lacks,
     conditions |-> "conditions" \notin lacks, subject |-> "subject" \notin lacks, sibling |-> "sibling" \notin lacks,
     payload |-> "payload" \notin lacks, wrapper |-> "wrapper" \notin lacks,
     avx512 |-> "avx512" \notin lacks, phi |-> "phi" \notin lacks,
     up |-> up, server |-> FALSE]

Local == {Unset, "x86", "cards", "avx512", "mistyped"}
Settled == {[host |-> AHost(l, s, u), changes |-> 0] :
                l \in Local, s \in Lacking, u \in SUBSET Cards}
Changing == {[host |-> AHost(l, {}, {0}), changes |-> 1] :
                l \in {Unset, "cards", "avx512"}}
MCStarts == Settled \cup Changing

MCInit ==
    /\ Init
    /\ \/ changes = 0 /\ link = "absent" /\ queries = MaxQueries - 1
          /\ DOMAIN doctor = {FirstDoctor}
       \/ changes > 0 /\ link = "absent" /\ queries = 0
          /\ DOMAIN doctor = {FirstDoctor}
       \/ changes = 0 /\ host = AHost("x86", {}, {}) /\ queries = MaxQueries
          /\ DOMAIN doctor = Doctors

MCSpec == MCInit /\ [][Next]_setupVars
==============================================================================
