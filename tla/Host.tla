--------------------------------- MODULE Host ---------------------------------
(***************************************************************************)
(* The machine xks runs on, as `xks doctor` (Doctor) and `xks query`       *)
(* (Query) look at it: what is configured, what is installed, which cards  *)
(* are up, whether a server answers and whether somebody has the cards.    *)
(* It may change under both, a bounded number of times.                    *)
(***************************************************************************)
EXTENDS Integers, Sequences, FiniteSetsExt

CONSTANTS Cards,        \* the host's cards; the first is 0
          Starts        \* [host, changes]: how it may be, and may change

VARIABLES host,     \* the record below
          changes,  \* how many changes are still to come
          holder    \* of the cards' lock: Nobody, Query's process, or another

hostVars == <<host, changes, holder>>

Nobody == "nobody"
Unset == "unset"

\* files: what each configuration file sets XKS_SITE to, the most important
\* first; parses: XKS_TEMPLATE and XKS_LAYOUT; conditions: XKS_CONDITIONING is
\* unset or names a file that parses; subject: XKS_SUBJECT is set and a file;
\* sibling: the Intel-Phi-AVX512 checkout, with its payload and
\* its phi512 wrapper; avx512: the AVX-512 build; phi: that command on PATH;
\* up: the cards whose daemon answers; server: one answers at XKS_BIND, or at
\* the address in the cards' lock.
Named == {"auto", "x86", "cards", "avx512", "mistyped"}
Hosts == [files : Seq(Named \cup {Unset}), parses : BOOLEAN, conditions : BOOLEAN,
          subject : BOOLEAN, sibling : BOOLEAN, payload : BOOLEAN, wrapper : BOOLEAN, avx512 : BOOLEAN,
          phi : BOOLEAN, up : SUBSET Cards, server : BOOLEAN]
IsHost(h) == h \in Hosts /\ (h.payload \/ h.wrapper => h.sibling)

ASSUME HostAssumption ==
    /\ 0 \in Cards
    /\ \A s \in Starts : IsHost(s.host) /\ s.changes \in Nat

HostInit ==
    /\ \E s \in Starts : host = s.host /\ changes = s.changes
    /\ holder = Nobody

\* config::load: a key already in the environment stays; the first file that
\* sets it has it otherwise, and every process started from here inherits it.
Load(env) ==
    LET set == {i \in DOMAIN host.files : host.files[i] # Unset}
    IN  IF env # Unset \/ set = {} THEN env
        ELSE host.files[Min(set)]

\* --site: from the environment, `auto` without.
Requested(env) == IF env = Unset THEN "auto" ELSE env

\* site::resolve looks at the cards for `auto` alone.
Resolve(env) ==
    IF Requested(env) = "auto" THEN IF host.up = {} THEN "x86" ELSE "cards"
    ELSE IF Requested(env) = "mistyped" THEN "none"
    ELSE Requested(env)

\* Somebody else: a card comes up or goes down, a server starts or stops,
\* another process takes the cards or leaves them, a file is edited.
Change ==
    /\ changes > 0 /\ changes' = changes - 1
    /\ \/ /\ \E c \in Cards :
                host' = [host EXCEPT !.up = IF c \in @ THEN @ \ {c} ELSE @ \cup {c}]
          /\ UNCHANGED holder
       \/ /\ \/ host' = [host EXCEPT !.server = ~@]
             \/ \E s \in Named : host' = [host EXCEPT !.files[1] = s]
          /\ UNCHANGED holder
       \/ /\ holder' = IF holder = Nobody THEN "another" ELSE Nobody
          /\ holder \in {Nobody, "another"}
          /\ UNCHANGED host
==============================================================================
