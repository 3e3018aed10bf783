--------------------------------- MODULE Query ---------------------------------
(***************************************************************************)
(* `xks query` (src/main.rs, and prepare of src/site.rs): the request goes *)
(* to a running server, or the site is put in place and the subject loaded *)
(* here.  On the avx512 site the process is replaced by the AVX-512 build  *)
(* under phi512, which starts over; a request read from stdin is left for  *)
(* it in a file named for the process id.  Queries follow one another, and *)
(* may have one another's process id.                                      *)
(***************************************************************************)
EXTENDS Host

CONSTANTS Requests,     \* what is asked
          NoRequest,
          MaxQueries    \* how many queries are run

ASSUME QueryAssumption == NoRequest \notin Requests /\ MaxQueries \in Nat

VARIABLES stage,    \* of the process: none, its next step, or done
          asked,    \* its command line: the request, plain (without --local),
                    \* stdin (the request comes on it)
          env,      \* XKS_SITE in its environment
          inner,    \* XKS_SITE_INNER is set: it runs under phi512
          routed,   \* it found a running server
          reads,    \* the request it has read
          site,     \* the site it resolved
          cards,    \* the cards it saw
          left,     \* the request left in the process id's file
          outcome,  \* answered, asked the server, or why not
          judged,   \* the request that was judged
          queries

process == <<asked, env, inner, routed, reads, site, cards>>
queryVars == <<stage, process, left, outcome, judged, queries>>

Idle == [request |-> NoRequest, plain |-> FALSE, stdin |-> FALSE]
CommandLines == [request : Requests, plain : BOOLEAN, stdin : BOOLEAN]

QueryInit ==
    /\ stage = "none" /\ asked = Idle
    /\ env = Unset /\ inner = FALSE /\ routed = FALSE /\ reads = NoRequest
    /\ site = "none" /\ cards = {} /\ left = NoRequest
    /\ outcome = "none" /\ judged = NoRequest /\ queries \in 0 .. MaxQueries

Begin(c) ==
    /\ stage \in {"none", "done"} /\ queries < MaxQueries
    /\ asked' = c /\ env' = Load(Unset) /\ inner' = FALSE
    /\ routed' = FALSE /\ reads' = NoRequest /\ site' = "none" /\ cards' = {}
    /\ stage' = "route" /\ outcome' = "none" /\ judged' = NoRequest
    /\ queries' = queries + 1
    /\ UNCHANGED <<left, hostVars>>

\* The process ends, and its lock with it.
End(o) ==
    /\ stage' = "done" /\ outcome' = o
    /\ holder' = IF holder = "query" THEN Nobody ELSE holder

Refuse(why) == End(why) /\ UNCHANGED <<process, left, judged, queries, host, changes>>
Go(l) ==
    /\ stage' = l
    /\ UNCHANGED <<asked, env, inner, routed, reads, left, outcome, judged, queries, hostVars>>
On(l, s) == stage = l /\ site = s

\* The template and the layout are parsed and the conditioning's file is read,
\* then a server is looked for.
Route ==
    /\ stage = "route"
    /\ IF ~host.parses THEN Refuse("config")
       ELSE IF ~host.conditions THEN Refuse("conditioning")
       ELSE /\ routed' = (asked.plain /\ host.server)
            /\ stage' = "read"
            /\ UNCHANGED <<asked, env, inner, reads, site, cards, left, outcome, judged,
                           queries, hostVars>>

Reexecs == Requested(env) = "avx512" /\ ~inner

\* hand_over writes the file whatever was there.
KeepOld(old, r) == IF old = NoRequest THEN r ELSE old
Written(old, r) == r

\* build_request: the inner process takes the request its outer one left, and
\* removes the file; the outer one leaves what it read from stdin.
ReadRequest ==
    /\ stage = "read"
    /\ IF inner /\ asked.stdin
       THEN reads' = left /\ left' = NoRequest
       ELSE /\ reads' = asked.request
            /\ left' = IF asked.stdin /\ Reexecs /\ ~routed
                       THEN Written(left, asked.request) ELSE left
    /\ stage' = IF routed THEN "ask" ELSE "subject"
    /\ UNCHANGED <<asked, env, inner, routed, site, cards, outcome, judged, queries, hostVars>>

\* build_request refuses what is no request, from wherever it was read and
\* however often, and what was handed over once its file is removed; hand_over
\* may fail over the file it was writing.
Unreadable ==
    /\ stage = "read" /\ End("request")
    /\ left' \in {left, NoRequest}
    /\ UNCHANGED <<process, judged, queries, host, changes>>

Judge(o) ==
    /\ End(o) /\ judged' = reads
    /\ UNCHANGED <<process, left, queries, host, changes>>

AskServer ==
    /\ stage = "ask"
    /\ \/ host.server /\ Judge("asked the server")
       \/ Refuse("server")

CheckSubject ==
    /\ stage = "subject"
    /\ IF host.subject THEN Go("resolve") /\ UNCHANGED <<site, cards>> ELSE Refuse("subject")

ResolveSite ==
    /\ stage = "resolve"
    /\ IF Resolve(env) = "none" THEN Refuse("site")
       ELSE Go("prepare") /\ site' = Resolve(env) /\ UNCHANGED cards

\* prepare.
PrepareX86 == On("prepare", "x86") /\ Go("load") /\ UNCHANGED <<site, cards>>

\* The cards are read again: they may have changed since `auto` found some.
FindCards ==
    /\ \/ On("prepare", "cards")
       \/ On("prepare", "avx512") /\ inner
    /\ IF site = "cards" /\ host.up = {} THEN Refuse("cards")
       ELSE IF site = "avx512" /\ 0 \notin host.up THEN Refuse("card 0")
       ELSE Go("take") /\ cards' = host.up /\ UNCHANGED site

\* reexec_avx512: exec keeps the process id and the environment.
Exec ==
    /\ On("prepare", "avx512") /\ ~inner
    /\ IF ~host.wrapper THEN Refuse("wrapper")
       ELSE IF ~host.avx512 THEN Refuse("avx512 site")
       ELSE /\ inner' = TRUE /\ env' = Load(env)
            /\ routed' = FALSE /\ reads' = NoRequest /\ site' = "none" /\ cards' = {}
            /\ stage' = "route"
            /\ UNCHANGED <<asked, left, outcome, judged, queries, hostVars>>

TakeCards ==
    /\ stage = "take"
    /\ IF holder # Nobody THEN Refuse("held")
       ELSE /\ holder' = "query" /\ stage' = "payload"
            /\ UNCHANGED <<process, left, outcome, judged, queries, host, changes>>

\* Card 0 runs phi512's regions on the avx512 site, the others the payload.
PayloadCards == IF site = "avx512" THEN cards \ {0} ELSE cards

PutWorkers ==
    /\ stage = "payload"
    /\ IF PayloadCards # {} /\ ~host.payload
       THEN Refuse("payload")
       ELSE Go("load") /\ UNCHANGED <<site, cards>>

\* A worker that does not poll, or a subject that does not load.
Breaks == stage \in {"payload", "load"} /\ Refuse("worker or load")

Answer == stage = "load" /\ Judge("answered")

\* Whatever is left of it stays: the file as well.
Killed == stage \notin {"none", "done"} /\ Refuse("killed")

QueryNext ==
    \/ \E c \in CommandLines : Begin(c)
    \/ Route \/ ReadRequest \/ Unreadable \/ AskServer \/ CheckSubject
    \/ ResolveSite \/ PrepareX86 \/ FindCards \/ Exec \/ TakeCards \/ PutWorkers
    \/ Breaks \/ Answer \/ Killed

------------------------------------------------------------------------------
(* Properties.                                                             *)

\* The request judged, here or by a server, is the one the command was given,
\* however many processes and files it went through and whatever an earlier
\* query left behind; the file is gone once it is read ("removed by the
\* reader"); and the process under phi512 runs on the avx512 site, whatever
\* the configuration says by then.
RequestHandedOver ==
    /\ judged # NoRequest => judged = asked.request
    /\ inner /\ asked.stdin /\ reads # NoRequest => left = NoRequest /\ reads = asked.request
    /\ inner => Requested(env) = "avx512"
==============================================================================
