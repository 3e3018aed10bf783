-------------------------------- MODULE Cards --------------------------------
(***************************************************************************)
(* Who has the cards (src/site.rs, and stop, release and retire of         *)
(* src/main.rs): xks processes take the flock on cards.lock, start the     *)
(* cards' workers under it and record them in markers; others only ask who *)
(* holds it, and `stop` and `release` give back workers.  A process is one *)
(* command; when it is over, another may get its process id.  Any process  *)
(* may die at any step and its flock goes with it, what it wrote into the  *)
(* lock's file does not.                                                   *)
(*                                                                         *)
(* External: flock, /proc, and the sibling's phi-vpu.sh, which starts and  *)
(* stops the worker of a card.                                             *)
(***************************************************************************)
EXTENDS Integers, FiniteSets, FiniteSetsExt

CONSTANTS Procs,        \* process ids
          Cards,        \* the cards of the host, 0 among them
          Commands,     \* what the processes run, of "use", "ask", "stop", "release"
          Free,         \* nobody holds the flock, no pid can be read
          NoMarker, Torn    \* no such file; one that was not written whole

AllCommands == {"use", "ask", "stop", "release"}
Configs == {"plain", "pool"}     \* 2400 pages and -e 0; 768 and the seamless pool

ASSUME CardsAssumption ==
    /\ IsFiniteSet(Cards) /\ Cards \subseteq Nat
    /\ Commands \subseteq AllCommands
    /\ Free \notin Procs
    /\ {NoMarker, Torn} \cap Configs = {}

VARIABLES lock,      \* the process whose open file has the flock
          text,      \* what the lock's file says: a pid, and whether it serves
          worker,    \* the worker of each card
          marker,    \* worker-N: the configuration xks started it with
          pc, cmd,   \* of each process
          site, used,   \* where it runs its subject, on which cards
          todo,      \* cards it has still to ensure, or to release
          given      \* a `stop` or a `release` was run (history)

task == <<cmd, site, used>>
vars == <<lock, text, worker, marker, pc, task, todo, given>>

Sites == {"cards", "avx512"}

\* The configuration a site asks for (prepare): phi512 alone on card 0.
Wanted(s, c) == IF s = "avx512" /\ c = 0 THEN "pool" ELSE "plain"

\* What a card's worker polls with, when one polls: ours, or another tool's.
Workers == Configs \cup {"off", "foreign"}

\* What a marker says: nothing that is a configuration when its write failed
\* halfway.
Markers == Configs \cup {NoMarker, Torn}

Alive(p) == pc[p] # "new"

\* Past take_cards, the flock is held for the life of the process.
Holding(p) == pc[p] \in {"write", "ensure", "mark", "running", "retire", "unretire"}

Init ==
    /\ lock = Free /\ text = [pid |-> Free, serves |-> FALSE]
    /\ worker = [c \in Cards |-> "off"]
    /\ marker = [c \in Cards |-> NoMarker]
    /\ pc = [p \in Procs |-> "new"]
    /\ cmd = [p \in Procs |-> "ask"] /\ site = [p \in Procs |-> "cards"]
    /\ used = [p \in Procs |-> {}] /\ todo = [p \in Procs |-> {}]
    /\ given = FALSE

Goto(p, l) == pc' = [pc EXCEPT ![p] = l]

\* The end of processes: their flocks go with them, their ids are free.
EndOf(ps) ==
    /\ lock' = IF lock \in ps THEN Free ELSE lock
    /\ site' = [q \in Procs |-> IF q \in ps THEN "cards" ELSE site[q]]
    /\ used' = [q \in Procs |-> IF q \in ps THEN {} ELSE used[q]]
    /\ todo' = [q \in Procs |-> IF q \in ps THEN {} ELSE todo[q]]

Exit(p) == Goto(p, "new") /\ cmd' = [cmd EXCEPT ![p] = "ask"] /\ EndOf({p})

Die(p) ==
    /\ Alive(p) /\ Exit(p)
    /\ UNCHANGED <<text, worker, marker, given>>

\* Tools of the sibling run by hand do not take the lock; while nobody holds
\* it, one may put a worker of its own on a card.
Foreign(c) ==
    /\ lock = Free
    /\ worker' = [worker EXCEPT ![c] = "foreign"]
    /\ UNCHANGED <<lock, text, marker, pc, task, todo, given>>

------------------------------------------------------------------------------
(* Asking who holds the cards: holder opens the file and tries the flock,  *)
(* and has it for a moment when nobody else does.                          *)

Probe(p) ==
    /\ pc[p] = "probe" /\ lock = Free
    /\ lock' = p
    /\ Goto(p, "probing")
    /\ UNCHANGED <<text, worker, marker, task, todo, given>>

\* Held: `release` refuses, `stop` leaves the workers, the others say so.
\* Free: the first two give workers back, from here on alike.
ProbeHeld(p) ==
    /\ pc[p] = "probe" /\ lock # Free
    /\ Exit(p)
    /\ UNCHANGED <<text, worker, marker, given>>

ProbeFree(p) ==
    /\ pc[p] = "probing"
    /\ IF cmd[p] \in {"stop", "release"}
       THEN /\ lock' = Free /\ Goto(p, "release")
            /\ \E up \in SUBSET Cards :
                  todo' = [todo EXCEPT ![p] = IF cmd[p] = "release" THEN up ELSE @]
            /\ cmd' = [cmd EXCEPT ![p] = "release"] /\ UNCHANGED <<site, used>>
       ELSE Exit(p)
    /\ UNCHANGED <<text, worker, marker, given>>

BeginProbe(p, command) ==
    /\ pc[p] = "new" /\ command \in Commands \cap {"ask", "release"}
    /\ cmd' = [cmd EXCEPT ![p] = command]
    /\ given' = (given \/ command = "release")
    /\ Goto(p, "probe")
    /\ UNCHANGED <<lock, text, worker, marker, site, used, todo>>

------------------------------------------------------------------------------
(* prepare: a site on the cards.                                           *)

BeginUse(p) ==
    /\ pc[p] = "new" /\ "use" \in Commands
    /\ cmd' = [cmd EXCEPT ![p] = "use"]
    /\ Goto(p, "take")
    /\ UNCHANGED <<lock, text, worker, marker, site, used, todo, given>>

\* Its site uses the cards that are up; phi512 runs on card 0.
Take(p) ==
    /\ pc[p] = "take" /\ lock = Free
    /\ lock' = p
    /\ \E s \in Sites, up \in SUBSET Cards \ {{}} :
          /\ s = "avx512" => 0 \in up
          /\ site' = [site EXCEPT ![p] = s]
          /\ used' = [used EXCEPT ![p] = up]
          /\ todo' = [todo EXCEPT ![p] = up]
    /\ Goto(p, "write")
    /\ UNCHANGED <<text, worker, marker, cmd, given>>

\* Refused: it asks who holds it, for the message, and ends.
TakeRefused(p) ==
    /\ pc[p] = "take" /\ lock # Free
    /\ cmd' = [cmd EXCEPT ![p] = "ask"]
    /\ Goto(p, "probe")
    /\ UNCHANGED <<lock, text, worker, marker, site, used, todo, given>>

\* The file is emptied, then the holder's line written; that it may not be is
\* passed over.  The open file is kept for the life of the process (LOCK), or
\* its flock would go at the end of take_cards.
WriteTextOver(p) ==
    /\ pc[p] = "write"
    /\ text' = [text EXCEPT !.pid = p]
    /\ Goto(p, "ensure")
    /\ UNCHANGED <<lock, worker, marker, task, todo, given>>

WriteTextAndDrop(p) ==
    /\ pc[p] = "write"
    /\ text' = [pid |-> p, serves |-> FALSE]
    /\ lock' = Free
    /\ Goto(p, "ensure")
    /\ UNCHANGED <<worker, marker, task, todo, given>>

WriteText(p) ==
    /\ pc[p] = "write"
    /\ \E pid \in {p, Free} : text' = [pid |-> pid, serves |-> FALSE]
    /\ Goto(p, "ensure")
    /\ UNCHANGED <<lock, worker, marker, task, todo, given>>

\* ensure_worker on the next card: kept when the marker, the polling and the
\* card agree, else started.
Card(p) == Min(todo[p])
AgreesOnRecord(c, cfg) == marker[c] = cfg /\ worker[c] # "off"
Agrees(c, cfg) == marker[c] = cfg /\ worker[c] = cfg

Keep(p) ==
    /\ pc[p] = "ensure" /\ todo[p] # {}
    /\ Agrees(Card(p), Wanted(site[p], Card(p)))
    /\ todo' = [todo EXCEPT ![p] = @ \ {Card(p)}]
    /\ UNCHANGED <<lock, text, worker, marker, pc, task, given>>

Start(p) ==
    /\ pc[p] = "ensure" /\ todo[p] # {}
    /\ LET c == Card(p)
           cfg == Wanted(site[p], c)
       IN  /\ ~Agrees(c, cfg)
           /\ worker' = [worker EXCEPT ![c] = cfg]
    /\ Goto(p, "mark")
    /\ UNCHANGED <<lock, text, marker, task, todo, given>>

\* phi-vpu.sh fails, or the worker it started does not poll: the command
\* ends in an error, the marker as it was.
StartFails(p) ==
    /\ pc[p] = "ensure" /\ todo[p] # {}
    /\ LET c == Card(p)
       IN  /\ ~Agrees(c, Wanted(site[p], c))
           /\ \E w \in {worker[c], "off"} : worker' = [worker EXCEPT ![c] = w]
    /\ Exit(p)
    /\ UNCHANGED <<text, marker, given>>

\* A marker that cannot be written, or not whole, is passed over.
Mark(p) ==
    /\ pc[p] = "mark"
    /\ LET c == Card(p)
       IN  \E m \in {Wanted(site[p], c), marker[c], Torn} : marker' = [marker EXCEPT ![c] = m]
    /\ todo' = [todo EXCEPT ![p] = @ \ {Card(p)}]
    /\ Goto(p, "ensure")
    /\ UNCHANGED <<lock, text, worker, task, given>>

\* The subject is up; a server says where it answers (note_serving), if it can.
Ready(p) ==
    /\ pc[p] = "ensure" /\ todo[p] = {}
    /\ \E serves \in BOOLEAN : text' = [text EXCEPT !.serves = serves]
    /\ Goto(p, "running")
    /\ UNCHANGED <<lock, worker, marker, task, todo, given>>

------------------------------------------------------------------------------
(* Giving the cards back.                                                  *)

\* xks_workers: the cards that are up and have a marker, whole or not.
Marked == {c \in Cards : marker[c] # NoMarker}

\* A server past its kill date runs its subject no more and gives back its
\* workers, still holding the flock; any subject may be one.
Retire(p) ==
    /\ pc[p] = "running"
    /\ todo' = [todo EXCEPT ![p] = used[p] \cap Marked]
    /\ used' = [used EXCEPT ![p] = {}] /\ site' = [site EXCEPT ![p] = "cards"]
    /\ Goto(p, "retire")
    /\ UNCHANGED <<lock, text, worker, marker, cmd, given>>

\* `stop` ends the detached server, when there is one.
Stop(p) ==
    /\ pc[p] = "new" /\ "stop" \in Commands
    /\ \E ended \in SUBSET {q \in Procs \ {p} : cmd[q] = "use"} :
          /\ Cardinality(ended) <= 1
          /\ pc' = [q \in Procs |-> CASE q = p -> "workers"
                                      [] q \in ended -> "new"
                                      [] OTHER -> pc[q]]
          /\ cmd' = [q \in Procs |-> CASE q = p -> "stop"
                                       [] q \in ended -> "ask"
                                       [] OTHER -> cmd[q]]
          /\ EndOf(ended)
    /\ given' = TRUE
    /\ UNCHANGED <<text, worker, marker>>

ReadWorkers(p) ==
    /\ pc[p] = "workers"
    /\ todo' = [todo EXCEPT ![p] = Marked]
    /\ Goto(p, "probe")
    /\ UNCHANGED <<lock, text, worker, marker, task, given>>

\* release: a worker stopped, then its marker removed, when it can be, card
\* by card.
ReleaseCard(p) ==
    /\ todo[p] # {}
    /\ \/ pc[p] = "release" /\ Goto(p, "unmark")
       \/ pc[p] = "retire" /\ Goto(p, "unretire")
    /\ worker' = [worker EXCEPT ![Card(p)] = "off"]
    /\ UNCHANGED <<lock, text, marker, task, todo, given>>

Unmark(p) ==
    /\ \/ pc[p] = "unmark" /\ Goto(p, "release")
       \/ pc[p] = "unretire" /\ Goto(p, "retire")
    /\ \E m \in {marker[Card(p)], NoMarker} : marker' = [marker EXCEPT ![Card(p)] = m]
    /\ todo' = [todo EXCEPT ![p] = @ \ {Card(p)}]
    /\ UNCHANGED <<lock, text, worker, task, given>>

\* All given back, or one that could not be stopped: the rest is left.
EndRelease(p) ==
    /\ pc[p] \in {"release", "retire"}
    /\ Exit(p)
    /\ UNCHANGED <<text, worker, marker, given>>

------------------------------------------------------------------------------
Step(p) ==
    \/ \E command \in AllCommands : BeginProbe(p, command)
    \/ BeginUse(p) \/ Stop(p)
    \/ Probe(p) \/ ProbeHeld(p) \/ ProbeFree(p)
    \/ Take(p) \/ TakeRefused(p) \/ WriteText(p)
    \/ Keep(p) \/ Start(p) \/ StartFails(p) \/ Mark(p) \/ Ready(p)
    \/ Retire(p) \/ ReadWorkers(p) \/ ReleaseCard(p) \/ Unmark(p) \/ EndRelease(p)
    \/ Die(p)

Next == (\E p \in Procs : Step(p)) \/ (\E c \in Cards : Foreign(c))

Spec == Init /\ [][Next]_vars

------------------------------------------------------------------------------
(* Properties.                                                             *)

Stages == {"new", "probe", "probing", "take", "write", "ensure", "mark", "running",
           "retire", "unretire", "workers", "release", "unmark"}

\* The types, and the flock: a process has it exactly while it holds the
\* cards or asks who does.
TypeOK ==
    /\ lock \in Procs \cup {Free}
    /\ text \in [pid : Procs \cup {Free}, serves : BOOLEAN]
    /\ worker \in [Cards -> Workers] /\ marker \in [Cards -> Markers]
    /\ pc \in [Procs -> Stages]
    /\ cmd \in [Procs -> AllCommands] /\ site \in [Procs -> Sites]
    /\ used \in [Procs -> SUBSET Cards] /\ todo \in [Procs -> SUBSET Cards]
    /\ given \in BOOLEAN
    /\ \A p \in Procs : lock = p <=> Holding(p) \/ pc[p] = "probing"

\* One process at a time has the cards, whoever asks, dies or is refused.
Exclusive == \A p, q \in Procs : Holding(p) /\ Holding(q) => p = q

\* From its write on, what the lock's file says is the holder's own word: a
\* refusal names the holder or nobody, whatever an earlier one left there and
\* whoever has its pid since, and sends a query to no server but the holder.
\* Before that the old text stands, and its pid may be a bystander's by now:
\* between try_lock and the write, and while the flock is only a probe's.
NamesHolder ==
    \A p \in Procs : Holding(p) /\ pc[p] # "write" =>
        /\ text.pid \in {p, Free}
        /\ text.serves => pc[p] \in {"running", "retire", "unretire"}

\* A subject runs on the workers it asked for: on every card it uses the
\* worker polls with its configuration, whatever an earlier holder, a failed
\* start or another tool left there, and nobody stops it meanwhile.  `stop`
\* and `release` can break it: they ask who holds the cards and stop workers
\* later (the CardsRace run).
RunsAsAsked ==
    \A p \in Procs : pc[p] = "running" =>
        \A c \in used[p] : worker[c] = Wanted(site[p], c)

\* It holds as long as nobody has run one of the two; a server past its kill
\* date gives back no worker but its own.
Undisturbed == ~given
RunsUnlessReleased == Undisturbed => RunsAsAsked
==============================================================================
