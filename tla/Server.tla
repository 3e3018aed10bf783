------------------------------- MODULE Server -------------------------------
(***************************************************************************)
(* The HTTP server (src/server.rs): one accept loop, one thread per        *)
(* request, the decision log (src/decisions.rs) and the kill date.  What   *)
(* a question is answered is left open here (Scoring says it); what is     *)
(* kept is who counts it, logs it, answers it and when the server may stop.*)
(*                                                                         *)
(* Time passes in ticks; ages are capped at the largest one the code tells *)
(* apart.  Only a question being judged takes time: no tick passes while   *)
(* the loop or a handler has anything else to do.                          *)
(***************************************************************************)
EXTENDS Integers, Sequences, FiniteSets

CONSTANTS Clients,      \* connections, each with one request at a time
          KillDate,     \* --kill-date, in ticks
          Timeout,      \* recv_timeout's one second, in ticks
          PollGap,      \* ticks between two requests that are no question
          DecisionLog,  \* --decision-log is on
          Torn          \* the rest of a line that was never ended

ASSUME ServerAssumption ==
    /\ IsFiniteSet(Clients)
    /\ KillDate \in Nat \ {0} /\ Timeout \in Nat \ {0} /\ PollGap \in Nat
    /\ DecisionLog \in BOOLEAN
    /\ Torn \notin Clients

VARIABLES client,    \* what each client waits for or has
          kind,      \* "question" (POST /v1/systemone) or "other"
          queue,     \* tiny_http's: requests read and not yet received
          loop,      \* where the accept loop is
          waited,    \* ticks in this recv_timeout
          idle,      \* About.last.elapsed() as the loop read it
          busy,      \* requests accepted and not yet left
          stage,     \* where each request's thread is
          status,    \* what it answers
          tail,      \* the log's last line, not ended yet: whose entries are on it
          lines,     \* lines of the log that are the entry of the client's request
          spoilt,    \* the write of that entry failed, or began on a torn line (history)
          lastAge,   \* ticks since About.last
          pollAge,   \* ticks since a request that was no question
          quiet      \* ticks since a question was in the server (history)

log == <<tail, lines, spoilt>>
vars == <<client, kind, queue, loop, waited, idle, busy, stage, status, log, lastAge,
          pollAge, quiet>>

\* What judge.evaluate ran on, or serde refused: the statuses that are logged.
Judged == {"answered", "invalid", "rejected", "failed"}      \* 200, 422, 422, 502
Unjudged == {"denied", "unreadable", "empty"}                \* 401, 400, 422

Smaller(a, b) == IF a < b THEN a ELSE b

\* A question is in flight from its accept to its answer.
InFlight(c) == kind[c] = "question" /\ stage[c] \in {"running", "judged", "writing", "recorded"}

Init ==
    /\ client = [c \in Clients |-> "quiet"]
    /\ kind = [c \in Clients |-> "other"]
    /\ queue = <<>> /\ loop = "recv" /\ waited = 0 /\ idle = 0 /\ busy = 0
    /\ stage = [c \in Clients |-> "none"]
    /\ status = [c \in Clients |-> "none"]
    /\ tail \in {{}, {Torn}}      \* an earlier server's, killed as it wrote
    /\ lines = [c \in Clients |-> 0]
    /\ spoilt = [c \in Clients |-> FALSE]
    /\ lastAge = 0 /\ pollAge = PollGap /\ quiet = 0

------------------------------------------------------------------------------
(* The environment: clients, time, a signal.                               *)

Send(c, k) ==
    /\ loop # "stopped"
    /\ client[c] \in {"quiet", "answered"} /\ stage[c] = "none"
    /\ k = "other" => pollAge >= PollGap
    /\ client' = [client EXCEPT ![c] = "sent"]
    /\ kind' = [kind EXCEPT ![c] = k]
    /\ status' = [status EXCEPT ![c] = "none"]
    /\ lines' = [lines EXCEPT ![c] = 0]
    /\ spoilt' = [spoilt EXCEPT ![c] = FALSE]
    /\ queue' = Append(queue, c)
    /\ pollAge' = IF k = "other" THEN 0 ELSE pollAge
    /\ UNCHANGED <<loop, waited, idle, busy, stage, tail, lastAge, quiet>>

\* A handler with a step of bookkeeping before it.
Prompt(c) == stage[c] # "none" /\ ~(stage[c] = "running" /\ kind[c] = "question")

Tick ==
    /\ loop = "recv" /\ queue = <<>> /\ waited < Timeout
    /\ \A c \in Clients : ~Prompt(c)
    /\ waited' = waited + 1
    /\ lastAge' = Smaller(lastAge + 1, KillDate)
    /\ pollAge' = Smaller(pollAge + 1, PollGap)
    /\ quiet' = IF \E c \in Clients : InFlight(c) THEN 0
                ELSE Smaller(quiet + 1, KillDate)
    /\ UNCHANGED <<client, kind, queue, loop, idle, busy, stage, status, log>>

\* `xks stop`, a signal, a crash: every thread goes; the log's file stays,
\* with the line that was being written, if one was.
Stopped(left) ==
    /\ loop' = "stopped"
    /\ client' = [c \in Clients |-> IF client[c] = "sent" THEN "lost" ELSE client[c]]
    /\ stage' = [c \in Clients |-> "none"]
    /\ queue' = <<>> /\ busy' = left
    /\ tail' = IF tail = {} THEN {} ELSE {Torn}
    /\ UNCHANGED <<kind, waited, idle, status, lines, spoilt, lastAge, pollAge, quiet>>

Killed == loop # "stopped" /\ Stopped(0)

------------------------------------------------------------------------------
(* serve: the accept loop.                                                 *)

\* `busy`, one more or one less.
CountArrivals(n) == busy' = IF n > 0 THEN busy + n ELSE busy
CountLeavings(n) == busy' = IF n < 0 THEN busy + n ELSE busy
Count(n) == busy' = busy + n

\* A request is received: counted, then given a thread.
Accept ==
    /\ loop = "recv" /\ queue # <<>> /\ waited < Timeout
    /\ LET c == Head(queue)
       IN  /\ stage' = [stage EXCEPT ![c] = "running"]
           /\ quiet' = IF kind[c] = "question" THEN 0 ELSE quiet
    /\ queue' = Tail(queue)
    /\ Count(1)
    /\ waited' = 0
    /\ UNCHANGED <<client, kind, loop, idle, status, log, lastAge, pollAge>>

\* A second without a request: recv_timeout gives up without a last look at
\* its queue, and the loop reads how long ago the last question ended.
ReadIdle ==
    /\ loop = "recv" /\ waited = Timeout
    /\ idle' = lastAge
    /\ loop' = "decide"
    /\ UNCHANGED <<client, kind, queue, waited, busy, stage, status, log,
                   lastAge, pollAge, quiet>>

\* Then how many requests are in flight.
StayOn ==
    /\ loop = "decide" /\ ~(busy = 0 /\ idle >= KillDate)
    /\ loop' = "recv" /\ waited' = 0 /\ idle' = 0
    /\ UNCHANGED <<client, kind, queue, busy, stage, status, log, lastAge,
                   pollAge, quiet>>

ReachKillDate ==
    /\ loop = "decide" /\ busy = 0 /\ idle >= KillDate
    /\ Stopped(busy)

------------------------------------------------------------------------------
(* handle, and the end of its thread.                                      *)

Handle(c) ==
    /\ stage[c] = "running"
    /\ \/ /\ kind[c] = "other"
          /\ status' = [status EXCEPT ![c] = "plain"]
          /\ stage' = [stage EXCEPT ![c] = "recorded"]
       \/ /\ kind[c] = "question"
          /\ \E s \in Unjudged : status' = [status EXCEPT ![c] = s]
          /\ stage' = [stage EXCEPT ![c] = "recorded"]
       \/ /\ kind[c] = "question"
          /\ \E s \in Judged : status' = [status EXCEPT ![c] = s]
          /\ stage' = [stage EXCEPT ![c] = "judged"]
    /\ UNCHANGED <<client, kind, queue, loop, waited, idle, busy, log, lastAge,
                   pollAge, quiet>>

\* Log::record.  The line is a JSON value that is written piece by piece as it
\* is printed, under the log's lock, at the end of the file; what fails there
\* is passed over, and the client is answered all the same.
LogShared == TRUE
LogFree == \A c \in Clients : stage[c] # "writing"

BeginLine(c) ==
    /\ stage[c] = "judged" /\ DecisionLog /\ LogFree
    /\ tail' = tail \cup {c}
    /\ spoilt' = [spoilt EXCEPT ![c] = Torn \in tail]
    /\ stage' = [stage EXCEPT ![c] = "writing"]
    /\ UNCHANGED <<client, kind, queue, loop, waited, idle, busy, status, lines,
                   lastAge, pollAge, quiet>>

EndLine(c) ==
    /\ stage[c] = "writing"
    /\ lines' = IF tail = {c} THEN [lines EXCEPT ![c] = @ + 1] ELSE lines
    /\ tail' = {}
    /\ stage' = [stage EXCEPT ![c] = "recorded"]
    /\ UNCHANGED <<client, kind, queue, loop, waited, idle, busy, status, spoilt,
                   lastAge, pollAge, quiet>>

\* A piece cannot be written (the disk is full), and the rest is given up.
BreakLine(c) ==
    /\ stage[c] = "writing"
    /\ tail' = {Torn}
    /\ spoilt' = [spoilt EXCEPT ![c] = TRUE]
    /\ stage' = [stage EXCEPT ![c] = "recorded"]
    /\ UNCHANGED <<client, kind, queue, loop, waited, idle, busy, status, lines,
                   lastAge, pollAge, quiet>>

\* No log, or not even the first piece: the write fails, or the lock is
\* poisoned by a thread that panicked with it.
NoLine(c) ==
    /\ stage[c] = "judged" /\ (DecisionLog => LogFree)
    /\ spoilt' = [spoilt EXCEPT ![c] = DecisionLog]
    /\ stage' = [stage EXCEPT ![c] = "recorded"]
    /\ UNCHANGED <<client, kind, queue, loop, waited, idle, busy, status, tail, lines,
                   lastAge, pollAge, quiet>>

Record(c) == BeginLine(c) \/ EndLine(c) \/ BreakLine(c) \/ NoLine(c)

HandledUnlessDenied(c) == stage[c] = "recorded" /\ status[c] # "denied"
Handled(c) == stage[c] = "recorded"

Respond(c) ==
    /\ Handled(c)
    /\ client' = [client EXCEPT ![c] = "answered"]
    /\ stage' = [stage EXCEPT ![c] = "responded"]
    /\ quiet' = IF kind[c] = "question" THEN 0 ELSE quiet
    /\ UNCHANGED <<kind, queue, loop, waited, idle, busy, status, log, lastAge,
                   pollAge>>

\* A question moves the kill date, then the request stops counting.
Stamp(c) ==
    /\ stage[c] = "responded"
    /\ lastAge' = IF kind[c] = "question" THEN 0 ELSE lastAge
    /\ stage' = [stage EXCEPT ![c] = "stamped"]
    /\ UNCHANGED <<client, kind, queue, loop, waited, idle, busy, status, log,
                   pollAge, quiet>>

Leave(c) ==
    /\ stage[c] = "stamped"
    /\ Count(-1)
    /\ stage' = [stage EXCEPT ![c] = "none"]
    /\ UNCHANGED <<client, kind, queue, loop, waited, idle, status, log, lastAge,
                   pollAge, quiet>>

------------------------------------------------------------------------------
Thread(c) == Handle(c) \/ Record(c) \/ Respond(c) \/ Stamp(c) \/ Leave(c)
Loop == Accept \/ ReadIdle \/ StayOn \/ ReachKillDate

Next ==
    \/ \E c \in Clients : Thread(c) \/ \E k \in {"question", "other"} : Send(c, k)
    \/ Loop \/ Tick \/ Killed

\* Threads and the loop run, time passes; clients and signals are free.  The
\* log's lock is held for a moment: no thread waits for it for ever.
Fairness ==
    /\ WF_vars(Loop) /\ WF_vars(Tick)
    /\ \A c \in Clients : WF_vars(Thread(c)) /\ SF_vars(BeginLine(c) \/ NoLine(c))

SafeSpec == Init /\ [][Next]_vars
Spec == SafeSpec /\ Fairness

------------------------------------------------------------------------------
(* Properties.                                                             *)

TypeOK ==
    /\ client \in [Clients -> {"quiet", "sent", "answered", "lost"}]
    /\ kind \in [Clients -> {"question", "other"}]
    /\ queue \in Seq(Clients)
    /\ loop \in {"recv", "decide", "stopped"}
    /\ waited \in 0 .. Timeout /\ idle \in 0 .. KillDate
    /\ busy \in Nat
    /\ stage \in [Clients -> {"none", "running", "judged", "writing", "recorded",
                              "responded", "stamped"}]
    /\ status \in [Clients -> {"none", "plain"} \cup Judged \cup Unjudged]
    /\ tail \in SUBSET (Clients \cup {Torn})
    /\ lines \in [Clients -> Nat] /\ spoilt \in [Clients -> BOOLEAN]
    /\ lastAge \in 0 .. KillDate /\ pollAge \in 0 .. PollGap /\ quiet \in 0 .. KillDate

\* `busy` is exactly the number of requests with a thread: it never leaks
\* (the server would never stop) and never runs ahead (it would stop on a
\* question).
BusyCounts == busy = Cardinality({c \in Clients : stage[c] # "none"})

\* Past the kill date the server stops on nobody: no accepted request is
\* without its answer (serve: "with no request in flight").
StopsOnNobody ==
    [][ReachKillDate => \A c \in Clients : stage[c] = "none"]_vars

\* The decision log and the answers agree, whatever kills the process and
\* whichever of its threads write beside: a client that has the answer of a
\* question set finds exactly one line that is its entry and nothing else
\* (decisions.md: "one JSON line per question set the server answers or
\* refuses", "concurrent requests do not interleave"), and none for another
\* request.  A write that failed, or a poisoned lock, costs its own line, and a
\* torn one the next line too, which goes on where it ends; an earlier server
\* killed as it wrote costs one.
LogKept ==
    \A c \in Clients :
        client[c] = "answered" =>
            lines[c] = IF DecisionLog /\ status[c] \in Judged /\ ~spoilt[c] THEN 1 ELSE 0

\* Every request accepted is answered, unless the process is killed.
AllAnswered ==
    \A c \in Clients : stage[c] = "running" ~> client[c] = "answered" \/ loop = "stopped"

\* A server nobody asks stops, monitors or not: `/health` must not keep it
\* alive (About.last).
NobodyAsks == \A c \in Clients : kind[c] = "question" => stage[c] = "none" /\ client[c] # "sent"
StopsWhenUnasked == <>[]NobodyAsks => <>(loop = "stopped")

\* "exits once no question has been asked or been in flight for S seconds"
\* (server.md): at the kill date no question was in flight for KillDate ticks.
QuietForKillDate == [][ReachKillDate => quiet = KillDate]_vars
=============================================================================
