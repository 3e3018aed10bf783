------------------------------- MODULE Detach -------------------------------
(***************************************************************************)
(* The detached server (src/main.rs: detach, stop, retire, free_to_bind):  *)
(* `serve --detach` spawns a server, writes its pid to serve.pid and waits *)
(* until its address answers; `stop` ends the server the pid file names; a *)
(* server past its kill date takes its own pid out of it.  Beside it run   *)
(* servers in the foreground and other programs, whose pids may be ones    *)
(* that detached servers had before.  Nothing but the pid file ties these  *)
(* together, and nothing locks it.                                         *)
(***************************************************************************)
EXTENDS Naturals, FiniteSets

CONSTANTS Cmds,     \* `serve --detach` and `stop` under way, one each
          Pids,     \* the process ids servers and other programs get
          Addrs,    \* --bind
          NoPid,
          Serial    \* one command at a time, and none killed as it spawns

ASSUME DetachAssumption == NoPid \notin Pids /\ Serial \in BOOLEAN

VARIABLES pidfile,    \* serve.pid: a pid, or no file
          pc,         \* of each command
          where,      \* the address it launches a server on
          child,      \* the launcher's child, or the server `stop` ends
          proc,       \* what each pid runs
          bind,       \* its address
          detached    \* the servers a launcher spawned, alive

vars == <<pidfile, pc, where, child, proc, bind, detached>>
servers == <<proc, bind, detached>>

Init ==
    /\ pidfile = NoPid
    /\ pc = [c \in Cmds |-> "idle"]
    /\ where \in [Cmds -> Addrs] /\ child = [c \in Cmds |-> NoPid]
    /\ proc = [q \in Pids |-> "none"]
    /\ bind \in [Pids -> Addrs]
    /\ detached = {}

ServerStages == {"check", "load", "up", "retire", "unlink"}
Server(q) == proc[q] \in ServerStages
Answers(a) == \E q \in Pids : proc[q] = "up" /\ bind[q] = a

\* A child that died keeps its pid until its launcher has reaped it, and pids
\* go round too slowly for one `stop` is about to signal.
Pinned(q) == \E c \in Cmds : child[c] = q /\ pc[c] \in {"write", "wait", "poll", "term"}

\* One start or stop at a time.
Starting(q) == proc[q] \in {"check", "load"} /\ q \notin detached
MayBegin ==
    Serial => /\ \A c \in Cmds : pc[c] = "idle"
              /\ \A q \in Pids : ~Starting(q)

Goto(c, l) == pc' = [pc EXCEPT ![c] = l]
End(c) == Goto(c, "idle") /\ child' = [child EXCEPT ![c] = NoPid]
Turn(q, l) == proc' = [proc EXCEPT ![q] = l]
Gone(q) == Turn(q, "none") /\ detached' = detached \ {q}

------------------------------------------------------------------------------
(* Servers, detached or not, and other programs.                           *)

\* A pid for a server: never the stale one of the pid file.
Fresh(q) == proc[q] = "none" /\ ~Pinned(q) /\ q # pidfile

Serve(q, a) ==
    /\ MayBegin /\ Fresh(q)
    /\ Turn(q, "check")
    /\ bind' = [bind EXCEPT ![q] = a]
    /\ UNCHANGED <<pidfile, pc, where, child, detached>>

\* free_to_bind, before the subject loads.
Check(q) ==
    /\ proc[q] = "check"
    /\ IF Answers(bind[q]) THEN Gone(q) ELSE Turn(q, "load") /\ UNCHANGED detached
    /\ UNCHANGED <<pidfile, pc, where, child, bind>>

\* The subject is loaded: the address is bound, or taken by another meanwhile.
Listen(q) ==
    /\ proc[q] = "load"
    /\ IF Answers(bind[q]) THEN Gone(q) ELSE Turn(q, "up") /\ UNCHANGED detached
    /\ UNCHANGED <<pidfile, pc, where, child, bind>>

\* An error, a signal, a crash.
Die(q) ==
    /\ Server(q)
    /\ Gone(q)
    /\ UNCHANGED <<pidfile, pc, where, child, bind>>

\* Past the kill date: the address goes first, the pid file last.
ReachKillDate(q) ==
    /\ proc[q] = "up"
    /\ Turn(q, "retire")
    /\ UNCHANGED <<pidfile, pc, where, child, bind, detached>>

Anyones(q) == TRUE
Ours(q) == pidfile = q

Retire(q) ==
    /\ proc[q] = "retire"
    /\ IF Ours(q) THEN Turn(q, "unlink") /\ UNCHANGED detached ELSE Gone(q)
    /\ UNCHANGED <<pidfile, pc, where, child, bind>>

Unlink(q) ==
    /\ proc[q] = "unlink"
    /\ pidfile' = NoPid
    /\ Gone(q)
    /\ UNCHANGED <<pc, where, child, bind>>

\* Another program gets a pid, the stale one of the pid file perhaps, or ends.
Other(q) ==
    /\ \/ proc[q] = "none" /\ ~Pinned(q) /\ Turn(q, "other")
       \/ proc[q] = "other" /\ Turn(q, "none")
    /\ UNCHANGED <<pidfile, pc, where, child, bind, detached>>

------------------------------------------------------------------------------
(* serve --detach.                                                         *)

\* The pid in the file when that process is still an `xks serve`.
NamedProcess == pidfile # NoPid /\ proc[pidfile] # "none"
AnsweringServer == pidfile # NoPid /\ proc[pidfile] = "up"
DetachedServer == pidfile # NoPid /\ Server(pidfile)

Begin(c, l, a) ==
    /\ MayBegin /\ pc[c] = "idle"
    /\ Goto(c, l)
    /\ where' = [where EXCEPT ![c] = a]
    /\ UNCHANGED <<pidfile, child, servers>>

Look(c) ==
    /\ pc[c] = "look"
    /\ Goto(c, IF DetachedServer THEN "idle" ELSE "probe")
    /\ UNCHANGED <<pidfile, where, child, servers>>

NothingThere(a) == TRUE
NothingAnswers(a) == ~Answers(a)

Probe(c) ==
    /\ pc[c] = "probe"
    /\ Goto(c, IF NothingAnswers(where[c]) THEN "spawn" ELSE "idle")
    /\ UNCHANGED <<pidfile, where, child, servers>>

Spawn(c) ==
    /\ pc[c] = "spawn"
    /\ \E q \in Pids :
          /\ Fresh(q)
          /\ Turn(q, "check")
          /\ bind' = [bind EXCEPT ![q] = where[c]]
          /\ detached' = detached \cup {q}
          /\ child' = [child EXCEPT ![c] = q]
    /\ Goto(c, "write")
    /\ UNCHANGED <<pidfile, where>>

Write(c) ==
    /\ pc[c] = "write"
    /\ pidfile' = child[c]
    /\ Goto(c, "wait")
    /\ UNCHANGED <<where, child, servers>>

\* Every half second: the child reaped when it died, and the file with it;
\* else the address asked.
Wait(c) ==
    /\ pc[c] = "wait"
    /\ IF Server(child[c])
       THEN Goto(c, "poll") /\ UNCHANGED <<pidfile, child>>
       ELSE End(c) /\ pidfile' = NoPid
    /\ UNCHANGED <<where, servers>>

Report(c) ==
    /\ pc[c] = "poll" /\ Answers(where[c])
    /\ End(c)
    /\ UNCHANGED <<pidfile, where, servers>>

NoAnswerYet(c) ==
    /\ pc[c] = "poll" /\ ~Answers(where[c])
    /\ Goto(c, "wait")
    /\ UNCHANGED <<pidfile, where, child, servers>>

\* 900 s: the child runs on, and the file stays.
TimeOut(c) ==
    /\ pc[c] = "wait"
    /\ End(c)
    /\ UNCHANGED <<pidfile, where, servers>>

\* The launcher is killed; its child is in a process group of its own.
Interrupted(c) ==
    /\ pc[c] \in {"look", "probe", "spawn", "write", "wait", "poll"}
    /\ Serial => pc[c] # "write"
    /\ End(c)
    /\ UNCHANGED <<pidfile, where, servers>>

------------------------------------------------------------------------------
(* stop.                                                                   *)

StopUnchecked(c) ==
    /\ pc[c] = "stop"
    /\ Goto(c, "term") /\ child' = [child EXCEPT ![c] = pidfile]
    /\ UNCHANGED <<pidfile, where, servers>>

StopLook(c) ==
    /\ pc[c] = "stop"
    /\ IF DetachedServer
       THEN Goto(c, "term") /\ child' = [child EXCEPT ![c] = pidfile]
       ELSE Goto(c, "remove") /\ UNCHANGED child
    /\ UNCHANGED <<pidfile, where, servers>>

\* SIGTERM, then SIGKILL, to the server's whole group.
Term(c) ==
    /\ pc[c] = "term"
    /\ IF proc[child[c]] = "none" THEN UNCHANGED <<proc, detached>> ELSE Gone(child[c])
    /\ Goto(c, "remove")
    /\ child' = [child EXCEPT ![c] = NoPid]
    /\ UNCHANGED <<pidfile, where, bind>>

\* It is still there after both: an error, and the file stays.
NotStopped(c) ==
    /\ pc[c] = "term" /\ proc[child[c]] # "none"
    /\ End(c)
    /\ UNCHANGED <<pidfile, where, servers>>

Remove(c) ==
    /\ pc[c] = "remove"
    /\ pidfile' = NoPid
    /\ End(c)
    /\ UNCHANGED <<where, servers>>

------------------------------------------------------------------------------
Program(q) ==
    \/ \E a \in Addrs : Serve(q, a)
    \/ Check(q) \/ Listen(q) \/ Die(q) \/ ReachKillDate(q) \/ Retire(q) \/ Unlink(q)
    \/ Other(q)

Command(c) ==
    \/ \E l \in {"look", "stop"}, a \in Addrs : Begin(c, l, a)
    \/ Look(c) \/ Probe(c) \/ Spawn(c) \/ Write(c) \/ Wait(c) \/ Report(c)
    \/ NoAnswerYet(c) \/ TimeOut(c) \/ Interrupted(c)
    \/ StopLook(c) \/ Term(c) \/ NotStopped(c) \/ Remove(c)

Next == (\E q \in Pids : Program(q)) \/ (\E c \in Cmds : Command(c))

Spec == Init /\ [][Next]_vars

------------------------------------------------------------------------------
(* Properties.                                                             *)

TypeOK ==
    /\ pidfile \in Pids \cup {NoPid}
    /\ pc \in [Cmds -> {"idle", "look", "probe", "spawn", "write", "wait", "poll",
                        "stop", "term", "remove"}]
    /\ where \in [Cmds -> Addrs] /\ child \in [Cmds -> Pids \cup {NoPid}]
    /\ proc \in [Pids -> ServerStages \cup {"none", "other"}]
    /\ bind \in [Pids -> Addrs]
    /\ detached \subseteq {q \in Pids : Server(q)}
    /\ \A c \in Cmds : pc[c] \in {"write", "wait", "poll", "term"} <=> child[c] # NoPid

\* The pid file names every detached server for as long as it lives, from its
\* launcher's write on: `stop` and the next launcher find it, whatever timed
\* out, crashed, retired or took its place.
Named ==
    \A q \in detached :
        pidfile = q \/ \E c \in Cmds : pc[c] = "write" /\ child[c] = q

\* `stop` signals detached servers alone: not a program that got the pid of
\* one that died, not a server in the foreground (detached_server: "it can
\* name any other process, which `stop` would then kill").
SignalsServersOnly ==
    [][\A c \in Cmds : Term(c) => child[c] \in detached \/ proc[child[c]] = "none"]_vars

\* A stop that ends well leaves no detached server (README: "`xks stop` ends
\* a detached one at once").
StopEnds == [][\A c \in Cmds : Remove(c) => detached = {}]_vars

\* The server a launcher reports is its own (detach: "returns once it answers
\* /health").
ReportsOwn == [][\A c \in Cmds : Report(c) => proc[child[c]] = "up"]_vars
=============================================================================
