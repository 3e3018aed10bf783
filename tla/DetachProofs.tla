----------------------------- MODULE DetachProofs -----------------------------
(***************************************************************************)
(* For any commands, pids and addresses: `stop` signals detached servers   *)
(* alone, however many commands run at once; and when they run one at a    *)
(* time, the pid file names the one detached server, `stop` leaves none,   *)
(* and a launcher reports its own (Detach).                                *)
(*                                                                         *)
(* The argument: a pid that the file or a command knows is that of a       *)
(* detached server for as long as it is a server's (Known); so a launcher  *)
(* that looks finds the last one's server, and starts another only when    *)
(* there is none (Follows).                                                *)
(***************************************************************************)
EXTENDS Detach, TLAPS

\* What the file names, and what a command waits for or is about to signal,
\* is a detached server, or a pid whose server is gone.  A command's is no
\* other program's: it is not reaped yet.
Known ==
    /\ pidfile # NoPid /\ Server(pidfile) => pidfile \in detached
    /\ \A c \in Cmds : child[c] # NoPid =>
          /\ Server(child[c]) => child[c] \in detached
          /\ proc[child[c]] # "other"

Inv == TypeOK /\ Known

Launching == {"look", "probe", "spawn", "write", "wait", "poll"}
WithChild == {"write", "wait", "poll", "term"}

\* Commands one at a time: what a command can count on at each of its steps.
\* Servers in the foreground have started before it or wait until after it.
Alone == \A c, d \in Cmds : pc[c] # "idle" /\ pc[d] # "idle" => c = d
Follows ==
    \A c \in Cmds :
        /\ pc[c] \in {"probe", "spawn", "remove"} => detached = {}
        /\ pc[c] \in WithChild => detached \subseteq {child[c]}
        /\ pc[c] \in Launching => \A q \in Pids : ~Starting(q)
        /\ pc[c] = "spawn" => ~Answers(where[c])
        /\ pc[c] \in {"write", "wait", "poll"} =>
              \A q \in Pids : proc[q] = "up" /\ bind[q] = where[c] => q = child[c]

\* A server that is about to remove the pid file is the one it named.
Unlinking == \A q \in Pids : proc[q] = "unlink" => q \in detached

SerialInv == Inv /\ Alone /\ Named /\ Follows /\ Unlinking

------------------------------------------------------------------------------
(* Any commands, at once or not.                                           *)

LEMMA InvInit == Init => Inv
  BY DEF Init, Inv, TypeOK, Known, Server, ServerStages

LEMMA InvProgram ==
  ASSUME Inv, NEW q \in Pids, Program(q)
  PROVE  Inv'
<1>. USE DetachAssumption DEF Inv, TypeOK, Known, Server, ServerStages, Turn, Gone
<1>1. ASSUME NEW a \in Addrs, Serve(q, a) PROVE Inv'
  BY <1>1 DEF Serve, Fresh, Pinned
<1>2. ASSUME Check(q) PROVE Inv'
  BY <1>2 DEF Check
<1>3. ASSUME Listen(q) PROVE Inv'
  BY <1>3 DEF Listen
<1>4. ASSUME Die(q) PROVE Inv'
  BY <1>4 DEF Die
<1>5. ASSUME ReachKillDate(q) PROVE Inv'
  BY <1>5 DEF ReachKillDate
<1>6. ASSUME Retire(q) PROVE Inv'
  BY <1>6 DEF Retire, Ours
<1>7. ASSUME Unlink(q) PROVE Inv'
  BY <1>7 DEF Unlink
<1>8. ASSUME Other(q) PROVE Inv'
  BY <1>8 DEF Other, Pinned
<1>9. QED
  BY <1>1, <1>2, <1>3, <1>4, <1>5, <1>6, <1>7, <1>8 DEF Program

LEMMA InvCommand ==
  ASSUME Inv, NEW c \in Cmds, Command(c)
  PROVE  Inv'
<1>. USE DetachAssumption DEF Inv, TypeOK, Known, Server, ServerStages, Turn, Gone, Goto, End,
                              servers
<1>1. ASSUME NEW l \in {"look", "stop"}, NEW a \in Addrs, Begin(c, l, a) PROVE Inv'
  BY <1>1 DEF Begin
<1>2. ASSUME Look(c) \/ Probe(c) \/ Write(c) PROVE Inv'
  BY <1>2 DEF Look, Probe, Write
<1>3. ASSUME Spawn(c) PROVE Inv'
  BY <1>3 DEF Spawn, Fresh, Pinned
<1>4. ASSUME Wait(c) \/ Report(c) \/ NoAnswerYet(c) PROVE Inv'
  BY <1>4 DEF Wait, Report, NoAnswerYet
<1>5. ASSUME TimeOut(c) \/ Interrupted(c) PROVE Inv'
  BY <1>5 DEF TimeOut, Interrupted
<1>6. ASSUME StopLook(c) PROVE Inv'
  BY <1>6 DEF StopLook, DetachedServer
<1>7. ASSUME Term(c) PROVE Inv'
  BY <1>7 DEF Term
<1>8. ASSUME NotStopped(c) \/ Remove(c) PROVE Inv'
  BY <1>8 DEF NotStopped, Remove
<1>9. QED
  BY <1>1, <1>2, <1>3, <1>4, <1>5, <1>6, <1>7, <1>8 DEF Command

LEMMA InvNext == Inv /\ [Next]_vars => Inv'
<1>. SUFFICES ASSUME Inv, [Next]_vars PROVE Inv'
  OBVIOUS
<1>1. CASE UNCHANGED vars
  BY <1>1 DEF Inv, TypeOK, Known, Server, vars
<1>2. QED
  BY <1>1, InvProgram, InvCommand DEF Next

LEMMA SpecInv == Spec => []Inv
  BY InvInit, InvNext, PTL DEF Spec

\* The types, and that a detached server runs.
THEOREM TypeCorrect == Spec => []TypeOK
<1>1. Inv => TypeOK
  BY DEF Inv
<1>. QED
  BY <1>1, SpecInv, PTL

\* `stop` signals detached servers and nothing else, even when launchers,
\* other stops and other programs run at the same time (detached_server).
THEOREM StopSignalsServers == Spec => SignalsServersOnly
<1>1. Inv => \A c \in Cmds : Term(c) => child[c] \in detached \/ proc[child[c]] = "none"
  BY DetachAssumption DEF Inv, TypeOK, Known, Server, Term
<1>2. Inv /\ [Next]_vars =>
         [\A c \in Cmds : Term(c) => child[c] \in detached \/ proc[child[c]] = "none"]_vars
  BY <1>1
<1>. QED
  BY <1>2, SpecInv, PTL DEF Spec, SignalsServersOnly

------------------------------------------------------------------------------
(* Commands one at a time.                                                 *)

LEMMA SerialInit == Init => SerialInv
  BY InvInit DEF Init, SerialInv, Alone, Named, Follows, Unlinking, WithChild, Launching

\* A program that is neither a detached server nor starts leaves the
\* commands' view of the detached servers alone.
LEMMA SerialProgram ==
  ASSUME Serial, SerialInv, NEW q \in Pids, Program(q)
  PROVE  SerialInv'
<1>1. Inv'
  BY InvProgram DEF SerialInv
<1>2. pc' = pc /\ child' = child /\ where' = where
  BY DEF Program, Serve, Check, Listen, Die, ReachKillDate, Retire, Unlink, Other
<1>3. Alone'
  BY <1>2 DEF SerialInv, Alone
<1>. USE DetachAssumption DEF SerialInv, Inv, TypeOK, Known, Server, ServerStages, Turn, Gone,
                              Starting
<1>4. detached' \subseteq detached
  BY DEF Program, Serve, Check, Listen, Die, ReachKillDate, Retire, Unlink, Other
<1>5. Unlinking'
  <2>1. \A p \in Pids : proc'[p] = "unlink" /\ p # q => p \in detached'
    BY DEF Unlinking, Program, Serve, Check, Listen, Die, ReachKillDate, Retire, Unlink, Other
  <2>2. proc'[q] = "unlink" => q \in detached'
    BY DEF Unlinking, Program, Serve, Check, Listen, Die, ReachKillDate, Retire, Unlink, Other,
           Ours
  <2>3. QED
    BY <2>1, <2>2 DEF Unlinking
<1>6. Named'
  <2>1. CASE Unlink(q)
    \* The last detached server is gone with its file.
    <3>1. q \in detached /\ detached' = detached \ {q}
      BY <2>1 DEF Unlink, Unlinking
    <3>2. ASSUME NEW p \in detached, p # q PROVE \E c \in Cmds : pc[c] = "write" /\ child[c] = p
      <4>1. CASE \E c \in Cmds : pc[c] = "write"
        BY <3>1, <3>2, <4>1 DEF Follows, WithChild
      <4>2. CASE ~\E c \in Cmds : pc[c] = "write"
        BY <3>1, <3>2, <4>2 DEF Named
      <4>3. QED
        BY <4>1, <4>2
    <3>3. QED
      BY <1>2, <3>1, <3>2 DEF Named
  <2>2. CASE ~Unlink(q)
    <3>1. pidfile' = pidfile
      BY <2>2 DEF Program, Serve, Check, Listen, Die, ReachKillDate, Retire, Other
    <3>2. QED
      BY <1>2, <1>4, <3>1 DEF Named
  <2>3. QED
    BY <2>1, <2>2
<1>7. Follows'
  <2>. SUFFICES ASSUME NEW c \in Cmds
       PROVE  /\ pc[c] \in {"probe", "spawn", "remove"} => detached' = {}
              /\ pc[c] \in WithChild => detached' \subseteq {child[c]}
              /\ pc[c] \in Launching => \A p \in Pids : ~Starting(p)'
              /\ pc[c] = "spawn" => ~Answers(where[c])'
              /\ pc[c] \in {"write", "wait", "poll"} =>
                    \A p \in Pids : proc'[p] = "up" /\ bind'[p] = where[c] => p = child[c]
    BY <1>2 DEF Follows, Answers
  <2>1. /\ pc[c] \in {"probe", "spawn", "remove"} => detached' = {}
        /\ pc[c] \in WithChild => detached' \subseteq {child[c]}
    BY <1>4 DEF Follows
  <2>2. pc[c] # "idle" => ~\E a \in Addrs : Serve(q, a)
    BY DEF Serve, MayBegin
  <2>3. ASSUME pc[c] \in Launching PROVE \A p \in Pids : ~Starting(p)'
    BY <2>2, <2>3 DEF Follows, Launching, Program, Check, Listen, Die, ReachKillDate, Retire,
       Unlink, Other
  <2>4. ASSUME pc[c] \in Launching, NEW p \in Pids, proc'[p] = "up"
        PROVE  /\ bind'[p] = bind[p]
               /\ proc[p] = "up" \/ p \in detached
    BY <2>2, <2>4 DEF Follows, Launching, Program, Check, Listen, Die, ReachKillDate, Retire,
       Unlink, Other
  <2>5. pc[c] = "spawn" => ~Answers(where[c])'
    BY <1>2, <2>4 DEF Follows, Launching, Answers
  <2>6. pc[c] \in {"write", "wait", "poll"} =>
           \A p \in Pids : proc'[p] = "up" /\ bind'[p] = where[c] => p = child[c]
    BY <2>4 DEF Follows, Launching, WithChild
  <2>7. QED
    BY <2>1, <2>3, <2>5, <2>6
<1>8. QED
  BY <1>1, <1>3, <1>5, <1>6, <1>7

LEMMA SerialCommand ==
  ASSUME Serial, SerialInv, NEW c \in Cmds, Command(c)
  PROVE  SerialInv'
<1>1. Inv'
  BY InvCommand DEF SerialInv
<1>. USE DetachAssumption DEF SerialInv, Inv, TypeOK, Known, Server, ServerStages, Turn, Gone,
                              Goto, End, servers, Starting
<1>2. /\ \A d \in Cmds : d # c => pc[d] = "idle" /\ pc'[d] = "idle" /\ child'[d] = child[d]
      /\ pc[c] = "idle" => \E l \in {"look", "stop"}, a \in Addrs : Begin(c, l, a)
  <2>1. ASSUME NEW l \in {"look", "stop"}, NEW a \in Addrs, Begin(c, l, a)
        PROVE  \A d \in Cmds : d # c => pc[d] = "idle" /\ pc'[d] = "idle" /\ child'[d] = child[d]
    BY <2>1 DEF Begin, MayBegin
  <2>2. ASSUME ~\E l \in {"look", "stop"}, a \in Addrs : Begin(c, l, a)
        PROVE  /\ pc[c] # "idle"
               /\ \A d \in Cmds : d # c => pc'[d] = pc[d] /\ child'[d] = child[d]
    BY <2>2 DEF Command, Look, Probe, Spawn, Write, Wait, Report, NoAnswerYet, TimeOut,
       Interrupted, StopLook, Term, NotStopped, Remove
  <2>3. QED
    BY <2>1, <2>2 DEF Alone
<1>3. Alone'
  BY <1>2 DEF Alone
<1>4. Unlinking'
  BY DEF Unlinking, Command, Begin, Look, Probe, Spawn, Fresh, Write, Wait, Report, NoAnswerYet,
     TimeOut, Interrupted, StopLook, Term, NotStopped, Remove
<1>5. Named' /\ Follows'
  <2>. USE <1>2 DEF Named, Follows, WithChild, Launching, Answers
  <2>1. ASSUME NEW l \in {"look", "stop"}, NEW a \in Addrs, Begin(c, l, a) PROVE Named' /\ Follows'
    BY <2>1 DEF Begin, MayBegin
  <2>2. ASSUME Look(c) PROVE Named' /\ Follows'
    \* No server the file names, no command at its write: no detached server.
    <3>1. ~DetachedServer => detached = {}
      BY <2>2 DEF Look, DetachedServer
    <3>2. QED
      BY <2>2, <3>1 DEF Look
  <2>3. ASSUME Probe(c) PROVE Named' /\ Follows'
    BY <2>3 DEF Probe, NothingAnswers
  <2>4. ASSUME Spawn(c) PROVE Named' /\ Follows'
    <3>1. PICK q \in Pids : /\ Fresh(q) /\ proc' = [proc EXCEPT ![q] = "check"]
                            /\ detached' = detached \cup {q}
                            /\ child' = [child EXCEPT ![c] = q]
                            /\ bind' = [bind EXCEPT ![q] = where[c]]
      BY <2>4 DEF Spawn
    <3>2. pc' = [pc EXCEPT ![c] = "write"] /\ where' = where /\ pidfile' = pidfile /\ detached = {}
      BY <2>4 DEF Spawn
    <3>3. Named'
      BY <3>1, <3>2
    \* None is up where it will be, and none but it is about to be anywhere.
    <3>4. \A p \in Pids : ~Starting(p)' /\ ~(proc'[p] = "up" /\ bind'[p] = where[c])
      <4>1. pc[c] = "spawn" /\ ~Answers(where[c]) /\ \A p \in Pids : ~Starting(p)
        BY <2>4 DEF Spawn
      <4>2. QED
        BY <3>1, <4>1
    <3>5. pc'[c] = "write" /\ child'[c] = q /\ detached' = {q}
      BY <3>1, <3>2
    <3>6. Follows'
      BY <3>2, <3>4, <3>5
    <3>7. QED
      BY <3>3, <3>6
  <2>5. ASSUME Write(c) PROVE Named' /\ Follows'
    BY <2>5 DEF Write
  <2>6. ASSUME Wait(c) PROVE Named' /\ Follows'
    BY <2>6 DEF Wait
  <2>7. ASSUME Report(c) \/ NoAnswerYet(c) \/ TimeOut(c) \/ Interrupted(c) PROVE Named' /\ Follows'
    BY <2>7 DEF Report, NoAnswerYet, TimeOut, Interrupted
  <2>8. ASSUME StopLook(c) PROVE Named' /\ Follows'
    <3>1. IF DetachedServer THEN detached \subseteq {pidfile} ELSE detached = {}
      BY <2>8 DEF StopLook, DetachedServer
    <3>2. QED
      BY <2>8, <3>1 DEF StopLook, DetachedServer
  <2>9. ASSUME Term(c) PROVE Named' /\ Follows'
    BY <2>9 DEF Term
  <2>10. ASSUME NotStopped(c) \/ Remove(c) PROVE Named' /\ Follows'
    BY <2>10 DEF NotStopped, Remove
  <2>11. QED
    BY <2>1, <2>2, <2>3, <2>4, <2>5, <2>6, <2>7, <2>8, <2>9, <2>10 DEF Command
<1>6. QED
  BY <1>1, <1>3, <1>4, <1>5

LEMMA SerialNext == Serial /\ SerialInv /\ [Next]_vars => SerialInv'
<1>. SUFFICES ASSUME Serial, SerialInv, [Next]_vars PROVE SerialInv'
  OBVIOUS
<1>1. CASE UNCHANGED vars
  BY <1>1 DEF SerialInv, Inv, TypeOK, Known, Server, vars, Alone, Named, Follows, Unlinking,
     Starting, Answers
<1>2. QED
  BY <1>1, SerialProgram, SerialCommand DEF Next

LEMMA SpecSerial == ASSUME Serial PROVE Spec => []SerialInv
<1>1. SerialInv /\ [Next]_vars => SerialInv'
  BY SerialNext
<1>. QED
  BY <1>1, SerialInit, PTL DEF Spec

\* Commands one at a time: the pid file names every detached server, from its
\* launcher's write on, so there is never a second one.
THEOREM PidFileNames == ASSUME Serial PROVE Spec => []Named
<1>1. SerialInv => Named
  BY DEF SerialInv
<1>. QED
  BY <1>1, SpecSerial, PTL

\* A stop that gets as far as removing the pid file leaves no detached server.
THEOREM StopLeavesNone == ASSUME Serial PROVE Spec => StopEnds
<1>1. SerialInv => \A c \in Cmds : Remove(c) => detached = {}
  BY DEF SerialInv, Follows, Remove
<1>2. SerialInv /\ [Next]_vars => [\A c \in Cmds : Remove(c) => detached = {}]_vars
  BY <1>1
<1>. QED
  BY <1>2, SpecSerial, PTL DEF Spec, StopEnds

\* The server that answers a launcher's poll is the launcher's child.
THEOREM LaunchersReportTheirOwn == ASSUME Serial PROVE Spec => ReportsOwn
<1>1. SerialInv => \A c \in Cmds : Report(c) => proc[child[c]] = "up"
  BY DEF SerialInv, Follows, Report, Answers
<1>2. SerialInv /\ [Next]_vars => [\A c \in Cmds : Report(c) => proc[child[c]] = "up"]_vars
  BY <1>1
<1>. QED
  BY <1>2, SpecSerial, PTL DEF Spec, ReportsOwn
===============================================================================
