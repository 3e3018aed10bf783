---------------------------- MODULE ServerProofs ----------------------------
(***************************************************************************)
(* For any clients, kill date and log: `busy` is the number of requests    *)
(* with a thread, the server stops on none of them, and the decision log   *)
(* agrees with the answers (Server).                                       *)
(*                                                                         *)
(* The argument: a request waits in the queue once and has no thread while *)
(* it does (Waiting), so an accept adds exactly one thread; a client has   *)
(* its answer only after its line is written or its write has failed       *)
(* (Written); and one thread at a time is on the log's last line, so a     *)
(* line that began on its own and was ended is one entry (OneWriter).      *)
(***************************************************************************)
EXTENDS Server, FiniteSetTheorems, TLAPS

Busy == {c \in Clients : stage[c] # "none"}

\* A request in the queue is there once, unanswered and without a thread.
Waiting ==
    /\ \A i \in DOMAIN queue : client[queue[i]] = "sent" /\ stage[queue[i]] = "none"
    /\ \A i, j \in DOMAIN queue : queue[i] = queue[j] => i = j

\* The lines of a request at each stage of its thread, and after it.
Lines(c) == IF DecisionLog /\ status[c] \in Judged /\ ~spoilt[c] THEN 1 ELSE 0

Written ==
    \A c \in Clients :
        /\ stage[c] \in {"running", "judged", "writing", "recorded"} => client[c] = "sent"
        /\ stage[c] \in {"responded", "stamped"} => client[c] = "answered"
        /\ client[c] = "sent" /\ stage[c] \in {"none", "running"} => lines[c] = 0
        /\ stage[c] \in {"judged", "writing"} => status[c] \in Judged /\ lines[c] = 0
        /\ stage[c] = "recorded" => lines[c] = Lines(c)
        /\ client[c] = "answered" => lines[c] = Lines(c)

\* Who holds the log's lock is on its last line, alone.
OneWriter ==
    \A c \in Clients :
        /\ c \in tail <=> stage[c] = "writing"
        /\ stage[c] = "writing" => DecisionLog /\ (spoilt[c] <=> Torn \in tail)
        /\ \A d \in Clients : stage[c] = "writing" /\ stage[d] = "writing" => c = d

Inv == TypeOK /\ BusyCounts /\ Waiting /\ Written /\ OneWriter

------------------------------------------------------------------------------
(* Counting.                                                               *)

\* A thread that starts adds one to Busy, one that ends takes one off it.
LEMMA OneMore ==
  ASSUME TypeOK, NEW c \in Clients, stage[c] = "none", NEW s, s # "none",
         stage' = [stage EXCEPT ![c] = s]
  PROVE  Cardinality(Busy') = Cardinality(Busy) + 1
<1>1. IsFiniteSet(Busy)
  BY ServerAssumption, FS_Subset DEF Busy
<1>2. Busy' = Busy \cup {c} /\ c \notin Busy
  BY DEF Busy, TypeOK
<1>3. QED
  BY <1>1, <1>2, FS_AddElement

LEMMA OneLess ==
  ASSUME TypeOK, NEW c \in Clients, stage[c] # "none",
         stage' = [stage EXCEPT ![c] = "none"]
  PROVE  Cardinality(Busy') = Cardinality(Busy) - 1
<1>1. IsFiniteSet(Busy)
  BY ServerAssumption, FS_Subset DEF Busy
<1>2. Busy' = Busy \ {c} /\ c \in Busy
  BY DEF Busy, TypeOK
<1>3. QED
  BY <1>1, <1>2, FS_RemoveElement

LEMMA CountIsNatural ==
  BusyCounts => busy = Cardinality(Busy) /\ busy \in Nat
<1>1. IsFiniteSet(Busy)
  BY ServerAssumption, FS_Subset DEF Busy
<1>2. QED
  BY <1>1, FS_CardinalityType DEF BusyCounts, Busy

------------------------------------------------------------------------------
(* The invariant.                                                          *)

LEMMA InitInv == Init => Inv
<1>. SUFFICES ASSUME Init PROVE Inv
  OBVIOUS
<1>1. TypeOK
  BY ServerAssumption DEF Init, TypeOK
<1>2. BusyCounts
  BY FS_EmptySet DEF Init, BusyCounts
<1>3. OneWriter
  BY ServerAssumption DEF Init, OneWriter
<1>4. QED
  BY <1>1, <1>2, <1>3 DEF Init, Inv, Waiting, Written

LEMMA SendInv ==
  ASSUME Inv, NEW c \in Clients, NEW k \in {"question", "other"}, Send(c, k)
  PROVE  Inv'
<1>1. TypeOK'
  BY ServerAssumption DEF Inv, TypeOK, Send
<1>2. BusyCounts'
  BY DEF Inv, BusyCounts, Send
<1>3. Waiting'
  <2>1. queue \in Seq(Clients) /\ queue' = Append(queue, c)
    BY DEF Inv, TypeOK, Send
  <2>2. \A i \in DOMAIN queue : queue[i] # c
    BY DEF Inv, Waiting, Send
  <2>3. /\ DOMAIN queue' = 1 .. Len(queue) + 1 /\ DOMAIN queue = 1 .. Len(queue)
        /\ \A i \in DOMAIN queue : queue'[i] = queue[i]
        /\ queue'[Len(queue) + 1] = c /\ Len(queue) \in Nat
    BY <2>1
  <2>4. \A i \in DOMAIN queue' : i \in DOMAIN queue \/ i = Len(queue) + 1
    BY <2>3
  <2>5. /\ \A i \in DOMAIN queue : queue[i] \in Clients
        /\ stage' = stage /\ stage[c] = "none"
        /\ client' = [client EXCEPT ![c] = "sent"] /\ client \in [Clients -> {"quiet", "sent", "answered", "lost"}]
    BY <2>1 DEF Send, Inv, TypeOK
  <2>6. QED
    BY <2>2, <2>3, <2>4, <2>5 DEF Inv, Waiting
<1>4. Written'
  BY DEF Inv, TypeOK, Written, Lines, Send
<1>5. OneWriter'
  BY DEF Inv, TypeOK, OneWriter, Send
<1>6. QED
  BY <1>1, <1>2, <1>3, <1>4, <1>5 DEF Inv

LEMMA AcceptInv ==
  ASSUME Inv, Accept
  PROVE  Inv'
<1>1. /\ queue \in Seq(Clients) /\ queue # <<>> /\ Head(queue) = queue[1]
      /\ 1 \in DOMAIN queue /\ queue[1] \in Clients
      /\ stage' = [stage EXCEPT ![queue[1]] = "running"]
  BY DEF Inv, TypeOK, Accept
<1>2. stage[queue[1]] = "none" /\ client[queue[1]] = "sent"
  BY <1>1 DEF Inv, Waiting
<1>3. busy' = busy + 1 /\ Cardinality(Busy') = Cardinality(Busy) + 1
  BY <1>1, <1>2, OneMore DEF Accept, Count, Inv
<1>4. BusyCounts'
  BY <1>3 DEF Inv, BusyCounts, Busy
<1>5. TypeOK'
  BY <1>1, <1>3, ServerAssumption DEF Inv, TypeOK, Accept, log
<1>6. Waiting'
  <2>1. /\ queue' = Tail(queue) /\ DOMAIN queue' = 1 .. Len(queue) - 1
        /\ DOMAIN queue = 1 .. Len(queue) /\ Len(queue) \in Nat
        /\ \A i \in DOMAIN queue' : queue'[i] = queue[i + 1]
    BY <1>1 DEF Accept
  <2>2. \A i \in DOMAIN queue' : i + 1 \in DOMAIN queue /\ i + 1 # 1
    BY <2>1
  <2>3. \A i \in DOMAIN queue' : queue'[i] # queue[1]
    BY <1>1, <2>1, <2>2 DEF Inv, Waiting
  <2>4. \A i \in DOMAIN queue' : stage'[queue'[i]] = "none" /\ client'[queue'[i]] = "sent"
    BY <1>1, <2>1, <2>2, <2>3 DEF Inv, Waiting, TypeOK, Accept
  <2>5. \A i, j \in DOMAIN queue' : queue'[i] = queue'[j] => i = j
    <3>1. SUFFICES ASSUME NEW i \in DOMAIN queue', NEW j \in DOMAIN queue',
                          queue'[i] = queue'[j]
                   PROVE  i = j
      OBVIOUS
    <3>2. i + 1 = j + 1
      BY <2>1, <2>2, <3>1 DEF Inv, Waiting
    <3>3. QED
      BY <2>1, <3>2
  <2>6. QED
    BY <2>4, <2>5 DEF Waiting
<1>7. Written'
  BY <1>1, <1>2 DEF Inv, TypeOK, Written, Lines, Accept, log
<1>8. OneWriter'
  BY <1>1, <1>2 DEF Inv, TypeOK, OneWriter, Accept, log
<1>9. QED
  BY <1>4, <1>5, <1>6, <1>7, <1>8 DEF Inv

\* A thread that moves from a stage to another, not to its end.
LEMMA MoveWaiting ==
  ASSUME Inv, NEW c \in Clients, stage[c] # "none", UNCHANGED <<busy, queue>>,
         NEW s \in {"judged", "writing", "recorded", "responded", "stamped"},
         stage' = [stage EXCEPT ![c] = s],
         \A d \in Clients \ {c} : client'[d] = client[d]
  PROVE  BusyCounts' /\ Waiting'
<1>1. Busy' = Busy
  BY DEF Inv, TypeOK, Busy
<1>2. BusyCounts'
  BY <1>1 DEF Inv, BusyCounts, Busy
<1>3. \A i \in DOMAIN queue : queue[i] \in Clients \ {c}
  BY DEF Inv, TypeOK, Waiting
<1>4. Waiting'
  BY <1>3 DEF Inv, Waiting, TypeOK
<1>5. QED
  BY <1>2, <1>4

\* The steps of Log::record.
LEMMA RecordInv ==
  ASSUME Inv, NEW c \in Clients, Record(c)
  PROVE  Inv'
<1>1. CASE BeginLine(c)
  <2>1. TypeOK'
    BY <1>1 DEF Inv, TypeOK, BeginLine
  <2>2. BusyCounts' /\ Waiting'
    <3>1. /\ stage' = [stage EXCEPT ![c] = "writing"]
          /\ stage[c] # "none" /\ UNCHANGED <<busy, queue, client>>
      BY <1>1 DEF BeginLine
    <3>2. QED
      BY <3>1, MoveWaiting
  <2>3. Written'
    BY <1>1 DEF Inv, TypeOK, Written, Lines, BeginLine
  <2>4. OneWriter'
    <3>1. /\ tail' = tail \cup {c} /\ DecisionLog /\ Torn # c
          /\ stage' = [stage EXCEPT ![c] = "writing"] /\ DOMAIN stage = Clients
          /\ \A d \in Clients : stage[d] # "writing"
      BY <1>1, ServerAssumption DEF Inv, TypeOK, BeginLine, LogFree
    <3>2. spoilt'[c] = (Torn \in tail)
      BY <1>1, Zenon DEF Inv, TypeOK, BeginLine
    <3>3. spoilt'[c] <=> Torn \in tail'
      BY <3>1, <3>2
    <3>4. \A d \in Clients : d \notin tail
      BY <3>1 DEF Inv, OneWriter
    <3>5. QED
      BY <3>1, <3>3, <3>4 DEF OneWriter
  <2>5. QED
    BY <2>1, <2>2, <2>3, <2>4 DEF Inv
<1>2. CASE EndLine(c)
  <2>1. TypeOK'
    BY <1>2 DEF Inv, TypeOK, EndLine
  <2>2. BusyCounts' /\ Waiting'
    <3>1. /\ stage' = [stage EXCEPT ![c] = "recorded"]
          /\ stage[c] # "none" /\ UNCHANGED <<busy, queue, client>>
      BY <1>2 DEF EndLine
    <3>2. QED
      BY <3>1, MoveWaiting
  <2>3. Written'
    <3>1. tail = {c} <=> ~spoilt[c]
      BY <1>2, ServerAssumption DEF Inv, TypeOK, OneWriter, EndLine
    <3>2. lines'[c] = Lines(c)
      BY <1>2, <3>1 DEF Inv, TypeOK, Written, OneWriter, Lines, EndLine
    <3>3. \A d \in Clients \ {c} : lines'[d] = lines[d] /\ stage'[d] = stage[d]
      BY <1>2 DEF Inv, TypeOK, EndLine
    <3>4. UNCHANGED <<client, status, spoilt>> /\ stage'[c] = "recorded" /\ client[c] = "sent"
      BY <1>2 DEF Inv, TypeOK, Written, EndLine
    <3>5. QED
      BY <3>2, <3>3, <3>4 DEF Inv, Written, Lines
  <2>4. OneWriter'
    BY <1>2 DEF Inv, TypeOK, OneWriter, EndLine
  <2>5. QED
    BY <2>1, <2>2, <2>3, <2>4 DEF Inv
<1>3. CASE BreakLine(c)
  <2>1. TypeOK'
    BY <1>3 DEF Inv, TypeOK, BreakLine
  <2>2. BusyCounts' /\ Waiting'
    <3>1. /\ stage' = [stage EXCEPT ![c] = "recorded"]
          /\ stage[c] # "none" /\ UNCHANGED <<busy, queue, client>>
      BY <1>3 DEF BreakLine
    <3>2. QED
      BY <3>1, MoveWaiting
  <2>3. Written'
    BY <1>3 DEF Inv, TypeOK, Written, Lines, BreakLine
  <2>4. OneWriter'
    BY <1>3, ServerAssumption DEF Inv, TypeOK, OneWriter, BreakLine
  <2>5. QED
    BY <2>1, <2>2, <2>3, <2>4 DEF Inv
<1>4. CASE NoLine(c)
  <2>1. TypeOK'
    BY <1>4, ServerAssumption DEF Inv, TypeOK, NoLine
  <2>2. BusyCounts' /\ Waiting'
    <3>1. /\ stage' = [stage EXCEPT ![c] = "recorded"]
          /\ stage[c] # "none" /\ UNCHANGED <<busy, queue, client>>
      BY <1>4 DEF NoLine
    <3>2. QED
      BY <3>1, MoveWaiting
  <2>3. Written'
    BY <1>4, ServerAssumption DEF Inv, TypeOK, Written, Lines, NoLine
  <2>4. OneWriter'
    BY <1>4 DEF Inv, TypeOK, OneWriter, NoLine
  <2>5. QED
    BY <2>1, <2>2, <2>3, <2>4 DEF Inv
<1>5. QED
  BY <1>1, <1>2, <1>3, <1>4 DEF Record

LEMMA ThreadInv ==
  ASSUME Inv, NEW c \in Clients, Thread(c)
  PROVE  Inv'
<1>1. CASE Handle(c)
  <2>1. TypeOK'
    <3>1. \E s \in {"plain"} \cup Judged \cup Unjudged : status' = [status EXCEPT ![c] = s]
      BY <1>1 DEF Handle
    <3>2. \E s \in {"recorded", "judged"} : stage' = [stage EXCEPT ![c] = s]
      BY <1>1 DEF Handle
    <3>3. UNCHANGED <<client, kind, queue, loop, waited, idle, busy, tail, lines, spoilt,
                      lastAge, pollAge, quiet>>
      BY <1>1 DEF Handle, log
    <3>4. status' \in [Clients -> {"none", "plain"} \cup Judged \cup Unjudged]
      BY <3>1 DEF Inv, TypeOK
    <3>5. stage' \in [Clients -> {"none", "running", "judged", "writing", "recorded",
                                  "responded", "stamped"}]
      BY <3>2 DEF Inv, TypeOK
    <3>6. QED
      BY <3>3, <3>4, <3>5 DEF Inv, TypeOK
  <2>2. BusyCounts' /\ Waiting'
    <3>1. \/ stage' = [stage EXCEPT ![c] = "recorded"]
          \/ stage' = [stage EXCEPT ![c] = "judged"]
      BY <1>1 DEF Handle
    <3>2. stage[c] # "none" /\ UNCHANGED <<busy, queue, client>>
      BY <1>1 DEF Handle
    <3>3. QED
      BY <3>1, <3>2, MoveWaiting
  <2>3. Written'
    BY <1>1 DEF Inv, TypeOK, Written, Lines, Handle, Judged, Unjudged, log
  <2>4. OneWriter'
    BY <1>1 DEF Inv, TypeOK, OneWriter, Handle, log
  <2>5. QED
    BY <2>1, <2>2, <2>3, <2>4 DEF Inv
<1>2. CASE Record(c)
  BY <1>2, RecordInv
<1>3. CASE Respond(c)
  <2>1. TypeOK'
    BY <1>3, ServerAssumption DEF Inv, TypeOK, Respond, log
  <2>2. BusyCounts' /\ Waiting'
    <3>1. /\ stage' = [stage EXCEPT ![c] = "responded"]
          /\ stage[c] # "none" /\ UNCHANGED <<busy, queue>>
          /\ \A d \in Clients \ {c} : client'[d] = client[d]
      BY <1>3 DEF Respond, Handled, Inv, TypeOK
    <3>2. QED
      BY <3>1, MoveWaiting
  <2>3. Written'
    BY <1>3 DEF Inv, TypeOK, Written, Lines, Respond, Handled, log
  <2>4. OneWriter'
    BY <1>3 DEF Inv, TypeOK, OneWriter, Respond, Handled, log
  <2>5. QED
    BY <2>1, <2>2, <2>3, <2>4 DEF Inv
<1>4. CASE Stamp(c)
  <2>1. TypeOK'
    BY <1>4, ServerAssumption DEF Inv, TypeOK, Stamp, log
  <2>2. BusyCounts' /\ Waiting'
    <3>1. /\ stage' = [stage EXCEPT ![c] = "stamped"]
          /\ stage[c] # "none" /\ UNCHANGED <<busy, queue, client>>
      BY <1>4 DEF Stamp
    <3>2. QED
      BY <3>1, MoveWaiting
  <2>3. Written'
    BY <1>4 DEF Inv, TypeOK, Written, Lines, Stamp, log
  <2>4. OneWriter'
    BY <1>4 DEF Inv, TypeOK, OneWriter, Stamp, log
  <2>5. QED
    BY <2>1, <2>2, <2>3, <2>4 DEF Inv
<1>5. CASE Leave(c)
  <2>1. /\ stage[c] = "stamped" /\ stage' = [stage EXCEPT ![c] = "none"]
        /\ busy' = busy + -1
    BY <1>5 DEF Leave, Count
  <2>2. Cardinality(Busy') = Cardinality(Busy) - 1
    BY <2>1, OneLess DEF Inv
  <2>3. Cardinality(Busy) = busy /\ busy \in Nat
    BY CountIsNatural DEF Inv
  <2>4. busy' = Cardinality(Busy')
    BY <2>1, <2>2, <2>3
  <2>5. BusyCounts'
    BY <2>4 DEF BusyCounts, Busy
  <2>6. busy' \in Nat
    <3>1. IsFiniteSet(Busy')
      BY ServerAssumption, FS_Subset DEF Busy
    <3>2. QED
      BY <2>4, <3>1, FS_CardinalityType
  <2>7. TypeOK'
    BY <1>5, <2>6 DEF Inv, TypeOK, Leave, log
  <2>8. Waiting'
    <3>1. \A i \in DOMAIN queue : queue[i] \in Clients \ {c}
      BY <2>1 DEF Inv, TypeOK, Waiting
    <3>2. UNCHANGED <<queue, client>>
      BY <1>5 DEF Leave
    <3>3. QED
      BY <2>1, <3>1, <3>2 DEF Inv, TypeOK, Waiting
  <2>9. Written'
    <3>1. UNCHANGED <<client, status, lines, spoilt>> /\ client[c] = "answered"
      BY <1>5 DEF Inv, Written, Leave, log
    <3>2. QED
      BY <2>1, <3>1 DEF Inv, TypeOK, Written, Lines
  <2>10. OneWriter'
    BY <1>5, <2>1 DEF Inv, TypeOK, OneWriter, Leave, log
  <2>11. QED
    BY <2>5, <2>7, <2>8, <2>9, <2>10 DEF Inv
<1>6. QED
  BY <1>1, <1>2, <1>3, <1>4, <1>5 DEF Thread

LEMMA StoppedInv ==
  ASSUME Inv, loop # "stopped", Killed \/ ReachKillDate
  PROVE  Inv'
<1>1. busy' = 0 /\ Stopped(busy')
  BY DEF Killed, ReachKillDate, Stopped
<1>2. TypeOK'
  BY <1>1 DEF Inv, TypeOK, Stopped
<1>3. BusyCounts'
  BY <1>1, FS_EmptySet DEF Stopped, BusyCounts
<1>4. Waiting' /\ Written'
  BY <1>1 DEF Inv, TypeOK, Waiting, Written, Lines, Stopped
<1>5. OneWriter'
  BY <1>1, ServerAssumption DEF OneWriter, Stopped
<1>6. QED
  BY <1>2, <1>3, <1>4, <1>5 DEF Inv

\* Every step keeps the invariant.
LEMMA NextInv == Inv /\ [Next]_vars => Inv'
<1>. SUFFICES ASSUME Inv, [Next]_vars PROVE Inv'
  OBVIOUS
<1>1. CASE Tick
  BY <1>1, ServerAssumption
     DEF Tick, Inv, TypeOK, BusyCounts, Waiting, Written, Lines, OneWriter, Smaller, log
<1>2. CASE ReadIdle \/ StayOn
  <2>1. UNCHANGED <<client, kind, queue, busy, stage, status, tail, lines, spoilt, lastAge,
                    pollAge, quiet>>
    BY <1>2 DEF ReadIdle, StayOn, log
  <2>2. TypeOK'
    BY <1>2, <2>1, ServerAssumption DEF ReadIdle, StayOn, Inv, TypeOK
  <2>3. QED
    BY <2>1, <2>2 DEF Inv, BusyCounts, Waiting, Written, Lines, OneWriter
<1>3. CASE Killed \/ ReachKillDate
  BY <1>3, StoppedInv DEF Killed, ReachKillDate
<1>4. CASE UNCHANGED vars
  BY <1>4 DEF vars, log, Inv, TypeOK, BusyCounts, Waiting, Written, Lines, OneWriter
<1>5. QED
  BY <1>1, <1>2, <1>3, <1>4, SendInv, AcceptInv, ThreadInv DEF Next, Loop

THEOREM Invariance == SafeSpec => []Inv
  BY InitInv, NextInv, PTL DEF SafeSpec

------------------------------------------------------------------------------
(* What follows.                                                           *)

\* Every variable keeps its type.
THEOREM TypeCorrect == SafeSpec => []TypeOK
<1>1. Inv => TypeOK
  BY DEF Inv
<1>2. QED
  BY <1>1, Invariance, PTL

\* `busy` is exactly the number of requests with a thread.
THEOREM BusyIsExact == SafeSpec => []BusyCounts
<1>1. Inv => BusyCounts
  BY DEF Inv
<1>2. QED
  BY <1>1, Invariance, PTL

\* A client that has the answer of a question set finds one line of the
\* decision log that is its entry, unless the write of it failed.
THEOREM AnswersAreLogged == SafeSpec => []LogKept
<1>1. Inv => LogKept
  BY DEF Inv, Written, Lines, LogKept
<1>2. QED
  BY <1>1, Invariance, PTL

\* At the kill date no accepted request is without its answer.
THEOREM KillDateStopsOnNobody == SafeSpec => StopsOnNobody
<1>1. ASSUME Inv, ReachKillDate PROVE \A c \in Clients : stage[c] = "none"
  <2>1. Cardinality(Busy) = 0
    BY <1>1, CountIsNatural DEF Inv, ReachKillDate
  <2>2. IsFiniteSet(Busy)
    BY ServerAssumption, FS_Subset DEF Busy
  <2>3. Busy = {}
    BY <2>1, <2>2, FS_EmptySet
  <2>4. QED
    BY <2>3 DEF Busy
<1>2. Inv /\ [Next]_vars => [ReachKillDate => \A c \in Clients : stage[c] = "none"]_vars
  BY <1>1
<1>3. QED
  BY <1>2, Invariance, PTL DEF SafeSpec, StopsOnNobody
==============================================================================
