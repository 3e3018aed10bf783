------------------------------ MODULE Artichoke ------------------------------
(***************************************************************************)
(* ARTICHOKE, the interrogation engine (src/artichoke/mod.rs): threads     *)
(* call score_many, and the polygraph read_control and read_split, on one  *)
(* llama.cpp context under one mutex.  A call holds the mutex from its cut *)
(* of the kept session to its answer; in between it decodes plans of       *)
(* tokens in windows of NBatch, and any window may fail.                   *)
(*                                                                         *)
(* Sequence 0 is the rolling buffer (the last session), sequence 1 the     *)
(* root of a trie, the sequences from 1 (from 2 under a trie) the forks of *)
(* a round.                                                                *)
(***************************************************************************)
EXTENDS Fingerprints, LlamaMemory

CONSTANTS Threads,      \* callers of the engine
          NoRequest,    \* no call in progress
          None,         \* nobody holds the mutex
          NBatch,       \* --batch: tokens in one llama_decode
          Recurrent,    \* the subject keeps recurrent state
          Commands      \* the commands that use the engine, of AllCommands

\* `serve` goes on after an error, `polygraph` ends with it.
AllCommands == {"serve", "polygraph"}

ASSUME EngineAssumption ==
    /\ NBatch \in Nat \ {0}
    /\ Recurrent \in BOOLEAN /\ Commands \subseteq AllCommands
    /\ None \notin Threads /\ NoRequest \notin Requests
    \* polygraph::run is on main's thread alone.
    /\ "polygraph" \in Commands => \A t, u \in Threads : t = u

VARIABLES command,  \* the process's command
          cells,    \* the context's memory
          cached,   \* Inner.cached: the tokens sequence 0 is taken to hold
          labels,   \* Inner.labels: the labels already looked up
          owner,    \* who holds the mutex
          alive,    \* the process has not given up on an error
          pc, req, answer,        \* of each thread
          plan,     \* what the running decode has still to decode
          rows,     \* the output rows it has read
          round,    \* the fingerprints, or trie nodes, forked for it
          next,     \* index of the next single fingerprint, or control label
          depth,    \* tokens of the label a control reading has decoded
          start,    \* how much of the session was kept
          nodes,    \* trie nodes read
          readings, \* fingerprints read
          work      \* tokens decoded for the call (for the cost's honesty)

inner == <<cells, cached, labels>>
frame == <<plan, rows, round, next, depth, start, nodes, readings, work>>
vars == <<command, inner, owner, alive, pc, req, answer, frame>>

NoSlot == 0
NoAnswer == [status |-> "none"]
Rejected == [status |-> "rejected"]
Failed == [status |-> "failed"]
Scored(scores) == [status |-> "scored", scores |-> scores]

Init ==
    /\ command \in Commands
    /\ cells = {} /\ cached = <<>> /\ labels = {}
    /\ owner = None /\ alive = TRUE
    /\ pc = [t \in Threads |-> "idle"]
    /\ req = [t \in Threads |-> NoRequest]
    /\ answer = [t \in Threads |-> NoAnswer]
    /\ plan = {} /\ rows = {} /\ round = <<>> /\ next = 1 /\ depth = 0
    /\ start = 0 /\ nodes = {} /\ readings = {} /\ work = 0

------------------------------------------------------------------------------
(* Calling, returning, and the labels' lookup.                             *)

Goto(t, l) == pc' = [pc EXCEPT ![t] = l]

\* The guard of the mutex is dropped with the call, however it ends.
LetGoOnSuccess(t, a) == IF owner = t /\ a.status = "scored" THEN None ELSE owner
LetGo(t, a) == IF owner = t THEN None ELSE owner

\* The call returns: its locals go, the mutex with them.  In `polygraph` any
\* error but the refusal of a split reading ends the run.
Return(t, a) ==
    /\ Goto(t, "idle")
    /\ req' = [req EXCEPT ![t] = NoRequest]
    /\ answer' = [answer EXCEPT ![t] = a]
    /\ alive' = (alive /\ (command = "serve" \/ a.status = "scored"
                           \/ (a.status = "rejected" /\ req[t].kind = "split")))
    /\ owner' = LetGo(t, a)
    /\ IF owner = t
       THEN /\ plan' = {} /\ rows' = {} /\ round' = <<>> /\ next' = 1
            /\ depth' = 0 /\ start' = 0 /\ nodes' = {} /\ readings' = {}
            /\ work' = 0
       ELSE UNCHANGED frame

\* A caller enters score_many, or in `polygraph` read_control or read_split.
Ask(t, r) ==
    /\ alive /\ pc[t] = "idle"
    /\ r.kind # "score" => command = "polygraph"
    /\ Goto(t, IF r.kind = "score" THEN "labels" ELSE r.kind)
    /\ req' = [req EXCEPT ![t] = r]
    /\ answer' = [answer EXCEPT ![t] = NoAnswer]
    /\ UNCHANGED <<inner, owner, alive, frame>>

\* A split reading takes one-token labels alone (label_id).
RefusesLabel(r, c) == IF r.kind = "split" THEN Len(c) # 1 ELSE c = <<>>

\* Labels are looked up in order, prompt by prompt; Reached: no earlier one
\* was refused.
Places(r) == UNION {{<<n, m>> : m \in DOMAIN r.cands[n]} : n \in DOMAIN r.cands}
LabelAt(r, x) == r.cands[x[1]][x[2]]
Earlier(r, y) == {x \in Places(r) : x[1] < y[1] \/ (x[1] = y[1] /\ x[2] < y[2])}
Reached(r) ==
    {y \in Places(r) : \A x \in Earlier(r, y) : ~RefusesLabel(r, LabelAt(r, x))}

\* The labels a lookup remembers: those it reached, but for one of no token.
LookedUp(r) == {LabelAt(r, y) : y \in Reached(r)} \ {<<>>}

\* score_many takes the mutex for the labels alone, and lets it go.
TakeLabels(t) ==
    /\ pc[t] = "labels" /\ owner = None
    /\ labels' = labels \cup LookedUp(req[t])
    /\ IF Tokenless(req[t])
       THEN Return(t, Rejected)
       ELSE Goto(t, "prepare") /\ UNCHANGED <<owner, alive, req, answer, frame>>
    /\ UNCHANGED <<cells, cached>>

\* prepare and check_limits, before the mutex is taken again.
Prepare(t) ==
    /\ pc[t] = "prepare"
    /\ IF HasEmptyPrompt(req[t]) \/ ~WithinLimits(req[t])
       THEN Return(t, Rejected)
       ELSE Goto(t, "lock") /\ UNCHANGED <<owner, alive, req, answer, frame>>
    /\ UNCHANGED inner

\* llama_tokenize fails on a prompt, or on a label after some others.
TokenizerFails(t) ==
    /\ \/ pc[t] = "prepare" /\ UNCHANGED labels
       \/ /\ pc[t] \in {"labels", "control", "split"} /\ owner = None
          /\ \E y \in Reached(req[t]) :
                labels' = labels \cup {LabelAt(req[t], x) : x \in Earlier(req[t], y)}
    /\ Return(t, Failed)
    /\ UNCHANGED <<cells, cached>>

------------------------------------------------------------------------------
(* Decoding.                                                               *)

\* A plan is the set of its entries; the code lists them sequence by sequence,
\* in the order of their positions.  Chunk: tokens at consecutive positions
\* after `at`, an output at the last one.
Chunk(tokens, at, seq, slot) ==
    {[tok |-> tokens[i], pos |-> at + i, seq |-> seq,
      slot |-> IF i = Len(tokens) THEN slot ELSE NoSlot] : i \in DOMAIN tokens}

Before(f, e) == f.seq < e.seq \/ (f.seq = e.seq /\ f.pos < e.pos)
First(k, entries) ==
    {e \in entries : Cardinality({f \in entries : Before(f, e)}) < k}

Window == First(NBatch, plan)

\* llama_decode finds a free cell for every token, or takes none.
Fits(batch) == Cardinality(Decoded(cells, batch)) <= NCtx

DecodeWindow(t) ==
    /\ owner = t /\ plan # {} /\ Fits(Window)
    /\ cells' = Decoded(cells, Window)
    /\ rows' = rows \cup {[slot |-> e.slot, ctx |-> HoldsUpTo(cells', e.seq, e.pos)]
                          : e \in {f \in Window : f.slot # NoSlot}}
    /\ plan' = plan \ Window
    /\ work' = work + Cardinality(Window)
    /\ UNCHANGED <<cached, labels, owner, alive, pc, req, answer,
                   round, next, depth, start, nodes, readings>>

\* A window fails: for want of cells, before any token; otherwise after some.
Torn == {Decoded(cells, First(k, Window)) :
            k \in IF Fits(Window) THEN 0 .. Cardinality(Window) - 1 ELSE {0}}

At(t, l) == owner = t /\ pc[t] = l
Fails(t, l) == At(t, l) /\ plan # {}

PrefillFails(t) ==
    /\ Fails(t, "prefill")
    /\ cells' = {} /\ cached' = <<>>
    /\ Return(t, Failed)
    /\ UNCHANGED labels

\* The sequences the running round is forked on.
RoundSeqs == 1 .. Len(round)
ProbeSeqs == 2 .. Len(round) + 1

\* In a round, at a root and in a round of probes: the forks go, the session
\* stays.
ForksFail(t) ==
    \E l \in {"round", "root", "probe"} :
        /\ Fails(t, l)
        /\ \E left \in Torn :
              cells' = SeqRm(left, CASE l = "round" -> RoundSeqs
                                     [] l = "root" -> {1}
                                     [] l = "probe" -> {1} \cup ProbeSeqs, 1)
        /\ Return(t, Failed)
        /\ UNCHANGED <<cached, labels>>

\* read_control and read_split leave what they decoded.
ReadingFails(t) ==
    /\ \E l \in {"whole", "head", "tail"} : Fails(t, l)
    /\ cells' \in Torn
    /\ Return(t, Failed)
    /\ UNCHANGED <<cached, labels>>

------------------------------------------------------------------------------
(* fork_and_read: the session.                                             *)

\* What of the kept session the call may go on from.
ReuseByLength(session) == SubSeq(session, 1, Min({Len(cached), Len(session)}))
Reuse(session) == LongestCommonPrefix({cached, session})

\* A recurrent state cannot be cut in the middle, and is cleared instead.
Clears(session) ==
    Recurrent /\ Reuse(session) # <<>> /\ Reuse(session) # cached
StaysAfterClear(session) == Reuse(session)
Stays(session) == IF Clears(session) THEN <<>> ELSE Reuse(session)

\* The mutex is taken and the kept session cut to what the two share.
BeginScore(t) ==
    /\ pc[t] = "lock" /\ owner = None
    /\ owner' = t
    /\ LET session == Session(req[t])
       IN  /\ cells' = IF Reuse(session) = cached THEN cells
                       ELSE IF Clears(session) THEN {}
                       ELSE SeqRm(cells, {0}, Len(Reuse(session)) + 1)
           /\ cached' = Stays(session)
           /\ start' = Len(cached')
           /\ plan' = Chunk(SubSeq(session, start' + 1, Len(session)), start', 0, NoSlot)
    /\ Goto(t, "prefill")
    /\ UNCHANGED <<labels, alive, req, answer, rows, round, next, depth, nodes,
                   readings, work>>

EndPrefill(t) ==
    /\ At(t, "prefill") /\ plan = {}
    /\ cached' = Session(req[t])
    /\ Goto(t, "rounds")
    /\ UNCHANGED <<cells, labels, owner, alive, req, answer, frame>>

------------------------------------------------------------------------------
(* fork_and_read: one-token labels, in rounds of forks.                    *)

\* As many fingerprints as there are sequences and cells for.
RoundSize(r, from) ==
    LET tokens(k) == [i \in from .. from + k - 1 |-> SuffixLen(r, Single(r)[i])]
        Room(k) == Shared(r) + SumFunction(tokens(k)) <= NCtx
    IN  Max({k \in 0 .. Min({Forks, Len(Single(r)) - from + 1}) : Room(k)})

StartRound(t) ==
    /\ At(t, "rounds") /\ next <= Len(Single(req[t]))
    /\ LET r == req[t]
       IN  IF RoundSize(r, next) = 0
           THEN Return(t, Rejected) /\ UNCHANGED cells
           ELSE /\ round' = SubSeq(Single(r), next, next + RoundSize(r, next) - 1)
                /\ cells' = SeqCp(cells, 0, 1 .. Len(round'))
                /\ plan' = UNION {Chunk(Suffix(r, round'[k]), Shared(r), k, round'[k])
                                  : k \in DOMAIN round'}
                /\ Goto(t, "round")
                /\ UNCHANGED <<owner, alive, req, answer, rows, next, depth, start,
                               nodes, readings, work>>
    /\ UNCHANGED <<cached, labels>>

EndRound(t) ==
    /\ At(t, "round") /\ plan = {}
    /\ cells' = SeqRm(cells, RoundSeqs, 1)
    /\ readings' = readings \cup
          {[n |-> x.slot, evaluated |-> SuffixLen(req[t], x.slot),
            marks |-> Marks(req[t].cands[x.slot], {[node |-> <<>>, ctx |-> x.ctx]})]
           : x \in rows}
    /\ rows' = {} /\ round' = <<>> /\ next' = next + Len(round)
    /\ Goto(t, "rounds")
    /\ UNCHANGED <<cached, labels, owner, alive, req, answer, plan, depth, start,
                   nodes, work>>

------------------------------------------------------------------------------
(* read_trie: labels of several tokens, one fingerprint at a time.         *)

Unread(r) == DOMAIN r.prompts \ {x.n : x \in readings}
Current(r) == Min(Unread(r))

\* The root: the suffix forked from the session onto sequence 1.
StartRoot(t) ==
    /\ At(t, "rounds") /\ next > Len(Single(req[t])) /\ Unread(req[t]) # {}
    /\ cells' = SeqCp(cells, 0, {1})
    /\ plan' = Chunk(Suffix(req[t], Current(req[t])), Shared(req[t]), 1, 1)
    /\ Goto(t, "root")
    /\ UNCHANGED <<cached, labels, owner, alive, req, answer, rows, round, next,
                   depth, start, nodes, readings, work>>

\* A trie needs its root and one fork.
NeedsTwoForks(r) == Forks <= 2 /\ Probes(r, Current(r)) # {}
NeedsMoreForks(r) == Forks < 2 /\ Probes(r, Current(r)) # {}

EndRoot(t) ==
    /\ At(t, "root") /\ plan = {}
    /\ IF NeedsMoreForks(req[t])
       THEN cells' = SeqRm(cells, {1}, 1) /\ Return(t, Rejected)
       ELSE /\ nodes' = {[node |-> <<>>, ctx |-> x.ctx] : x \in rows}
            /\ rows' = {}
            /\ Goto(t, "probes")
            /\ UNCHANGED <<cells, owner, alive, req, answer, plan, round, next,
                           depth, start, readings, work>>
    /\ UNCHANGED <<cached, labels>>

ProbesLeft(r) == Probes(r, Current(r)) \ {x.node : x \in nodes}

\* As many as there are sequences beside the session's and the root's.
AllForks(r) == Min({Forks, Cardinality(ProbesLeft(r))})
FreeForks(r) == Min({Forks - 1, Cardinality(ProbesLeft(r))})

\* The code takes the probes in the order of its map, the model in any order.
StartProbes(t) ==
    /\ At(t, "probes") /\ ProbesLeft(req[t]) # {}
    /\ LET r == req[t]
       IN  /\ \E some \in kSubset(FreeForks(r), ProbesLeft(r)) :
                 round' = SetToSeq(some)
           /\ cells' = SeqCp(cells, 1, 2 .. Len(round') + 1)
           /\ plan' = UNION {Chunk(round'[k], Len(r.prompts[Current(r)]), k + 1, k)
                             : k \in DOMAIN round'}
    /\ Goto(t, "probe")
    /\ UNCHANGED <<cached, labels, owner, alive, req, answer, rows, next, depth,
                   start, nodes, readings, work>>

EndProbes(t) ==
    /\ At(t, "probe") /\ plan = {}
    /\ cells' = SeqRm(cells, ProbeSeqs, 1)
    /\ nodes' = nodes \cup {[node |-> round[x.slot], ctx |-> x.ctx] : x \in rows}
    /\ rows' = {} /\ round' = <<>>
    /\ Goto(t, "probes")
    /\ UNCHANGED <<cached, labels, owner, alive, req, answer, plan, next, depth,
                   start, readings, work>>

EndTrie(t) ==
    /\ At(t, "probes") /\ ProbesLeft(req[t]) = {}
    /\ LET r == req[t]
           n == Current(r)
       IN  readings' = readings \cup
             {[n |-> n, marks |-> Marks(r.cands[n], nodes),
               evaluated |-> SuffixLen(r, n) + ProbeTokens(r, n)]}
    /\ cells' = SeqRm(cells, {1}, 1)
    /\ nodes' = {}
    /\ Goto(t, "rounds")
    /\ UNCHANGED <<cached, labels, owner, alive, req, answer, plan, rows, round,
                   next, depth, start, work>>

\* The session is charged to the first fingerprint.
ChargedToAll(r, n) == Shared(r) - start
Charged(r, n) == IF n = 1 THEN Shared(r) - start ELSE 0

Scores(r) ==
    [n \in DOMAIN r.prompts |->
        LET x == CHOOSE y \in readings : y.n = n
        IN  [marks |-> x.marks,
             prompt_evaluated |-> x.evaluated + Charged(r, n),
             prompt_cached |-> IF n = 1 THEN start ELSE Shared(r)]]

Done(t) == At(t, "rounds") /\ next > Len(Single(req[t])) /\ Unread(req[t]) = {}

EndScore(t) ==
    /\ Done(t)
    /\ Return(t, Scored(Scores(req[t])))
    /\ UNCHANGED inner

------------------------------------------------------------------------------
(* read_control and read_split, on sequence 0 from an empty cache.         *)

Whole(r) == Chunk(r.prompts[1], 0, 0, 1)
Reading(r, read) ==
    Scored(<<[marks |-> Marks(r.cands[1], read), prompt_evaluated |-> work,
              prompt_cached |-> 0]>>)

BeginControl(t) ==
    /\ pc[t] = "control" /\ owner = None
    /\ labels' = labels \cup LookedUp(req[t])
    /\ IF Tokenless(req[t])
       THEN Return(t, Rejected) /\ UNCHANGED <<cells, cached>>
       ELSE /\ owner' = t /\ cached' = <<>> /\ cells' = {}
            /\ plan' = Whole(req[t])
            /\ Goto(t, "whole")
            /\ UNCHANGED <<alive, req, answer, rows, round, next, depth, start,
                           nodes, readings, work>>

\* One-token labels are read together at the prompt's end.  Otherwise every
\* label is decoded token by token after the prompt, from an empty cache.
EndWhole(t) ==
    /\ At(t, "whole") /\ plan = {}
    /\ LET r == req[t]
           label == r.cands[1][next]
           read == nodes \cup {[node |-> SubSeq(label, 1, depth), ctx |-> x.ctx] : x \in rows}
           together == OneToken(r, 1)
       IN  IF together \/ (next = Len(r.cands[1]) /\ depth + 1 = Len(label))
           THEN cells' = {} /\ Return(t, Reading(r, read))
           ELSE /\ nodes' = read /\ rows' = {}
                /\ IF depth + 1 < Len(label)
                   THEN /\ plan' = Chunk(<<label[depth + 1]>>, Len(r.prompts[1]) + depth, 0, 1)
                        /\ depth' = depth + 1
                        /\ UNCHANGED <<cells, next>>
                   ELSE /\ plan' = Whole(r) /\ cells' = {}
                        /\ next' = next + 1 /\ depth' = 0
                /\ UNCHANGED <<owner, alive, pc, req, answer, round, start,
                               readings, work>>
    /\ UNCHANGED <<cached, labels>>

\* The first `at` tokens in one decode, the rest in another.
BeginSplit(t) ==
    /\ pc[t] = "split" /\ owner = None
    /\ labels' = labels \cup LookedUp(req[t])
    /\ LET r == req[t]
           at == Min({r.at, Len(r.prompts[1]) - 1})
       IN  IF ~OneToken(r, 1)
           THEN Return(t, Rejected) /\ UNCHANGED <<cells, cached>>
           ELSE /\ owner' = t /\ cached' = <<>> /\ cells' = {}
                /\ plan' = Chunk(SubSeq(r.prompts[1], 1, at), 0, 0, NoSlot)
                /\ start' = at
                /\ Goto(t, "head")
                /\ UNCHANGED <<alive, req, answer, rows, round, next, depth,
                               nodes, readings, work>>

EndHead(t) ==
    /\ At(t, "head") /\ plan = {}
    /\ LET p == req[t].prompts[1]
       IN  plan' = Chunk(SubSeq(p, start + 1, Len(p)), start, 0, 1)
    /\ Goto(t, "tail")
    /\ UNCHANGED <<inner, owner, alive, req, answer, rows, round, next, depth,
                   start, nodes, readings, work>>

EndTail(t) ==
    /\ At(t, "tail") /\ plan = {}
    /\ cells' = {}
    /\ Return(t, Reading(req[t], {[node |-> <<>>, ctx |-> x.ctx] : x \in rows}))
    /\ UNCHANGED <<cached, labels>>

------------------------------------------------------------------------------
Step(t) ==
    \/ TakeLabels(t) \/ Prepare(t) \/ TokenizerFails(t)
    \/ DecodeWindow(t) \/ PrefillFails(t) \/ ForksFail(t) \/ ReadingFails(t)
    \/ BeginScore(t) \/ EndPrefill(t) \/ StartRound(t) \/ EndRound(t)
    \/ StartRoot(t) \/ EndRoot(t) \/ StartProbes(t) \/ EndProbes(t) \/ EndTrie(t)
    \/ EndScore(t)
    \/ BeginControl(t) \/ EndWhole(t) \/ BeginSplit(t) \/ EndHead(t) \/ EndTail(t)

Next ==
    /\ \E t \in Threads : Step(t) \/ \E r \in Requests : Ask(t, r)
    /\ UNCHANGED command

\* A thread in a call runs on.  Nothing is assumed of who gets the mutex:
\* std's is not fair, so a thread may lose it to the others forever.
Fairness ==
    /\ WF_vars(\E t \in Threads : owner = t /\ Step(t) /\ UNCHANGED command)
    /\ WF_vars(\E t \in Threads : owner = None /\ Step(t) /\ UNCHANGED command)

SafeSpec == Init /\ [][Next]_vars
Spec == SafeSpec /\ Fairness

------------------------------------------------------------------------------
(* Properties.                                                             *)

Labels == {"idle", "labels", "prepare", "lock", "prefill", "rounds", "round",
           "root", "probes", "probe", "control", "whole", "split", "head", "tail"}
Inside == {"prefill", "rounds", "round", "root", "probes", "probe", "whole",
           "head", "tail"}
Cells == [pos : Nat \ {0}, tok : Token, seqs : (SUBSET (0 .. Forks)) \ {{}}]
Entries == [tok : Token, pos : Nat \ {0}, seq : 0 .. Forks, slot : Nat]

\* The types, and the mutex: a thread is past its lock exactly while it holds
\* it.  No cell is on a sequence past n_seq_max = forks + 1 (open, mod.rs).
TypeOK ==
    /\ command \in Commands
    /\ cells \subseteq Cells
    /\ cached \in Seq(Token)
    /\ owner \in Threads \cup {None} /\ alive \in BOOLEAN
    /\ pc \in [Threads -> Labels]
    /\ req \in [Threads -> Requests \cup {NoRequest}]
    /\ \A t \in Threads : /\ pc[t] = "idle" <=> req[t] = NoRequest
                          /\ pc[t] \in Inside <=> owner = t
    /\ plan \subseteq Entries
    /\ next \in Nat \ {0} /\ depth \in Nat /\ start \in Nat /\ work \in Nat

\* Between calls sequence 0 holds exactly the tokens `cached` says it holds,
\* and no fork holds anything: whatever succeeded, failed or was refused
\* before, the next call cuts and extends the session it thinks is there.
SessionKept ==
    alive /\ owner = None =>
        /\ Holds(cells, 0) = Placed(cached)
        /\ \A s \in 1 .. Forks : Holds(cells, s) = {}

\* A call check_limits let through finds cells for every window it decodes
\* and for every round it starts: what does not fit was refused before.
RoomForAll ==
    /\ plan # {} => Fits(Window)
    /\ \A t \in Threads :
          At(t, "rounds") /\ next <= Len(Single(req[t])) => RoundSize(req[t], next) > 0

\* The cost of an answer is the work done for it: every token decoded is
\* charged to one fingerprint, and a one-token fingerprint's prompt is its
\* evaluated and its cached tokens.
CostHonest ==
    \A t \in Threads : Done(t) =>
        LET r == req[t]
            s == Scores(r)
        IN  /\ SumFunction([n \in DOMAIN s |-> s[n].prompt_evaluated]) = work
            /\ \A n \in DOMAIN s : OneToken(r, n) =>
                  s[n].prompt_evaluated + s[n].prompt_cached = Len(r.prompts[n])

\* A refusal costs nothing: it decoded no token and touched no session
\* (check_limits: "is the caller's request (422) ... and costs nothing").
RefusalCostsNothing ==
    [][\A t \in Threads : answer'[t] = Rejected /\ answer[t] # Rejected =>
           (owner = t => work = 0) /\ UNCHANGED <<cells, cached>>]_vars

\* The mutex is always let go, whatever fails while it is held.
LockReleased == owner # None ~> owner = None

\* Every answer is the reading of its own prompts: no token of an earlier
\* session, of another fork or of another thread's call is ever in the
\* context a log-probability was read in; no refusal without a fault.
Abstract == INSTANCE Scoring WITH
    asked <- req,
    answer <- [t \in Threads |->
                  IF answer[t].status = "scored"
                  THEN [status |-> "scored",
                        marks |-> [n \in DOMAIN answer[t].scores |->
                                      answer[t].scores[n].marks]]
                  ELSE answer[t]]

Implements == Abstract!Spec
==============================================================================
