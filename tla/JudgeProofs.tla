---------------------------- MODULE JudgeProofs ----------------------------
(***************************************************************************)
(* For any requests, configurations and readings of the subject, under     *)
(* both callers: an answered request has of every option what its own      *)
(* prompts said of it, is read and charged whole, and the pull of the      *)
(* positions is balanced out (Judging); MCP answers every request once, in *)
(* order (Mcp); an evaluation counts every case of its file once, and the  *)
(* coverage it reports is a threshold's (Evaluation).                      *)
(*                                                                         *)
(* The argument: the prompts are those of the first question, then of the  *)
(* second, and so on (PromptsAre), and the plan's turn follows them: the   *)
(* readings taken are all those of the questions before the plan's and     *)
(* those of its rotations so far (OnTurn).                                 *)
(***************************************************************************)
EXTENDS Callers, DataLemmas

LEMMA TotalIsSum == \A f : Total(f) = SumFunctionOnSet(f, DOMAIN f)
BY DEF Total, FoldFunction, SumFunctionOnSet

------------------------------------------------------------------------------
(* The prompts, question by question.                                      *)

PromptsOf(k, q) == [r \in 1 .. Perms(q) |-> [question |-> k, keys |-> Keys(q, r - 1)]]
Parts(qs) == [k \in DOMAIN qs |-> PromptsOf(k, qs[k])]

\* The prompts of the questions before k.
Before(k) == LenBefore(Parts(request), k)

LEMMA PermsType ==
  ASSUME cfg \in Configs
  PROVE  /\ \A q \in Question : Perms(q) \in Nat
         /\ \A q \in Question : ~Malformed(q) => Perms(q) > 0
<1>1. cfg.permutations \in Nat
  BY JudgingAssumption
<1>2. ASSUME NEW q \in Question
      PROVE  /\ Perms(q) \in Nat
             /\ ~Malformed(q) => Perms(q) > 0
  <2>1. q.n \in Nat /\ (~Malformed(q) /\ q.kind = "choice" => q.n # 0)
    BY DEF Question, Malformed
  <2>2. CASE q.kind # "choice" \/ cfg.permutations = 0
    BY <2>2 DEF Perms
  <2>3. CASE ~(q.kind # "choice" \/ cfg.permutations = 0)
    <3>1. Perms(q) = IF cfg.permutations > q.n THEN q.n ELSE cfg.permutations
      BY <2>3 DEF Perms
    <3>. QED
      BY <1>1, <2>1, <2>3, <3>1
  <2>. QED
    BY <2>2, <2>3
<1>. QED
  BY <1>2

LEMMA PromptsAre ==
  ASSUME cfg \in Configs, request \in Seq(Question)
  PROVE  /\ Len(Prompts(request)) \in Nat
         /\ Before(1) = 0 /\ Len(Prompts(request)) = Before(Len(request) + 1)
         /\ \A k \in DOMAIN request :
               /\ Before(k) \in Nat /\ Before(k + 1) = Before(k) + Perms(request[k])
               /\ \A r \in 1 .. Perms(request[k]) :
                     /\ Before(k) + r \in 1 .. Len(Prompts(request))
                     /\ Prompts(request)[Before(k) + r] =
                           [question |-> k, keys |-> Keys(request[k], r - 1)]
         /\ \A j \in 1 .. Len(Prompts(request)) :
               \E k \in DOMAIN request : \E r \in 1 .. Perms(request[k]) : j = Before(k) + r
<1> DEFINE S == {[question |-> k, keys |-> Keys(request[k], r)] : k \in DOMAIN request, r \in Nat}
           ss == Parts(request)
           n == Len(request)
<1>1. n \in Nat /\ DOMAIN request = 1 .. n /\ \A k \in DOMAIN request : request[k] \in Question
  OBVIOUS
<1>2. \A k \in DOMAIN request : Perms(request[k]) \in Nat
  BY <1>1, PermsType
<1>3. /\ DOMAIN ss = 1 .. n
      /\ \A k \in 1 .. n : ss[k] = PromptsOf(k, request[k])
  BY <1>1 DEF Parts
<1>4. ASSUME NEW k \in 1 .. n
      PROVE  /\ ss[k] \in Seq(S) /\ Len(ss[k]) = Perms(request[k])
             /\ \A r \in 1 .. Perms(request[k]) :
                   ss[k][r] = [question |-> k, keys |-> Keys(request[k], r - 1)]
  <2>1. ASSUME NEW r \in 1 .. Perms(request[k])
        PROVE  [question |-> k, keys |-> Keys(request[k], r - 1)] \in S
    <3>1. r - 1 \in Nat
      BY <1>1, <1>2
    <3>. QED
      BY <1>1, <3>1
  <2>. HIDE DEF S
  <2>2. Perms(request[k]) \in Nat /\ ss[k] = PromptsOf(k, request[k])
    BY <1>1, <1>2, <1>3
  <2>. HIDE DEF ss
  <2>. QED
    BY <2>1, <2>2 DEF PromptsOf
<1>5. ss \in Seq(Seq(S))
  <2>1. ss = [k \in 1 .. n |-> ss[k]]
    BY <1>3, <1>1 DEF Parts
  <2>. HIDE DEF ss, S
  <2>. QED
    BY <1>1, <1>4, <2>1
<1>6. Prompts(request) = FlattenSeq(ss)
  BY DEF Prompts, Parts, PromptsOf
<1>. HIDE DEF S, ss, n
<1>7. PICK T, tt : T = S /\ tt = ss
  OBVIOUS
<1>8. tt \in Seq(Seq(T)) /\ Len(tt) = n
  BY <1>1, <1>3, <1>5, <1>7
<1>9. /\ Len(FlattenSeq(tt)) = LenBefore(tt, n + 1) /\ FlattenSeq(tt) \in Seq(T)
      /\ \A k \in DOMAIN tt : \A r \in 1 .. Len(tt[k]) :
            /\ LenBefore(tt, k) + r \in 1 .. Len(FlattenSeq(tt))
            /\ FlattenSeq(tt)[LenBefore(tt, k) + r] = tt[k][r]
      /\ \A j \in 1 .. Len(FlattenSeq(tt)) :
            \E k \in DOMAIN tt : \E r \in 1 .. Len(tt[k]) : j = LenBefore(tt, k) + r
  BY <1>8, FlattenAt
<1>10. /\ LenBefore(tt, 1) = 0
       /\ \A k \in DOMAIN tt : /\ LenBefore(tt, k) \in Nat
                               /\ LenBefore(tt, k + 1) = LenBefore(tt, k) + Len(tt[k])
  BY <1>8, LenBeforeNext
<1>11. \A k : Before(k) = LenBefore(tt, k)
  BY <1>7 DEF Before, ss
<1>12. /\ DOMAIN tt = DOMAIN request
       /\ \A k \in DOMAIN request :
             /\ Len(tt[k]) = Perms(request[k])
             /\ \A r \in 1 .. Perms(request[k]) :
                   tt[k][r] = [question |-> k, keys |-> Keys(request[k], r - 1)]
  BY <1>1, <1>3, <1>4, <1>7
<1>13. Prompts(request) = FlattenSeq(tt) /\ Len(FlattenSeq(tt)) \in Nat
  BY <1>6, <1>7, <1>9
<1>14. /\ Len(Prompts(request)) \in Nat
       /\ Before(1) = 0 /\ Len(Prompts(request)) = Before(Len(request) + 1)
  BY <1>9, <1>10, <1>11, <1>13 DEF n
<1>15. ASSUME NEW k \in DOMAIN request
       PROVE  /\ Before(k) \in Nat /\ Before(k + 1) = Before(k) + Perms(request[k])
              /\ \A r \in 1 .. Perms(request[k]) :
                    /\ Before(k) + r \in 1 .. Len(Prompts(request))
                    /\ Prompts(request)[Before(k) + r] =
                          [question |-> k, keys |-> Keys(request[k], r - 1)]
  <2>1. k \in DOMAIN tt /\ Len(tt[k]) = Perms(request[k])
    BY <1>12
  <2>2. Before(k) \in Nat /\ Before(k + 1) = Before(k) + Perms(request[k])
    BY <1>10, <1>11, <2>1
  <2>3. ASSUME NEW r \in 1 .. Perms(request[k])
        PROVE  /\ Before(k) + r \in 1 .. Len(Prompts(request))
               /\ Prompts(request)[Before(k) + r] = tt[k][r]
    BY <1>9, <1>11, <1>13, <2>1
  <2>. QED
    BY <1>12, <2>2, <2>3
<1>16. ASSUME NEW j \in 1 .. Len(Prompts(request))
       PROVE  \E k \in DOMAIN request : \E r \in 1 .. Perms(request[k]) : j = Before(k) + r
  BY <1>9, <1>11, <1>12, <1>13
<1>. QED
  BY <1>14, <1>15, <1>16

\* The same request under the same configuration has the same prompts.
LEMMA SamePrompts ==
  ASSUME cfg' = cfg, request' = request
  PROVE  /\ Prompts(request)' = Prompts(request)
         /\ \A k : Before(k)' = Before(k)
         /\ \A q : Perms(q)' = Perms(q)
         /\ Refused(request)' <=> Refused(request)
<1>1. \A q : Perms(q)' = Perms(q)
  BY DEF Perms
<1>2. Prompts(request)' = Prompts(request)
  BY <1>1 DEF Prompts
<1>3. \A k : Before(k)' = Before(k)
  BY <1>1 DEF Before, Parts, PromptsOf
<1>4. Refused(request)' <=> Refused(request)
  BY DEF Refused, NeedsTrie
<1>. QED
  BY <1>1, <1>2, <1>3, <1>4

------------------------------------------------------------------------------
(* A reading's distribution.                                               *)

\* A reading of a prompt of some number of labels.
Reading == [weights : UNION {[1 .. m -> Weights] : m \in Nat}, evaluated : Costs]

LEMMA SoftmaxType ==
  ASSUME NEW m \in Nat, NEW w \in [1 .. m -> Weights]
  PROVE  Softmax(w) \in [1 .. m -> Nat]
<1>1. IsFiniteSet(1 .. m) /\ NatOn(w, 1 .. m)
  <2>1. IsFiniteSet(1 .. m)
    BY FS_Interval
  <2>2. \A i \in 1 .. m : w[i] \in Nat
    BY JudgingAssumption
  <2>. QED
    BY <2>1, <2>2 DEF NatOn
<1>2. DOMAIN w = 1 .. m /\ Total(w) = SumFunctionOnSet(w, 1 .. m)
  BY TotalIsSum
<1>3. Total(w) \in Nat
  BY <1>1, <1>2, SumType
<1>4. Len(w) = m
  <2>1. w \in Seq(Weights)
    OBVIOUS
  <2>. QED
    BY <1>2, <2>1
<1>5. \A a \in Nat, b \in Nat \ {0} : a \div b \in Nat
  OBVIOUS
<1>6. Unit \in Nat
  BY JudgingAssumption
<1>7. ASSUME NEW i \in 1 .. m
      PROVE  (IF Total(w) = 0 THEN Unit \div Len(w) ELSE (Unit * w[i]) \div Total(w)) \in Nat
  <2>1. w[i] \in Nat /\ m # 0 /\ Unit * w[i] \in Nat
    BY <1>1, <1>6 DEF NatOn
  <2>. QED
    BY <1>3, <1>4, <1>5, <1>6, <2>1
<1>8. Softmax(w) = [i \in 1 .. m |->
         IF Total(w) = 0 THEN Unit \div Len(w) ELSE (Unit * w[i]) \div Total(w)]
  BY <1>2 DEF Softmax
<1>. QED
  BY <1>7, <1>8

\* A rotation, without its remainders: for the options o and the positions i.
LEMMA Rotated ==
  ASSUME NEW n \in Nat, NEW r \in 0 .. n - 1, NEW i \in 1 .. n
  PROVE  /\ Order(n, r)[i] = IF i + r <= n THEN i + r ELSE i + r - n
         /\ Order(n, r)[i] \in 1 .. n
<1>1. \A x \in 0 .. n - 1, y \in 0 .. n - 1 :
         (x + y) % n = IF x + y < n THEN x + y ELSE x + y - n
  OBVIOUS
<1>2. i - 1 \in 0 .. n - 1 /\ Order(n, r)[i] = 1 + (((i - 1) + r) % n)
  BY DEF Order
<1>3. ((i - 1) + r) % n = IF (i - 1) + r < n THEN (i - 1) + r ELSE (i - 1) + r - n
  BY <1>1, <1>2
<1>. QED
  BY <1>2, <1>3

------------------------------------------------------------------------------
(* The invariant.                                                          *)

\* What reading j says of option o of question k.
Part(j, k, o) ==
    LET p == Prompts(request)[j] IN
    IF p.question = k
    THEN Total([i \in DOMAIN p.keys |->
             IF p.keys[i] = o THEN Softmax(readings[j].weights)[i] ELSE 0])
    ELSE 0
SaidBy(t, k, o) == SumFunctionOnSet([j \in DOMAIN readings |-> Part(j, k, o)], 1 .. t)

Charge == [j \in DOMAIN readings |-> readings[j].evaluated]
Charges == [k \in DOMAIN raws |-> raws[k].evaluated]

ReadingsFit ==
    /\ readings \in Seq(Reading)
    /\ Len(readings) <= Len(Prompts(request))
    /\ \A j \in DOMAIN readings :
          DOMAIN readings[j].weights = DOMAIN Prompts(request)[j].keys

\* The averages of the questions, each for its options.
RawsFit ==
    /\ DOMAIN raws = DOMAIN request
    /\ \A k \in DOMAIN request :
          /\ raws[k].rotations \in 0 .. Perms(request[k])
          /\ raws[k].mean \in [1 .. request[k].n -> Nat]
          /\ raws[k].evaluated \in Nat

\* The readings taken are those of the questions before the plan's and of its
\* rotations so far; the questions after it have none.
OnTurn ==
    /\ \A k \in DOMAIN request :
          Plan(k) => /\ taken = Before(k) + raws[k].rotations
                     /\ \A l \in DOMAIN request : l > k => raws[l].rotations = 0
    /\ (\A k \in DOMAIN request : ~Unread(k)) => taken = Len(Prompts(request))

\* They are averaged, and charged, so far.
SoFar ==
    /\ \A k \in DOMAIN request : \A o \in 1 .. request[k].n :
          raws[k].mean[o] = SaidBy(taken, k, o)
    /\ SumFunctionOnSet(Charges, DOMAIN request) = SumFunctionOnSet(Charge, 1 .. taken)

Averaging == stage = "average" \/ Done("answered")

JudgeInv ==
    /\ JudgeTypeOK
    /\ request \in Seq(Question)
    /\ ReadingsFit
    /\ stage = "idle" => request = <<>> /\ readings = <<>> /\ taken = 0
    /\ stage = "parse" => readings = <<>> /\ taken = 0
    /\ stage \in {"score", "average"} \/ Done("answered") => ~Refused(request)
    /\ stage = "score" =>
          /\ taken = 0 /\ RawsFit
          /\ \A k \in DOMAIN request :
                /\ raws[k].rotations = 0 /\ raws[k].evaluated = 0
                /\ \A o \in 1 .. request[k].n : raws[k].mean[o] = 0
    /\ Averaging => RawsFit /\ OnTurn /\ SoFar
    /\ Done("answered") => \A k \in DOMAIN request : ~Unread(k)

\* What a caller does with the judge.
JudgeStep ==
    \/ \E qs \in Seq(Question) : Judge(qs)
    \/ JudgeNext
    \/ Forget /\ UNCHANGED cfg
    \/ UNCHANGED <<cfg, judge>>

LEMMA PromptKeys ==
  ASSUME cfg \in Configs, request \in Seq(Question)
  PROVE  \A j \in 1 .. Len(Prompts(request)) :
            \E k \in DOMAIN request :
               /\ Prompts(request)[j].question = k
               /\ request[k].n \in Nat /\ DOMAIN Prompts(request)[j].keys = 1 .. request[k].n
<1>1. ASSUME NEW k \in DOMAIN request, NEW r
      PROVE  request[k].n \in Nat /\ DOMAIN Keys(request[k], r) = 1 .. request[k].n
  <2>0. request[k] \in Question
    OBVIOUS
  <2>1. request[k].n \in Nat
    BY <2>0 DEF Question
  <2>2. DOMAIN Order(request[k].n, r) = 1 .. request[k].n
    BY DEF Order
  <2>. QED
    BY <2>1, <2>2 DEF Keys
<1>2. ASSUME NEW j \in 1 .. Len(Prompts(request))
      PROVE  \E k \in DOMAIN request :
                /\ Prompts(request)[j].question = k
                /\ request[k].n \in Nat /\ DOMAIN Prompts(request)[j].keys = 1 .. request[k].n
  <2>1. PICK k \in DOMAIN request : \E r \in 1 .. Perms(request[k]) : j = Before(k) + r
    BY PromptsAre
  <2>2. PICK r \in 1 .. Perms(request[k]) : j = Before(k) + r
    BY <2>1
  <2>3. Prompts(request)[j] = [question |-> k, keys |-> Keys(request[k], r - 1)]
    BY <2>2, PromptsAre
  <2>. QED
    BY <1>1, <2>3
<1>. QED
  BY <1>2

\* A sum of the shares of one option's labels.
Share(m, p, keys, o) == Total([i \in 1 .. m |-> IF keys[i] = o THEN p[i] ELSE 0])

LEMMA ShareType ==
  ASSUME NEW m \in Nat, NEW p \in [1 .. m -> Nat], NEW keys, NEW o
  PROVE  Share(m, p, keys, o) \in Nat
<1> DEFINE f == [i \in 1 .. m |-> IF keys[i] = o THEN p[i] ELSE 0]
<1>1. DOMAIN f = 1 .. m /\ NatOn(f, 1 .. m) /\ IsFiniteSet(1 .. m)
  BY FS_Interval DEF NatOn
<1>. HIDE DEF f
<1>2. Total(f) \in Nat
  BY <1>1, TotalIsSum, SumType
<1>. QED
  BY <1>2 DEF f, Share

LEMMA PartType ==
  ASSUME cfg \in Configs, request \in Seq(Question), ReadingsFit,
         NEW j \in DOMAIN readings, NEW k, NEW o
  PROVE  Part(j, k, o) \in Nat
<1>1. j \in 1 .. Len(Prompts(request))
  <2>1. Len(Prompts(request)) \in Nat
    BY PromptsAre
  <2>2. readings \in Seq(Reading) /\ Len(readings) <= Len(Prompts(request))
    BY DEF ReadingsFit
  <2>. QED
    BY <2>1, <2>2
<1>2. PICK l \in DOMAIN request :
         request[l].n \in Nat /\ DOMAIN Prompts(request)[j].keys = 1 .. request[l].n
  BY <1>1, PromptKeys
<1>3. PICK m \in Nat : m = request[l].n
  BY <1>2
<1>4. DOMAIN readings[j].weights = 1 .. m /\ readings[j] \in Reading
  BY <1>2, <1>3 DEF ReadingsFit
<1>5. PICK w \in [1 .. m -> Weights] : w = readings[j].weights
  <2>1. PICK i \in Nat : readings[j].weights \in [1 .. i -> Weights]
    BY <1>4 DEF Reading
  <2>2. readings[j].weights \in [1 .. m -> Weights]
    BY <1>4, <2>1
  <2>. QED
    BY <2>2
<1>6. PICK p \in [1 .. m -> Nat] : p = Softmax(readings[j].weights)
  BY <1>5, SoftmaxType
<1>7. PICK keys : keys = Prompts(request)[j].keys
  OBVIOUS
<1>8. Share(m, p, keys, o) \in Nat
  BY ShareType
<1>9. Part(j, k, o) = IF Prompts(request)[j].question = k THEN Share(m, p, keys, o) ELSE 0
  BY <1>2, <1>3, <1>6, <1>7, Zenon DEF Part, Share
<1>. QED
  BY <1>8, <1>9

\* Nothing else but the prompts and the readings makes what is said.
LEMMA SameParts ==
  ASSUME cfg' = cfg, request' = request, readings' = readings
  PROVE  /\ \A t, k, o : SaidBy(t, k, o)' = SaidBy(t, k, o)
         /\ Charge' = Charge
         /\ ReadingsFit => ReadingsFit'
<1>1. Prompts(request)' = Prompts(request)
  BY SamePrompts
<1>2. \A j, k, o : Part(j, k, o)' = Part(j, k, o)
  BY <1>1, Zenon DEF Part
<1>3. \A t, k, o : SaidBy(t, k, o)' = SaidBy(t, k, o)
  BY <1>2 DEF SaidBy
<1>4. Charge' = Charge
  BY DEF Charge
<1>5. ReadingsFit => ReadingsFit'
  BY <1>1 DEF ReadingsFit
<1>. QED
  BY <1>3, <1>4, <1>5

\* The averages, at rest.
LEMMA SameRaws ==
  ASSUME cfg' = cfg, request' = request, readings' = readings, taken' = taken, raws' = raws
  PROVE  /\ RawsFit' <=> RawsFit
         /\ RawsFit /\ OnTurn /\ SoFar => RawsFit' /\ OnTurn' /\ SoFar'
         /\ \A k : Unread(k)' <=> Unread(k)
<1>1. /\ \A q : Perms(q)' = Perms(q)
      /\ \A k : Before(k)' = Before(k)
      /\ Prompts(request)' = Prompts(request)
  BY SamePrompts
<1>2. \A k : Unread(k)' <=> Unread(k)
  BY <1>1 DEF Unread
<1>3. \A k : Plan(k)' <=> Plan(k)
  BY <1>2 DEF Plan
<1>4. RawsFit' <=> RawsFit
  BY <1>1 DEF RawsFit
<1>5. OnTurn => OnTurn'
  BY <1>1, <1>2, <1>3 DEF OnTurn
<1>6. SoFar => SoFar'
  <2>1. Charges' = Charges
    BY DEF Charges
  <2>. QED
    BY <2>1, SameParts DEF SoFar
<1>. QED
  BY <1>2, <1>4, <1>5, <1>6

------------------------------------------------------------------------------
(* The steps that average nothing.                                         *)

LEMMA JudgeStarts == JudgeInit => JudgeInv
<1>1. SUFFICES ASSUME JudgeInit PROVE JudgeInv
  OBVIOUS
<1>2. /\ cfg \in Configs /\ request = <<>> /\ stage = "idle" /\ readings = <<>>
      /\ taken = 0 /\ outcome = "none"
  BY <1>1 DEF JudgeInit
<1>3. request \in Seq(Question)
  BY <1>2
<1>4. Len(Prompts(request)) \in Nat
  BY <1>2, <1>3, PromptsAre
<1>5. readings \in Seq(Reading) /\ Len(readings) = 0 /\ DOMAIN readings = {}
  BY <1>2
<1>6. ReadingsFit
  BY <1>4, <1>5 DEF ReadingsFit
<1>7. JudgeTypeOK
  BY <1>2, <1>4, <1>5 DEF JudgeTypeOK
<1>8. ~Averaging
  BY <1>2 DEF Averaging, Done
<1>. QED
  BY <1>2, <1>3, <1>6, <1>7, <1>8 DEF JudgeInv, Done

\* A call that goes on with what it has.
LEMMA Carries ==
  ASSUME JudgeInv, UNCHANGED <<cfg, request, readings, taken, raws>>,
         stage' \in {"score", "average", "done"},
         outcome' \in {"none", "answered", "rejected", "failed"},
         outcome' = "none" <=> stage' # "done",
         stage' \in {"score", "average"} \/ Done("answered")' => ~Refused(request),
         stage' = "score" => stage = "score",
         Averaging' => RawsFit /\ OnTurn /\ SoFar,
         Done("answered")' => \A k \in DOMAIN request : ~Unread(k)
  PROVE  JudgeInv'
<1>1. /\ Prompts(request)' = Prompts(request)
      /\ \A q : Perms(q)' = Perms(q)
      /\ Refused(request)' <=> Refused(request)
  BY SamePrompts
<1>2. JudgeTypeOK'
  BY <1>1 DEF JudgeTypeOK, JudgeInv
<1>3. request' \in Seq(Question)
  BY DEF JudgeInv
<1>4. ReadingsFit'
  BY SameParts DEF JudgeInv
<1>5. RawsFit' <=> RawsFit
  BY SameRaws
<1>6. Averaging' => RawsFit' /\ OnTurn' /\ SoFar'
  BY SameRaws
<1>7. \A k : Unread(k)' <=> Unread(k)
  BY SameRaws
<1>8. stage' = "score" =>
         /\ taken' = 0 /\ RawsFit'
         /\ \A k \in DOMAIN request' :
               /\ raws'[k].rotations = 0 /\ raws'[k].evaluated = 0
               /\ \A o \in 1 .. request'[k].n : raws'[k].mean[o] = 0
  BY <1>5 DEF JudgeInv
<1>9. (stage \in {"score", "average"} \/ Done("answered"))' => ~Refused(request)'
  BY <1>1
<1>10. Done("answered")' => \A k \in DOMAIN request' : ~Unread(k)'
  BY <1>7
<1>. QED
  BY <1>2, <1>3, <1>4, <1>6, <1>8, <1>9, <1>10 DEF JudgeInv

LEMMA JudgeIdles ==
  ASSUME JudgeInv, UNCHANGED <<cfg, judge>>
  PROVE  JudgeInv'
<1>1. /\ cfg' = cfg /\ request' = request /\ stage' = stage /\ readings' = readings
      /\ taken' = taken /\ raws' = raws /\ outcome' = outcome
  BY DEF judge
<1>2. CASE stage \in {"score", "average", "done"}
  <2>1. Done("answered")' <=> Done("answered")
    BY <1>1 DEF Done
  <2>2. Averaging' <=> Averaging
    BY <1>1, <2>1 DEF Averaging
  <2>. QED
    BY <1>1, <1>2, <2>1, <2>2, Carries DEF JudgeInv, JudgeTypeOK
<1>3. CASE stage \in {"idle", "parse"}
  <2>1. JudgeTypeOK'
    BY <1>1, SamePrompts DEF JudgeInv, JudgeTypeOK
  <2>2. ReadingsFit'
    BY <1>1, SameParts DEF JudgeInv
  <2>3. stage' \notin {"score", "average", "done"}
    BY <1>1, <1>3
  <2>4. ~Averaging' /\ ~Done("answered")'
    BY <2>3 DEF Averaging, Done
  <2>. QED
    BY <1>1, <2>1, <2>2, <2>3, <2>4 DEF JudgeInv
<1>. QED
  BY <1>2, <1>3 DEF JudgeInv, JudgeTypeOK

\* A call that has nothing yet.
LEMMA Empty ==
  ASSUME JudgeInv, cfg' = cfg, request' \in Seq(Question), stage' \in {"idle", "parse"},
         readings' = <<>>, taken' = 0, outcome' = "none",
         stage' = "idle" => request' = <<>>
  PROVE  JudgeInv'
<1>1. cfg' \in Configs
  BY DEF JudgeInv, JudgeTypeOK
<1>2. Len(Prompts(request))' \in Nat
  BY <1>1, PromptsAre
<1>3. readings' \in Seq(Reading) /\ Len(readings') = 0 /\ DOMAIN readings' = {}
  OBVIOUS
<1>4. ReadingsFit'
  BY <1>2, <1>3 DEF ReadingsFit
<1>5. JudgeTypeOK'
  BY <1>1, <1>2, <1>3 DEF JudgeTypeOK
<1>6. ~Averaging' /\ ~Done("answered")' /\ stage' \notin {"score", "average", "done"}
  BY DEF Averaging, Done
<1>. QED
  BY <1>4, <1>5, <1>6 DEF JudgeInv

LEMMA JudgeKeeps == ASSUME JudgeInv, NEW qs \in Seq(Question), Judge(qs) PROVE JudgeInv'
<1>1. /\ cfg' = cfg /\ request' = qs /\ stage' = "parse"
      /\ readings' = readings /\ taken' = taken /\ outcome' = outcome /\ stage = "idle"
  BY DEF Judge
<1>2. readings = <<>> /\ taken = 0 /\ outcome = "none"
  BY <1>1 DEF JudgeInv, JudgeTypeOK
<1>. QED
  BY <1>1, <1>2, Empty

LEMMA ForgetKeeps == ASSUME JudgeInv, Forget, UNCHANGED cfg PROVE JudgeInv'
<1>1. /\ request' = <<>> /\ stage' = "idle" /\ readings' = <<>> /\ taken' = 0
      /\ outcome' = "none"
  BY DEF Forget
<1>2. request' \in Seq(Question)
  BY <1>1
<1>. QED
  BY <1>1, <1>2, Empty

LEMMA EndKeeps ==
  ASSUME JudgeInv, Refuse \/ ReadFails \/ TooFew \/ Answered
  PROVE  JudgeInv'
<1>1. PICK o \in {"answered", "rejected", "failed"} :
         /\ End(o) /\ UNCHANGED <<cfg, request, readings, taken, raws>>
         /\ o = "answered" => Answered
  BY DEF Refuse, ReadFails, TooFew, Answered
<1>2. stage' = "done" /\ outcome' = o
  BY <1>1 DEF End
<1>3. (Done("answered")' <=> o = "answered") /\ (Averaging' <=> o = "answered")
  BY <1>2 DEF Done, Averaging
<1>4. CASE o # "answered"
  BY <1>1, <1>2, <1>3, <1>4, Carries
<1>5. CASE o = "answered"
  <2>1. stage = "average" /\ \A k \in DOMAIN raws : ~Unread(k)
    BY <1>1, <1>5 DEF Answered
  <2>2. RawsFit /\ OnTurn /\ SoFar /\ ~Refused(request)
    BY <2>1 DEF JudgeInv, Averaging
  <2>3. \A k \in DOMAIN request : ~Unread(k)
    BY <2>1, <2>2 DEF RawsFit
  <2>. QED
    BY <1>1, <1>2, <1>3, <2>1, <2>2, <2>3, Carries
<1>. QED
  BY <1>4, <1>5

LEMMA RenderKeeps == ASSUME JudgeInv, Render PROVE JudgeInv'
<1>1. /\ stage = "parse" /\ ~Refused(request) /\ stage' = "score"
      /\ raws' = [k \in DOMAIN request |->
                     [rotations |-> 0, mean |-> [o \in 1 .. request[k].n |-> 0],
                      evaluated |-> 0]]
      /\ cfg' = cfg /\ request' = request /\ readings' = readings /\ taken' = taken
      /\ outcome' = outcome
  BY DEF Render
<1>2. /\ cfg \in Configs /\ readings = <<>> /\ taken = 0 /\ outcome = "none"
      /\ request \in Seq(Question)
  BY <1>1 DEF JudgeInv, JudgeTypeOK
<1>3. /\ Prompts(request)' = Prompts(request)
      /\ \A q : Perms(q)' = Perms(q)
      /\ Refused(request)' <=> Refused(request)
  BY <1>1, SamePrompts
<1>4. JudgeTypeOK'
  BY <1>1, <1>2, <1>3 DEF JudgeInv, JudgeTypeOK
<1>5. ReadingsFit'
  BY <1>1, SameParts DEF JudgeInv
<1>6. \A k \in DOMAIN request : Perms(request[k]) \in Nat
  <2>1. \A k \in DOMAIN request : request[k] \in Question
    BY <1>2
  <2>. QED
    BY <1>2, <2>1, PermsType
<1>7. /\ DOMAIN raws' = DOMAIN request
      /\ \A k \in DOMAIN request :
            /\ raws'[k].rotations = 0 /\ raws'[k].evaluated = 0
            /\ raws'[k].mean = [o \in 1 .. request[k].n |-> 0]
  BY <1>1
<1>8. RawsFit'
  BY <1>1, <1>3, <1>6, <1>7 DEF RawsFit
<1>9. ~Averaging' /\ ~Done("answered")'
  BY <1>1 DEF Averaging, Done
<1>. QED
  BY <1>1, <1>2, <1>3, <1>4, <1>5, <1>7, <1>8, <1>9 DEF JudgeInv

LEMMA ReadKeeps == ASSUME JudgeInv, Read PROVE JudgeInv'
<1> DEFINE n == Len(readings)
           p == Prompts(request)[n + 1]
<1>1. PICK w \in [DOMAIN p.keys -> Weights], c \in Costs :
         readings' = Append(readings, [weights |-> w, evaluated |-> c])
  BY DEF Read
<1>2. /\ stage = "score" /\ n < Len(Prompts(request)) /\ cfg' = cfg /\ request' = request
      /\ stage' = stage /\ taken' = taken /\ raws' = raws /\ outcome' = outcome
  BY DEF Read, Waiting
<1>3. /\ cfg \in Configs /\ request \in Seq(Question) /\ readings \in Seq(Reading)
      /\ n \in Nat /\ taken = 0 /\ outcome = "none" /\ ~Refused(request)
      /\ \A j \in DOMAIN readings : DOMAIN readings[j].weights = DOMAIN Prompts(request)[j].keys
  BY <1>2 DEF JudgeInv, JudgeTypeOK, ReadingsFit
<1>4. Len(Prompts(request)) \in Nat
  BY <1>3, PromptsAre
<1>5. n + 1 \in 1 .. Len(Prompts(request)) /\ n + 1 <= Len(Prompts(request))
  BY <1>2, <1>3, <1>4
<1>6. PICK m \in Nat : DOMAIN p.keys = 1 .. m
  BY <1>3, <1>5, PromptKeys
<1>7. PICK r \in Reading : r = [weights |-> w, evaluated |-> c]
  BY <1>6 DEF Reading
<1>8. r.weights = w /\ DOMAIN w = DOMAIN p.keys
  BY <1>7
<1>. HIDE DEF n, p
<1>9. /\ Prompts(request)' = Prompts(request)
      /\ \A q : Perms(q)' = Perms(q)
      /\ Refused(request)' <=> Refused(request)
  BY <1>2, SamePrompts
<1>10. /\ readings' \in Seq(Reading) /\ Len(readings') = n + 1
       /\ readings'[n + 1] = r /\ \A j \in 1 .. n : readings'[j] = readings[j]
       /\ DOMAIN readings = 1 .. n /\ DOMAIN readings' = 1 .. n + 1
  BY <1>1, <1>3, <1>7 DEF n
<1>11. \A j \in 1 .. n + 1 :
          DOMAIN readings'[j].weights = DOMAIN Prompts(request)[j].keys
  <2>1. \A j \in 1 .. n + 1 : j \in 1 .. n \/ j = n + 1
    BY <1>3
  <2>2. DOMAIN readings'[n + 1].weights = DOMAIN Prompts(request)[n + 1].keys
    BY <1>8, <1>10 DEF p
  <2>3. \A j \in 1 .. n : DOMAIN readings'[j].weights = DOMAIN Prompts(request)[j].keys
    BY <1>3, <1>10
  <2>. QED
    BY <2>1, <2>2, <2>3
<1>12. ReadingsFit'
  BY <1>5, <1>9, <1>10, <1>11 DEF ReadingsFit
<1>13. JudgeTypeOK'
  BY <1>2, <1>3, <1>5, <1>9, <1>10 DEF JudgeInv, JudgeTypeOK
<1>14. RawsFit' <=> RawsFit
  BY <1>2, <1>9 DEF RawsFit
<1>15. ~Averaging' /\ ~Done("answered")'
  BY <1>2 DEF Averaging, Done
<1>. QED
  BY <1>2, <1>3, <1>9, <1>12, <1>13, <1>14, <1>15 DEF JudgeInv

\* Every question has a prompt, and its first is the plan.
LEMMA Planned ==
  ASSUME cfg \in Configs, request \in Seq(Question), ~Refused(request)
  PROVE  /\ request # <<>> /\ 1 \in DOMAIN request
         /\ \A k \in DOMAIN request : Perms(request[k]) \in Nat /\ Perms(request[k]) > 0
<1>1. request # <<>> /\ \A k \in DOMAIN request : request[k] \in Question
  BY DEF Refused, Unparsed
<1>2. \A k \in DOMAIN request : ~Malformed(request[k])
  BY DEF Refused, Unparsed
<1>. QED
  BY <1>1, <1>2, PermsType

LEMMA ReturnKeeps == ASSUME JudgeInv, Return PROVE JudgeInv'
<1>1. /\ stage = "score" /\ stage' = "average" /\ outcome' = outcome
      /\ UNCHANGED <<cfg, request, readings, taken, raws>>
  BY DEF Return, Returned, Waiting
<1>2. /\ cfg \in Configs /\ request \in Seq(Question) /\ ~Refused(request)
      /\ taken = 0 /\ RawsFit /\ outcome = "none" /\ ReadingsFit
      /\ \A k \in DOMAIN request :
            /\ raws[k].rotations = 0 /\ raws[k].evaluated = 0
            /\ \A o \in 1 .. request[k].n : raws[k].mean[o] = 0
  BY <1>1 DEF JudgeInv, JudgeTypeOK
<1>3. /\ 1 \in DOMAIN request
      /\ \A k \in DOMAIN request : Perms(request[k]) \in Nat /\ Perms(request[k]) > 0
  BY <1>2, Planned
<1>4. \A k \in DOMAIN request : Unread(k)
  BY <1>2, <1>3 DEF Unread
<1>5. OnTurn
  <2>1. ASSUME NEW k \in DOMAIN request, Plan(k) PROVE k = 1
    <3>1. k # 1 => 1 \in 1 .. k - 1
      BY <1>2
    <3>. QED
      BY <1>3, <1>4, <2>1, <3>1 DEF Plan
  <2>2. Before(1) = 0
    BY <1>2, PromptsAre
  <2>. QED
    BY <1>2, <1>3, <1>4, <2>1, <2>2 DEF OnTurn
<1>6. SoFar
  <2>1. 1 .. taken = {} /\ IsFiniteSet(1 .. taken) /\ IsFiniteSet(DOMAIN request)
    <3>1. DOMAIN request = 1 .. Len(request) /\ Len(request) \in Nat
      BY <1>2
    <3>. QED
      BY <1>2, <3>1, FS_Interval
  <2>2. \A f : SumFunctionOnSet(f, 1 .. taken) = 0
    BY <2>1, SumZero
  <2>3. \A k \in DOMAIN request : Charges[k] = 0
    BY <1>2 DEF Charges, RawsFit
  <2>4. SumFunctionOnSet(Charges, DOMAIN request) = 0
    BY <2>1, <2>3, SumZero
  <2>. QED
    BY <1>2, <2>2, <2>4 DEF SoFar, SaidBy
<1>7. Averaging' /\ ~Done("answered")'
  BY <1>1, <1>2 DEF Averaging, Done
<1>. QED
  BY <1>1, <1>2, <1>5, <1>6, <1>7, Carries

------------------------------------------------------------------------------
(* The step that averages one reading.                                     *)

\* The reading after those taken answers the plan's next prompt.
LEMMA NextPrompt ==
  ASSUME JudgeInv, stage = "average", taken < Len(readings),
         NEW k \in DOMAIN request, Plan(k)
  PROVE  /\ taken + 1 \in DOMAIN readings
         /\ taken + 1 \in 1 .. Len(Prompts(request))
         /\ taken + 1 = Before(k) + (raws[k].rotations + 1)
         /\ raws[k].rotations + 1 \in 1 .. Perms(request[k])
         /\ Prompts(request)[taken + 1].question = k
         /\ Prompts(request)[taken + 1].keys = Keys(request[k], raws[k].rotations)
<1> DEFINE R == raws[k].rotations
<1>1. /\ cfg \in Configs /\ request \in Seq(Question) /\ RawsFit /\ OnTurn
      /\ readings \in Seq(Reading) /\ taken \in 0 .. Len(readings)
      /\ Len(readings) <= Len(Prompts(request))
  BY DEF JudgeInv, JudgeTypeOK, Averaging, ReadingsFit
<1>2. /\ Perms(request[k]) \in Nat /\ R \in 0 .. Perms(request[k]) /\ R < Perms(request[k])
      /\ taken = Before(k) + R
  <2>1. request[k] \in Question
    BY <1>1
  <2>2. Perms(request[k]) \in Nat
    BY <1>1, <2>1, PermsType
  <2>. QED
    BY <1>1, <2>2 DEF RawsFit, OnTurn, Plan, Unread
<1>. HIDE DEF R
<1>3. R + 1 \in 1 .. Perms(request[k]) /\ (R + 1) - 1 = R
  BY <1>2
<1>4. /\ Before(k) \in Nat /\ Before(k) + (R + 1) \in 1 .. Len(Prompts(request))
      /\ Prompts(request)[Before(k) + (R + 1)] =
            [question |-> k, keys |-> Keys(request[k], (R + 1) - 1)]
  BY <1>1, <1>3, PromptsAre
<1>5. taken + 1 = Before(k) + (R + 1)
  BY <1>2, <1>4
<1>6. taken + 1 \in DOMAIN readings
  BY <1>1
<1>. QED
  BY <1>3, <1>4, <1>5, <1>6 DEF R

\* What it is averaged by is what its prompt showed.
LEMMA KeysAreOrder ==
  ASSUME cfg \in Configs, NEW q \in Question, NEW R \in Nat, R < Perms(q), NEW i \in 1 .. q.n
  PROVE  Keys(q, R)[i] = Order(q.n, R)[i]
<1>1. CASE q.kind = "choice"
  BY <1>1 DEF Keys
<1>2. CASE q.kind # "choice"
  <2>1. Perms(q) = 1 /\ R = 0
    BY <1>2 DEF Perms
  <2>2. q.n \in Nat
    BY DEF Question
  <2>3. R \in 0 .. q.n - 1
    BY <2>1, <2>2
  <2>4. Order(q.n, R)[i] = i
    BY <2>1, <2>2, <2>3, Rotated
  <2>. QED
    BY <1>2, <2>4 DEF Keys
<1>. QED
  BY <1>1, <1>2

LEMMA Spreading ==
  ASSUME JudgeInv, stage = "average", taken < Len(readings),
         NEW k \in DOMAIN request, Plan(k), NEW mean,
         mean = Spread(raws[k].mean, Softmax(readings[taken + 1].weights),
                       Order(request[k].n, raws[k].rotations))
  PROVE  /\ mean \in [1 .. request[k].n -> Nat]
         /\ \A o \in 1 .. request[k].n : mean[o] = raws[k].mean[o] + Part(taken + 1, k, o)
<1>1. PICK t, R, n, old :
         /\ t \in Nat /\ R \in Nat /\ n \in Nat
         /\ t = taken + 1 /\ R = raws[k].rotations /\ n = request[k].n /\ old = raws[k].mean
  <2>1. request[k] \in Question /\ RawsFit /\ taken \in Nat
    BY DEF JudgeInv, JudgeTypeOK, Averaging
  <2>2. request[k].n \in Nat /\ raws[k].rotations \in Nat
    BY <2>1 DEF Question, RawsFit
  <2>. QED
    BY <2>1, <2>2
<1>2. /\ t \in DOMAIN readings /\ t \in 1 .. Len(Prompts(request))
      /\ R + 1 \in 1 .. Perms(request[k]) /\ Prompts(request)[t].question = k
      /\ Prompts(request)[t].keys = Keys(request[k], R)
  BY <1>1, NextPrompt
<1>3. /\ cfg \in Configs /\ request \in Seq(Question) /\ ReadingsFit /\ RawsFit
      /\ request[k] \in Question /\ readings[t] \in Reading
  BY <1>2 DEF JudgeInv, JudgeTypeOK, Averaging, ReadingsFit
<1>4. old \in [1 .. n -> Nat]
  BY <1>1, <1>3 DEF RawsFit
<1>5. PICK keys : keys = Keys(request[k], R)
  OBVIOUS
<1>6. DOMAIN keys = 1 .. n
  <2>1. DOMAIN Order(request[k].n, R) = 1 .. n
    BY <1>1 DEF Order
  <2>. QED
    BY <1>1, <1>5, <2>1 DEF Keys
<1>7. PICK p \in [1 .. n -> Nat] : p = Softmax(readings[t].weights)
  <2>1. DOMAIN readings[t].weights = 1 .. n
    BY <1>2, <1>3, <1>5, <1>6 DEF ReadingsFit
  <2>2. PICK m \in Nat : readings[t].weights \in [1 .. m -> Weights]
    BY <1>3 DEF Reading
  <2>3. readings[t].weights \in [1 .. n -> Weights]
    BY <2>1, <2>2
  <2>. QED
    BY <1>1, <2>3, SoftmaxType
<1>8. PICK order : order = Order(n, R)
  OBVIOUS
<1>9. \A i \in 1 .. n : keys[i] = order[i]
  <2>1. R < Perms(request[k])
    <3>1. Perms(request[k]) \in Nat
      BY <1>3, PermsType
    <3>. QED
      BY <1>1, <1>2, <3>1
  <2>. QED
    BY <1>1, <1>3, <1>5, <1>8, <2>1, KeysAreOrder
<1>10. \A o : Part(t, k, o) = Share(n, p, keys, o)
  BY <1>2, <1>5, <1>6, <1>7, Zenon DEF Part, Share
<1>11. \A o : Share(n, p, keys, o) = Share(n, p, order, o) /\ Share(n, p, keys, o) \in Nat
  <2>1. ASSUME NEW o
        PROVE  [i \in 1 .. n |-> IF keys[i] = o THEN p[i] ELSE 0]
                  = [i \in 1 .. n |-> IF order[i] = o THEN p[i] ELSE 0]
    BY <1>9
  <2>2. \A o : Share(n, p, keys, o) = Share(n, p, order, o)
    BY <2>1, Zenon DEF Share
  <2>. QED
    BY <1>1, <1>7, <2>2, ShareType
<1>12. mean = [o \in 1 .. n |-> old[o] + Share(n, p, order, o)]
  <2>1. DOMAIN old = 1 .. n /\ DOMAIN p = 1 .. n
    BY <1>4, <1>7
  <2>2. mean = Spread(old, p, order)
    BY <1>1, <1>7, <1>8
  <2>3. mean = [o \in 1 .. n |->
            old[o] + Total([i \in 1 .. n |-> IF order[i] = o THEN p[i] ELSE 0])]
    BY <2>1, <2>2, Zenon DEF Spread
  <2>. QED
    BY <2>3, Zenon DEF Share
<1>13. \A o \in 1 .. n : old[o] \in Nat /\ Share(n, p, order, o) \in Nat
  BY <1>4, <1>11
<1>. QED
  BY <1>1, <1>10, <1>11, <1>12, <1>13

\* What is said, and charged, with one reading more.
LEMMA SaidNext ==
  ASSUME JudgeInv, taken < Len(readings)
  PROVE  /\ \A k, o : SaidBy(taken + 1, k, o) = SaidBy(taken, k, o) + Part(taken + 1, k, o)
         /\ Charge[taken + 1] \in Nat
         /\ SumFunctionOnSet(Charge, 1 .. taken + 1)
               = Charge[taken + 1] + SumFunctionOnSet(Charge, 1 .. taken)
         /\ SumFunctionOnSet(Charge, 1 .. taken) \in Nat
<1>1. /\ cfg \in Configs /\ request \in Seq(Question) /\ ReadingsFit
      /\ readings \in Seq(Reading) /\ taken \in 0 .. Len(readings)
  BY DEF JudgeInv, JudgeTypeOK, ReadingsFit
<1>2. PICK t \in Nat, m \in Nat : t = taken /\ m = Len(readings) /\ t < m
  <2>1. Len(readings) \in Nat
    BY <1>1
  <2>2. taken \in Nat
    BY <1>1, <2>1
  <2>. QED
    BY <2>1, <2>2
<1>3. DOMAIN readings = 1 .. m
  BY <1>1, <1>2
<1>4. /\ 1 .. t + 1 = (1 .. t) \cup {t + 1} /\ t + 1 \notin 1 .. t
      /\ IsFiniteSet(1 .. t) /\ \A j \in 1 .. t + 1 : j \in 1 .. m
  <2>1. IsFiniteSet(1 .. t)
    BY <1>2, FS_Interval
  <2>2. 1 .. t + 1 = (1 .. t) \cup {t + 1} /\ t + 1 \notin 1 .. t
    BY <1>2
  <2>3. \A j \in 1 .. t + 1 : j \in 1 .. m
    BY <1>2
  <2>. QED
    BY <2>1, <2>2, <2>3
<1>5. ASSUME NEW k, NEW o
      PROVE  SaidBy(taken + 1, k, o) = SaidBy(taken, k, o) + Part(taken + 1, k, o)
  <2>1. PICK f : f = [j \in DOMAIN readings |-> Part(j, k, o)]
    OBVIOUS
  <2>2. \A j \in 1 .. m : f[j] = Part(j, k, o) /\ f[j] \in Nat
    <3>1. \A j \in 1 .. m : f[j] = Part(j, k, o)
      BY <1>3, <2>1
    <3>2. \A j \in 1 .. m : Part(j, k, o) \in Nat
      BY <1>1, <1>3, PartType
    <3>. QED
      BY <3>1, <3>2
  <2>3. NatOn(f, (1 .. t) \cup {t + 1}) /\ NatOn(f, 1 .. t)
    BY <1>4, <2>2 DEF NatOn
  <2>4. SumFunctionOnSet(f, (1 .. t) \cup {t + 1}) = f[t + 1] + SumFunctionOnSet(f, 1 .. t)
    BY <1>4, <2>3, SumWith
  <2>5. SumFunctionOnSet(f, 1 .. t) \in Nat
    BY <1>4, <2>3, SumType
  <2>6. f[t + 1] = Part(t + 1, k, o) /\ f[t + 1] \in Nat
    BY <1>2, <2>2
  <2>7. \A i : SaidBy(i, k, o) = SumFunctionOnSet(f, 1 .. i)
    BY <2>1 DEF SaidBy
  <2>8. SaidBy(t + 1, k, o) = f[t + 1] + SaidBy(t, k, o)
    BY <1>4, <2>4, <2>7
  <2>9. SaidBy(t, k, o) \in Nat
    BY <2>5, <2>7
  <2>10. SaidBy(t + 1, k, o) = SaidBy(t, k, o) + Part(t + 1, k, o)
    BY <2>6, <2>8, <2>9
  <2>. QED
    BY <1>2, <2>10
<1>6. PICK f : f = Charge
  OBVIOUS
<1>7. \A j \in 1 .. m : f[j] \in Nat
  <2>1. \A j \in 1 .. m : readings[j] \in Reading
    BY <1>1, <1>3
  <2>. QED
    BY <1>3, <1>6, <2>1, JudgingAssumption DEF Charge, Reading
<1>8. NatOn(f, (1 .. t) \cup {t + 1}) /\ NatOn(f, 1 .. t)
  BY <1>4, <1>7 DEF NatOn
<1>9. SumFunctionOnSet(f, (1 .. t) \cup {t + 1}) = f[t + 1] + SumFunctionOnSet(f, 1 .. t)
  BY <1>4, <1>8, SumWith
<1>10. SumFunctionOnSet(f, 1 .. t) \in Nat
  BY <1>4, <1>8, SumType
<1>11. f[t + 1] \in Nat
  BY <1>2, <1>7
<1>. QED
  BY <1>2, <1>4, <1>5, <1>6, <1>9, <1>10, <1>11

\* Its effect: one question's average moves, by what its prompt showed.
AveragesOne(k) ==
    /\ DOMAIN raws' = DOMAIN request
    /\ \A l \in DOMAIN request : l # k => raws'[l] = raws[l]
    /\ raws'[k].rotations = raws[k].rotations + 1
    /\ raws'[k].evaluated = raws[k].evaluated + Charge[taken + 1]
    /\ raws'[k].mean \in [1 .. request[k].n -> Nat]
    /\ \A o \in 1 .. request[k].n :
          raws'[k].mean[o] = raws[k].mean[o] + Part(taken + 1, k, o)

LEMMA AverageIs ==
  ASSUME JudgeInv, Average
  PROVE  /\ stage = "average" /\ taken < Len(readings) /\ taken' = taken + 1
         /\ UNCHANGED <<cfg, request, stage, readings, outcome>>
         /\ \E k \in DOMAIN request : Plan(k) /\ AveragesOne(k)
<1>1. /\ stage = "average" /\ taken < Len(readings) /\ taken' = taken + 1
      /\ UNCHANGED <<cfg, request, stage, readings, outcome>>
  BY DEF Average
<1>2. RawsFit /\ readings \in Seq(Reading) /\ taken \in 0 .. Len(readings)
  BY <1>1 DEF JudgeInv, JudgeTypeOK, Averaging, ReadingsFit
<1>3. PICK k \in DOMAIN raws :
         /\ Plan(k)
         /\ raws' = [raws EXCEPT ![k] =
               Averaged(@, Order(request[k].n, @.rotations), readings[taken + 1])]
  BY DEF Average
<1>4. k \in DOMAIN request /\ DOMAIN raws = DOMAIN request
  BY <1>2, <1>3 DEF RawsFit
<1>5. PICK new : new = Averaged(raws[k], Order(request[k].n, raws[k].rotations),
                                readings[taken + 1])
  OBVIOUS
<1>6. /\ DOMAIN raws' = DOMAIN request /\ raws'[k] = new
      /\ \A l \in DOMAIN request : l # k => raws'[l] = raws[l]
  BY <1>3, <1>4, <1>5
<1>7. /\ new.rotations = raws[k].rotations + 1
      /\ new.mean = Spread(raws[k].mean, Softmax(readings[taken + 1].weights),
                           Order(request[k].n, raws[k].rotations))
      /\ new.evaluated = raws[k].evaluated + readings[taken + 1].evaluated
  BY <1>5, Zenon DEF Averaged
<1>8. Charge[taken + 1] = readings[taken + 1].evaluated
  BY <1>1, <1>2 DEF Charge
<1>9. PICK mean : mean = new.mean
  OBVIOUS
<1>10. /\ mean \in [1 .. request[k].n -> Nat]
       /\ \A o \in 1 .. request[k].n : mean[o] = raws[k].mean[o] + Part(taken + 1, k, o)
  BY <1>1, <1>3, <1>4, <1>7, <1>9, Spreading
<1>11. AveragesOne(k)
  BY <1>6, <1>7, <1>8, <1>9, <1>10 DEF AveragesOne
<1>. QED
  BY <1>1, <1>3, <1>4, <1>11

LEMMA RawsFitNext ==
  ASSUME JudgeInv, Average, NEW k \in DOMAIN request, Plan(k), AveragesOne(k)
  PROVE  RawsFit'
<1>1. /\ stage = "average" /\ taken < Len(readings)
      /\ cfg' = cfg /\ request' = request
  BY AverageIs
<1>2. RawsFit /\ cfg \in Configs /\ request \in Seq(Question)
  BY <1>1 DEF JudgeInv, JudgeTypeOK, Averaging
<1>3. \A q : Perms(q)' = Perms(q)
  BY <1>1, SamePrompts
<1>4. Charge[taken + 1] \in Nat
  BY <1>1, SaidNext
<1>5. raws[k].rotations + 1 \in 1 .. Perms(request[k])
  BY <1>1, NextPrompt
<1>6. ASSUME NEW l \in DOMAIN request
      PROVE  /\ raws'[l].rotations \in 0 .. Perms(request[l])
             /\ raws'[l].mean \in [1 .. request[l].n -> Nat]
             /\ raws'[l].evaluated \in Nat
  <2>1. CASE l # k
    BY <1>2, <2>1 DEF AveragesOne, RawsFit
  <2>2. CASE l = k
    <3>1. raws[k].evaluated \in Nat
      BY <1>2 DEF RawsFit
    <3>2. raws'[k].evaluated \in Nat
      BY <1>4, <3>1 DEF AveragesOne
    <3>. QED
      BY <1>5, <2>2, <3>2 DEF AveragesOne
  <2>. QED
    BY <2>1, <2>2
<1>. QED
  BY <1>1, <1>3, <1>6 DEF RawsFit, AveragesOne

LEMMA OnTurnNext ==
  ASSUME JudgeInv, Average, NEW k \in DOMAIN request, Plan(k), AveragesOne(k)
  PROVE  OnTurn'
<1>1. /\ stage = "average" /\ taken < Len(readings) /\ taken' = taken + 1
      /\ cfg' = cfg /\ request' = request
  BY AverageIs
<1>2. /\ RawsFit /\ OnTurn /\ cfg \in Configs /\ request \in Seq(Question)
      /\ ~Refused(request)
  BY <1>1 DEF JudgeInv, JudgeTypeOK, Averaging
<1>3. PICK n \in Nat : n = Len(request) /\ DOMAIN request = 1 .. n
  BY <1>2
<1>4. PICK R, P, B \in Nat :
         /\ R = raws[k].rotations /\ P = Perms(request[k]) /\ B = Before(k)
         /\ R + 1 \in 1 .. P /\ taken + 1 = B + (R + 1)
  <2>1. raws[k].rotations + 1 \in 1 .. Perms(request[k])
    BY <1>1, NextPrompt
  <2>2. Before(k) \in Nat /\ taken + 1 = Before(k) + (raws[k].rotations + 1)
    BY <1>1, <1>2, NextPrompt, PromptsAre
  <2>3. Perms(request[k]) \in Nat /\ raws[k].rotations \in Nat
    BY <1>2, Planned DEF RawsFit
  <2>. QED
    BY <2>1, <2>2, <2>3
<1>5. P \in Nat /\ R \in Nat
  BY <1>4
<1>6. /\ Before(k + 1) = B + P /\ Len(Prompts(request)) = Before(n + 1)
  BY <1>2, <1>3, <1>4, PromptsAre
<1>7. /\ \A q : Perms(q)' = Perms(q)
      /\ \A l : Before(l)' = Before(l)
      /\ Prompts(request)' = Prompts(request)
  BY <1>1, SamePrompts
<1>8. \A l \in DOMAIN request : l # k => raws'[l].rotations = raws[l].rotations
  BY DEF AveragesOne
<1>9. \A l \in DOMAIN request : l < k => ~Unread(l)'
  <2>1. ASSUME NEW l \in DOMAIN request, l < k PROVE ~Unread(l)'
    <3>1. l \in 1 .. k - 1 /\ l # k
      BY <1>3, <2>1
    <3>2. ~Unread(l)
      BY <3>1 DEF Plan
    <3>. QED
      BY <1>1, <1>7, <1>8, <3>1, <3>2 DEF Unread
  <2>. QED
    BY <2>1
<1>10. \A l \in DOMAIN request : l > k => raws'[l].rotations = 0 /\ Unread(l)'
  <2>1. ASSUME NEW l \in DOMAIN request, l > k PROVE raws'[l].rotations = 0 /\ Unread(l)'
    <3>1. l # k
      BY <1>3, <2>1
    <3>2. raws'[l].rotations = 0
      BY <1>2, <1>8, <2>1, <3>1 DEF OnTurn
    <3>3. Perms(request[l]) > 0
      BY <1>2, Planned
    <3>. QED
      BY <1>1, <1>7, <3>2, <3>3 DEF Unread
  <2>. QED
    BY <2>1
<1>11. raws'[k].rotations = R + 1
  BY <1>4 DEF AveragesOne
<1>12. Unread(k)' <=> R + 1 < P
  BY <1>1, <1>4, <1>7, <1>11 DEF Unread
<1>13. ASSUME NEW l \in DOMAIN request, Plan(l)'
       PROVE  l >= k /\ Unread(l)' /\ (l > k => ~Unread(k)') /\ (l > k + 1 => ~Unread(k + 1)')
  <2>1. Unread(l)' /\ \A j \in 1 .. l - 1 : ~Unread(j)'
    BY <1>13 DEF Plan
  <2>2. l >= k
    BY <1>3, <1>9, <2>1
  <2>3. l > k => k \in 1 .. l - 1
    BY <1>3
  <2>4. l > k + 1 => k + 1 \in 1 .. l - 1
    BY <1>3
  <2>. QED
    BY <2>1, <2>2, <2>3, <2>4
<1>14. ASSUME NEW l \in DOMAIN request, Plan(l)'
       PROVE  /\ taken' = Before(l) + raws'[l].rotations
              /\ \A j \in DOMAIN request : j > l => raws'[j].rotations = 0
  <2>1. /\ l >= k /\ Unread(l)' /\ (l > k => ~Unread(k)') /\ (l > k + 1 => ~Unread(k + 1)')
    BY <1>13, <1>14
  <2>2. \A j \in DOMAIN request : j > l => raws'[j].rotations = 0
    BY <1>3, <1>10, <2>1
  <2>3. CASE R + 1 < P
    <3>1. l = k
      BY <1>3, <1>12, <2>1, <2>3
    <3>. QED
      BY <1>1, <1>4, <1>11, <2>2, <3>1
  <2>4. CASE ~(R + 1 < P)
    <3>1. l > k
      BY <1>3, <1>12, <2>1, <2>4
    <3>2. l > k + 1 => k + 1 \in DOMAIN request /\ k + 1 > k
      BY <1>3
    <3>3. l = k + 1
      BY <1>3, <1>10, <2>1, <3>1, <3>2
    <3>4. R + 1 = P
      BY <1>4, <1>5, <2>4
    <3>5. raws'[l].rotations = 0
      BY <1>10, <3>1
    <3>6. taken + 1 = Before(l) + 0
      BY <1>4, <1>5, <1>6, <3>3, <3>4
    <3>. QED
      BY <1>1, <2>2, <3>5, <3>6
  <2>. QED
    BY <2>3, <2>4
<1>15. ASSUME \A l \in DOMAIN request : ~Unread(l)'
       PROVE  taken' = Len(Prompts(request))
  <2>1. R + 1 = P
    BY <1>4, <1>5, <1>12, <1>15
  <2>2. k + 1 \notin DOMAIN request
    <3>1. k + 1 > k
      BY <1>3
    <3>. QED
      BY <1>10, <1>15, <3>1
  <2>3. k = n
    BY <1>3, <2>2
  <2>. QED
    BY <1>1, <1>4, <1>6, <2>1, <2>3
<1>16. \A l : Before(l)' = Before(l) /\ request' = request
  BY <1>1, <1>7
<1>. QED
  BY <1>7, <1>14, <1>15, <1>16 DEF OnTurn

LEMMA SoFarNext ==
  ASSUME JudgeInv, Average, NEW k \in DOMAIN request, Plan(k), AveragesOne(k)
  PROVE  SoFar'
<1>1. /\ stage = "average" /\ taken < Len(readings) /\ taken' = taken + 1
      /\ cfg' = cfg /\ request' = request /\ readings' = readings
  BY AverageIs
<1>2. RawsFit /\ SoFar /\ cfg \in Configs /\ request \in Seq(Question)
  BY <1>1 DEF JudgeInv, JudgeTypeOK, Averaging
<1>3. /\ \A t, l, o : SaidBy(t, l, o)' = SaidBy(t, l, o)
      /\ Charge' = Charge
  BY <1>1, SameParts
<1>4. /\ \A l, o : SaidBy(taken + 1, l, o) = SaidBy(taken, l, o) + Part(taken + 1, l, o)
      /\ Charge[taken + 1] \in Nat /\ SumFunctionOnSet(Charge, 1 .. taken) \in Nat
      /\ SumFunctionOnSet(Charge, 1 .. taken + 1)
            = Charge[taken + 1] + SumFunctionOnSet(Charge, 1 .. taken)
  BY <1>1, SaidNext
<1>5. \A l, o : l # k => Part(taken + 1, l, o) = 0
  BY <1>1, NextPrompt DEF Part
<1>6. ASSUME NEW l \in DOMAIN request, NEW o \in 1 .. request[l].n
      PROVE  raws'[l].mean[o] = SaidBy(taken + 1, l, o)
  <2>1. raws[l].mean[o] = SaidBy(taken, l, o) /\ raws[l].mean[o] \in Nat
    BY <1>2 DEF SoFar, RawsFit
  <2>2. CASE l = k
    BY <1>4, <2>1, <2>2 DEF AveragesOne
  <2>3. CASE l # k
    BY <1>4, <1>5, <2>1, <2>3 DEF AveragesOne
  <2>. QED
    BY <2>2, <2>3
<1>7. SumFunctionOnSet(Charges', DOMAIN request)
         = SumFunctionOnSet(Charges, DOMAIN request) + Charge[taken + 1]
  <2>1. PICK d, S, f, g : /\ d \in Nat /\ S = DOMAIN request /\ f = Charges /\ g = Charges'
                                 /\ d = Charge[taken + 1]
    BY <1>4
  <2>2. IsFiniteSet(S)
    <3>1. S = 1 .. Len(request) /\ Len(request) \in Nat
      BY <1>2, <2>1
    <3>. QED
      BY <3>1, FS_Interval
  <2>3. \A l \in S : f[l] = raws[l].evaluated /\ f[l] \in Nat
    BY <1>2, <2>1 DEF Charges, RawsFit
  <2>4. \A l \in S : g[l] = raws'[l].evaluated
    BY <2>1 DEF Charges, AveragesOne
  <2>5. g[k] = f[k] + d
    BY <2>1, <2>3, <2>4 DEF AveragesOne
  <2>6. \A l \in S : l # k => g[l] = f[l]
    BY <2>1, <2>3, <2>4 DEF AveragesOne
  <2>7. NatOn(f, S) /\ k \in S
    BY <2>1, <2>3 DEF NatOn
  <2>8. SumFunctionOnSet(g, S) = SumFunctionOnSet(f, S) + d
    BY <2>1, <2>2, <2>5, <2>6, <2>7, SumChanged
  <2>. QED
    BY <2>1, <2>8
<1>8. SumFunctionOnSet(Charges', DOMAIN request) = SumFunctionOnSet(Charge, 1 .. taken + 1)
  <2>1. SumFunctionOnSet(Charges, DOMAIN request) = SumFunctionOnSet(Charge, 1 .. taken)
    BY <1>2 DEF SoFar
  <2>. QED
    BY <1>4, <1>7, <2>1
<1>9. \A l \in DOMAIN request' : \A o \in 1 .. request'[l].n :
         raws'[l].mean[o] = SaidBy(taken, l, o)'
  <2>1. \A t, l, o : t = taken' => SaidBy(taken, l, o)' = SaidBy(t, l, o)
    BY <1>3 DEF SaidBy
  <2>. QED
    BY <1>1, <1>6, <2>1
<1>10. SumFunctionOnSet(Charges', DOMAIN request') = SumFunctionOnSet(Charge', 1 .. taken')
  BY <1>1, <1>3, <1>8
<1>. QED
  BY <1>9, <1>10 DEF SoFar

LEMMA AverageKeeps == ASSUME JudgeInv, Average PROVE JudgeInv'
<1>1. /\ stage = "average" /\ taken < Len(readings) /\ taken' = taken + 1
      /\ UNCHANGED <<cfg, request, stage, readings, outcome>>
  BY AverageIs
<1>2. PICK k \in DOMAIN request : Plan(k) /\ AveragesOne(k)
  BY AverageIs
<1>3. RawsFit' /\ OnTurn' /\ SoFar'
  BY <1>2, RawsFitNext, OnTurnNext, SoFarNext
<1>4. /\ readings \in Seq(Reading) /\ taken \in 0 .. Len(readings) /\ outcome = "none"
  BY <1>1 DEF JudgeInv, JudgeTypeOK, ReadingsFit
<1>5. taken' \in 0 .. Len(readings')
  BY <1>1, <1>4
<1>6. /\ Prompts(request)' = Prompts(request)
      /\ Refused(request)' <=> Refused(request)
  BY <1>1, SamePrompts
<1>7. JudgeTypeOK'
  BY <1>1, <1>5, <1>6 DEF JudgeInv, JudgeTypeOK
<1>8. ReadingsFit'
  BY <1>1, SameParts DEF JudgeInv
<1>9. ~Done("answered")'
  BY <1>1 DEF Done
<1>. QED
  BY <1>1, <1>3, <1>6, <1>7, <1>8, <1>9 DEF JudgeInv

LEMMA StepKeeps == ASSUME JudgeInv, JudgeStep PROVE JudgeInv'
<1>1. ASSUME NEW qs \in Seq(Question), Judge(qs) PROVE JudgeInv'
  BY <1>1, JudgeKeeps
<1>2. CASE Refuse \/ ReadFails \/ TooFew \/ Answered
  BY <1>2, EndKeeps
<1>3. CASE Render
  BY <1>3, RenderKeeps
<1>4. CASE Read
  BY <1>4, ReadKeeps
<1>5. CASE Return
  BY <1>5, ReturnKeeps
<1>6. CASE Average
  BY <1>6, AverageKeeps
<1>7. CASE Forget /\ UNCHANGED cfg
  BY <1>7, ForgetKeeps
<1>8. CASE UNCHANGED <<cfg, judge>>
  BY <1>8, JudgeIdles
<1>. QED
  BY <1>1, <1>2, <1>3, <1>4, <1>5, <1>6, <1>7, <1>8 DEF JudgeStep, JudgeNext

------------------------------------------------------------------------------
(* What an answered call has.                                              *)

LEMMA WholeWhenAnswered ==
  ASSUME JudgeInv, Done("answered")
  PROVE  /\ taken = Len(readings) /\ Len(readings) = Len(Prompts(request))
         /\ DOMAIN readings = 1 .. taken /\ taken \in Nat
<1>1. /\ cfg \in Configs /\ request \in Seq(Question) /\ readings \in Seq(Reading)
      /\ taken \in 0 .. Len(readings) /\ Len(readings) <= Len(Prompts(request))
      /\ taken = Len(Prompts(request))
  BY DEF JudgeInv, JudgeTypeOK, Averaging, ReadingsFit, OnTurn
<1>2. Len(readings) \in Nat
  BY <1>1
<1>3. taken = Len(readings)
  BY <1>1, <1>2
<1>. QED
  BY <1>1, <1>2, <1>3

LEMMA OwnReadings == JudgeInv => OptionsKeepTheirReadings
<1>1. SUFFICES ASSUME JudgeInv, Done("answered"),
                      NEW k \in DOMAIN request, NEW o \in 1 .. request[k].n
               PROVE  raws[k].mean[o] = Said(k, o)
  BY DEF OptionsKeepTheirReadings
<1>2. raws[k].mean[o] = SaidBy(taken, k, o)
  BY <1>1 DEF JudgeInv, Averaging, SoFar
<1>3. PICK f : f = [j \in DOMAIN readings |-> Part(j, k, o)]
  OBVIOUS
<1>4. Said(k, o) = Total(f)
  BY <1>3, Zenon DEF Said, Part
<1>5. DOMAIN f = 1 .. taken
  BY <1>1, <1>3, WholeWhenAnswered
<1>6. Total(f) = SumFunctionOnSet(f, 1 .. taken)
  BY <1>5, TotalIsSum
<1>7. SaidBy(taken, k, o) = SumFunctionOnSet(f, 1 .. taken)
  BY <1>3 DEF SaidBy
<1>. QED
  BY <1>2, <1>4, <1>6, <1>7

LEMMA ReadAndCharged == JudgeInv => AnsweredWhole
<1>1. SUFFICES ASSUME JudgeInv, Done("answered")
               PROVE  /\ Len(readings) = Len(Prompts(request)) /\ taken = Len(readings)
                      /\ InputTokens = Total([j \in DOMAIN readings |-> readings[j].evaluated])
  BY DEF AnsweredWhole
<1>2. SumFunctionOnSet(Charges, DOMAIN request) = SumFunctionOnSet(Charge, 1 .. taken)
  BY <1>1 DEF JudgeInv, Averaging, SoFar
<1>3. DOMAIN Charges = DOMAIN request
  BY <1>1 DEF JudgeInv, Averaging, RawsFit, Charges
<1>4. DOMAIN Charge = 1 .. taken
  BY <1>1, WholeWhenAnswered DEF Charge
<1>5. InputTokens = Total(Charges)
  BY DEF InputTokens, Charges
<1>6. Total(Charges) = Total(Charge)
  BY <1>2, <1>3, <1>4, TotalIsSum
<1>. QED
  BY <1>1, <1>5, <1>6, WholeWhenAnswered DEF Charge

\* Where each of a question's prompts, from b + 1 on, shows option o.
ShownAt(n, b, o) ==
    [j \in b + 1 .. b + n |-> IF o > j - b - 1 THEN o - (j - b - 1) ELSE o - (j - b - 1) + n]

\* At each position once.
EachOnce(n, b, o) ==
    /\ ShownAt(n, b, o) \in Bijection(b + 1 .. b + n, 1 .. n)
    /\ \A j \in b + 1 .. b + n : \A i \in 1 .. n :
          Order(n, j - b - 1)[i] = o <=> i = ShownAt(n, b, o)[j]

LEMMA PositionsOnce ==
  ASSUME NEW n \in Nat, NEW b \in Nat, NEW o \in 1 .. n
  PROVE  EachOnce(n, b, o)
<1> DEFINE T == b + 1 .. b + n
           at == ShownAt(n, b, o)
<1>1. \A j \in T : at[j] = IF o > j - b - 1 THEN o - (j - b - 1) ELSE o - (j - b - 1) + n
  BY DEF ShownAt
<1>0. at = [j \in T |-> at[j]]
  BY DEF ShownAt
<1>. HIDE DEF at
<1>2. \A j \in T : at[j] \in 1 .. n
  BY <1>1
<1>3. \A i, j \in T : at[i] = at[j] => i = j
  BY <1>1
<1>4. ASSUME NEW i \in 1 .. n PROVE \E j \in T : at[j] = i
  <2>1. CASE i <= o
    <3>1. b + 1 + (o - i) \in T
      BY <2>1
    <3>2. at[b + 1 + (o - i)] = i
      BY <1>1, <2>1, <3>1
    <3>. QED
      BY <3>1, <3>2
  <2>2. CASE i > o
    <3>1. b + 1 + (o - i + n) \in T
      BY <2>2
    <3>2. at[b + 1 + (o - i + n)] = i
      BY <1>1, <2>2, <3>1
    <3>. QED
      BY <3>1, <3>2
  <2>. QED
    BY <2>1, <2>2
<1>5. at \in [T -> 1 .. n]
  BY <1>2, <1>0
<1>6. at \in Bijection(T, 1 .. n)
  <2>. HIDE DEF T
  <2>1. DOMAIN at = T
    BY <1>5
  <2>2. IsInjective(at)
    BY <1>3, <2>1 DEF IsInjective
  <2>3. at \in Injection(T, 1 .. n)
    BY <1>5, <2>2 DEF Injection
  <2>4. at \in Surjection(T, 1 .. n)
    BY <1>4, <1>5 DEF Surjection
  <2>. QED
    BY <2>3, <2>4 DEF Bijection
<1>7. ASSUME NEW j \in T, NEW i \in 1 .. n
      PROVE  Order(n, j - b - 1)[i] = o <=> i = at[j]
  <2>1. j - b - 1 \in 0 .. n - 1
    OBVIOUS
  <2>2. PICK r \in 0 .. n - 1 : r = j - b - 1
    BY <2>1
  <2>3. Order(n, r)[i] = IF i + r <= n THEN i + r ELSE i + r - n
    BY Rotated
  <2>4. at[j] = IF o > r THEN o - r ELSE o - r + n
    BY <1>1, <2>2
  <2>. QED
    BY <2>2, <2>3, <2>4
<1>. QED
  BY <1>6, <1>7 DEF at, EachOnce

\* A choice with at least as many rotations as options is asked once for each.
LEMMA PermsOfFull ==
  ASSUME cfg \in Configs, NEW q \in Question, ~Malformed(q), q.kind = "choice",
         cfg.permutations >= q.n
  PROVE  Perms(q) = q.n /\ q.n \in Nat
<1>1. cfg.permutations \in Nat /\ q.n \in Nat /\ q.n # 0
  BY JudgingAssumption DEF Question, Malformed
<1>. QED
  BY <1>1 DEF Perms

\* The sum that makes option o's average, by the prompts that are its
\* question's: all of them read alike, it is the sum over the positions.
LEMMA AllAlike ==
  ASSUME JudgeInv, Done("answered"), NEW k \in DOMAIN request,
         request[k].kind = "choice", cfg.permutations >= request[k].n, Biased(k),
         NEW o \in 1 .. request[k].n, NEW p,
         p = Softmax(readings[Before(k) + 1].weights)
  PROVE  raws[k].mean[o] = SumFunctionOnSet(p, 1 .. request[k].n)
<1>1. /\ cfg \in Configs /\ request \in Seq(Question) /\ ~Refused(request) /\ ReadingsFit
      /\ readings \in Seq(Reading) /\ request[k] \in Question
  BY DEF JudgeInv, JudgeTypeOK, Averaging, ReadingsFit
<1>2. /\ taken = Len(Prompts(request)) /\ DOMAIN readings = 1 .. taken /\ taken \in Nat
  BY WholeWhenAnswered
<1>3. ~Malformed(request[k])
  BY <1>1 DEF Refused, Unparsed
<1>4. Perms(request[k]) = request[k].n /\ request[k].n \in Nat
  BY <1>1, <1>3, PermsOfFull
<1>5. PICK n \in Nat, b \in Nat, t \in Nat : n = request[k].n /\ b = Before(k) /\ t = taken
  BY <1>1, <1>2, <1>4, PromptsAre
<1> DEFINE T == b + 1 .. b + n
<1>6. ASSUME NEW j \in T
      PROVE  /\ j \in 1 .. t /\ Prompts(request)[j].question = k
             /\ Prompts(request)[j].keys = Order(n, j - b - 1)
  <2>1. PICK r \in 1 .. n : j = b + r
    <3>1. j - b \in 1 .. n /\ j = b + (j - b)
      BY <1>5
    <3>. QED
      BY <3>1
  <2>2. /\ b + r \in 1 .. t
        /\ Prompts(request)[b + r] = [question |-> k, keys |-> Keys(request[k], r - 1)]
    BY <1>1, <1>2, <1>4, <1>5, PromptsAre
  <2>3. Keys(request[k], r - 1) = Order(n, r - 1)
    BY <1>5 DEF Keys
  <2>4. r - 1 = j - b - 1
    BY <2>1, <1>5
  <2>. QED
    BY <2>1, <2>2, <2>3, <2>4
<1>7. ASSUME NEW j \in 1 .. t, j \notin T PROVE Prompts(request)[j].question # k
  <2>1. PICK l \in DOMAIN request : \E r \in 1 .. Perms(request[l]) : j = Before(l) + r
    BY <1>1, <1>2, <1>5, PromptsAre
  <2>2. PICK r \in 1 .. Perms(request[l]) : j = Before(l) + r
    BY <2>1
  <2>3. Prompts(request)[j] = [question |-> l, keys |-> Keys(request[l], r - 1)]
    BY <1>1, <2>2, PromptsAre
  <2>4. l # k
    <3>1. SUFFICES ASSUME l = k PROVE FALSE
      OBVIOUS
    <3>2. r \in 1 .. n /\ j = b + r
      BY <1>4, <1>5, <2>2, <3>1
    <3>. QED
      BY <1>5, <1>7, <3>2
  <2>. QED
    BY <2>3, <2>4
<1>8. b + 1 \in T
  BY <1>5
<1>9. ASSUME NEW j \in T PROVE Softmax(readings[j].weights) = p
  <2>1. j \in Mine(k) /\ b + 1 \in Mine(k)
    BY <1>2, <1>5, <1>6, <1>8 DEF Mine
  <2>2. readings[j].weights = readings[b + 1].weights
    BY <2>1 DEF Biased
  <2>. QED
    BY <1>5, <2>2
<1>10. p \in [1 .. n -> Nat]
  <2>1. b + 1 \in DOMAIN readings /\ readings[b + 1] \in Reading
    BY <1>1, <1>2, <1>5, <1>6, <1>8
  <2>2. DOMAIN readings[b + 1].weights = 1 .. n
    <3>1. DOMAIN Prompts(request)[b + 1].keys = 1 .. n
      BY <1>6, <1>8 DEF Order
    <3>. QED
      BY <1>1, <2>1, <3>1 DEF ReadingsFit
  <2>3. PICK m \in Nat : readings[b + 1].weights \in [1 .. m -> Weights]
    BY <2>1 DEF Reading
  <2>4. readings[b + 1].weights \in [1 .. n -> Weights]
    BY <2>2, <2>3
  <2>. QED
    BY <1>5, <2>4, SoftmaxType
<1>11. PICK f : f = [j \in DOMAIN readings |-> Part(j, k, o)]
  OBVIOUS
<1>12. raws[k].mean[o] = SumFunctionOnSet(f, 1 .. t)
  <2>1. raws[k].mean[o] = SaidBy(taken, k, o)
    BY DEF JudgeInv, Averaging, SoFar
  <2>. QED
    BY <1>5, <1>11, <2>1 DEF SaidBy
<1>13. \A j \in 1 .. t : f[j] = Part(j, k, o) /\ f[j] \in Nat
  <2>1. \A j \in 1 .. t : f[j] = Part(j, k, o)
    BY <1>2, <1>5, <1>11
  <2>2. \A j \in 1 .. t : Part(j, k, o) \in Nat
    BY <1>1, <1>2, <1>5, PartType
  <2>. QED
    BY <2>1, <2>2
<1>14. \A j \in (1 .. t) \ T : f[j] = 0
  BY <1>7, <1>13 DEF Part
<1>15. T \in SUBSET (1 .. t) /\ IsFiniteSet(1 .. t) /\ IsFiniteSet(T)
  <2>1. T \in SUBSET (1 .. t)
    BY <1>6
  <2>2. IsFiniteSet(1 .. t)
    BY FS_Interval
  <2>. HIDE DEF T
  <2>. QED
    BY <2>1, <2>2, FS_Subset
<1>16. NatOn(f, 1 .. t) /\ NatOn(f, T)
  BY <1>13, <1>15 DEF NatOn
<1>17. SumFunctionOnSet(f, 1 .. t) = SumFunctionOnSet(f, T)
  <2>. HIDE DEF T
  <2>. QED
    BY <1>14, <1>15, <1>16, SumOver
<1>18. PICK at : at = ShownAt(n, b, o)
  OBVIOUS
<1>19. /\ at \in Bijection(T, 1 .. n)
       /\ \A j \in T : \A i \in 1 .. n : Order(n, j - b - 1)[i] = o <=> i = at[j]
  <2>1. o \in 1 .. n
    BY <1>5
  <2>2. EachOnce(n, b, o)
    BY <2>1, PositionsOnce
  <2>. QED
    BY <1>18, <2>2 DEF EachOnce
<1>20. ASSUME NEW j \in T PROVE f[j] = p[at[j]]
  <2>1. PICK keys : keys = Order(n, j - b - 1)
    OBVIOUS
  <2>2. DOMAIN keys = 1 .. n /\ j \in 1 .. t /\ f[j] = Part(j, k, o)
    BY <1>6, <1>13, <2>1 DEF Order
  <2>3. PICK a \in 1 .. n : a = at[j]
    <3>1. at \in [T -> 1 .. n]
      BY <1>19 DEF Bijection, Injection
    <3>. QED
      BY <3>1
  <2>4. PICK g : g = [i \in 1 .. n |-> IF keys[i] = o THEN p[i] ELSE 0]
    OBVIOUS
  <2>5. Prompts(request)[j].question = k /\ Prompts(request)[j].keys = keys
    BY <1>6, <2>1
  <2>6. Part(j, k, o) = Total(g)
    BY <1>9, <2>2, <2>4, <2>5, Zenon DEF Part
  <2>7. /\ g[a] = p[a] /\ g[a] \in Nat
        /\ \A i \in 1 .. n : i # a => g[i] = 0
    <3>1. \A i \in 1 .. n : keys[i] = o <=> i = a
      BY <1>19, <2>1, <2>3
    <3>2. \A i \in 1 .. n : g[i] = IF i = a THEN p[i] ELSE 0
      BY <2>4, <3>1
    <3>. QED
      BY <1>10, <3>2
  <2>8. Total(g) = SumFunctionOnSet(g, 1 .. n) /\ IsFiniteSet(1 .. n)
    <3>1. DOMAIN g = 1 .. n
      BY <2>4
    <3>. QED
      BY <3>1, TotalIsSum, FS_Interval
  <2>9. SumFunctionOnSet(g, 1 .. n) = g[a]
    BY <2>7, <2>8, SumSingle
  <2>. QED
    BY <2>2, <2>3, <2>6, <2>7, <2>8, <2>9
<1>21. SumFunctionOnSet(f, T) = SumFunctionOnSet(p, 1 .. n)
  <2>. HIDE DEF T
  <2>. QED
    BY <1>15, <1>16, <1>19, <1>20, SumMoved
<1>. QED
  BY <1>5, <1>12, <1>17, <1>21

LEMMA BalancedOut == JudgeInv => Balanced
<1>1. SUFFICES ASSUME JudgeInv, Done("answered"), NEW k \in DOMAIN request,
                      request[k].kind = "choice", cfg.permutations >= request[k].n, Biased(k),
                      NEW o \in 1 .. request[k].n, NEW u \in 1 .. request[k].n
               PROVE  raws[k].mean[o] = raws[k].mean[u]
  BY DEF Balanced
<1>2. PICK p : p = Softmax(readings[Before(k) + 1].weights)
  OBVIOUS
<1>. QED
  BY <1>1, <1>2, AllAlike

------------------------------------------------------------------------------
(* The callers.                                                            *)

Written == [id : Ids \cup {NoId}, status : {"result", "error", "tool error"}]

\* A set of places, in order, has a reply for each, in their order.
Replied(D, lines, reps) ==
    /\ Len(reps) = Cardinality(D)
    /\ \A i \in D : reps[Cardinality({j \in D : j <= i})].id = lines[i].id

McpInv ==
    /\ read \in Seq(Lines) /\ replies \in Seq(Written) /\ Len(read) <= MaxLines
    /\ calling \in BOOLEAN /\ up \in BOOLEAN
    /\ up => command = "mcp" /\ (calling <=> stage # "idle")
    /\ calling => read # <<>> /\ AsksReply(Last(read)) /\ up
    /\ up => Replied(Due, read, replies)

FileInv == file \in Files \cup {<<>>} /\ case \in Nat \ {0}

CallersInv == JudgeInv /\ McpInv /\ FileInv

\* A file's cases ask questions.
LEMMA AskedType ==
  ASSUME FileInv, case <= Len(file)
  PROVE  Asked(case) \in Seq(Question)
<1> DEFINE Case == [questions : Seq(Question), gold : Seq(Int)]
<1>1. Files \subseteq Seq(Case)
  BY EvaluationAssumption
<1>. HIDE DEF Case
<1>2. file \in Seq(Case)
  BY <1>1 DEF FileInv
<1>3. case \in Nat \ {0} /\ Len(file) \in Nat /\ DOMAIN file = 1 .. Len(file)
  BY <1>2 DEF FileInv
<1>4. file[case] \in Case
  BY <1>2, <1>3
<1>. QED
  BY <1>4 DEF Asked, Case

LEMMA LineType ==
  ASSUME NEW l \in Lines
  PROVE  /\ l.id \in Ids \cup {NoId}
         /\ l.what = "judge" => l.questions \in Seq(Question)
         /\ l.what = "blank" => l.id = NoId
<1>1. CASE l = Line(NoId, "blank", <<>>) \/ l = Line(NoId, "garbage", <<>>)
  BY <1>1 DEF Line
<1>2. ASSUME NEW i \in Ids \cup {NoId}, NEW w \in Unjudged, l = Line(i, w, <<>>)
      PROVE  l.id \in Ids \cup {NoId} /\ l.what \notin {"judge", "blank"}
  BY <1>2 DEF Line, Unjudged
<1>3. ASSUME NEW i \in Ids \cup {NoId}, NEW qs \in Requests, l = Line(i, "judge", qs)
      PROVE  l.id \in Ids \cup {NoId} /\ l.questions \in Seq(Question) /\ l.what = "judge"
  BY <1>3, JudgingAssumption DEF Line
<1>. QED
  BY <1>1, <1>2, <1>3 DEF Lines

\* What the callers do with the judge is a step of its.
LEMMA CallersStep ==
  ASSUME FileInv, [CallersNext]_<<vars, evaluation>>
  PROVE  JudgeStep
<1>1. CASE UNCHANGED <<vars, evaluation>>
  BY <1>1 DEF JudgeStep, vars
<1>2. CASE up /\ JudgeNext /\ UNCHANGED mcp
  BY <1>2 DEF JudgeStep
<1>3. CASE EndCall
  BY <1>3 DEF EndCall, JudgeStep
<1>4. CASE Hangup
  BY <1>4 DEF Hangup, JudgeStep
<1>5. ASSUME NEW l \in Lines, Skip(l) \/ Answer(l) \/ Call(l) PROVE JudgeStep
  <2>1. CASE Skip(l) \/ Answer(l)
    BY <2>1 DEF Skip, Answer, JudgeStep
  <2>2. CASE Call(l)
    <3>1. Judge(l.questions) /\ l.what = "judge"
      BY <2>2 DEF Call
    <3>2. l.questions \in Seq(Question)
      BY <3>1, LineType
    <3>. QED
      BY <3>1, <3>2 DEF JudgeStep
  <2>. QED
    BY <1>5, <2>1, <2>2
<1>6. CASE OpenCase
  <2>1. case <= Len(file) /\ (UNCHANGED <<cfg, judge>> \/ Judge(Asked(case)))
    BY <1>6 DEF OpenCase, Running
  <2>2. Asked(case) \in Seq(Question)
    BY <2>1, AskedType
  <2>. QED
    BY <2>1, <2>2 DEF JudgeStep
<1>7. CASE command = "eval" /\ JudgeNext /\ UNCHANGED evaluation
  BY <1>7 DEF JudgeStep
<1>8. CASE CloseCase
  BY <1>8 DEF CloseCase, JudgeStep
<1>9. CASE HostedCase
  BY <1>9 DEF HostedCase, JudgeStep
<1>10. CASE Report
  BY <1>10 DEF Report, JudgeStep
<1>. QED
  BY <1>1, <1>2, <1>3, <1>4, <1>5, <1>6, <1>7, <1>8, <1>9, <1>10
     DEF CallersNext, Next, Work, EvaluationNext

LEMMA FileKeeps ==
  ASSUME FileInv, [CallersNext]_<<vars, evaluation>>
  PROVE  FileInv'
<1>1. file' = file /\ case' \in {case, case + 1}
  <2>1. CASE UNCHANGED <<vars, evaluation>> \/ UNCHANGED evaluation
    BY <2>1 DEF evaluation
  <2>2. CASE OpenCase
    BY <2>2 DEF OpenCase, Abort
  <2>3. CASE CloseCase
    BY <2>3 DEF CloseCase, KeepRows, Abort, CountFailed
  <2>4. CASE HostedCase
    BY <2>4 DEF HostedCase, KeepRows, Abort, CountFailed
  <2>5. CASE Report
    BY <2>5 DEF Report
  <2>. QED
    BY <2>1, <2>2, <2>3, <2>4, <2>5 DEF CallersNext, EvaluationNext
<1>. QED
  BY <1>1 DEF FileInv

LEMMA RepliedMore ==
  ASSUME NEW D, NEW n \in Nat, D \subseteq 1 .. n, NEW lines, NEW reps, reps \in Seq(Written),
         Replied(D, lines, reps), NEW r \in Written, NEW x \in Nat, \A i \in D : i < x,
         NEW others, \A i \in D : others[i].id = lines[i].id, others[x].id = r.id
  PROVE  Replied(D \cup {x}, others, Append(reps, r))
<1> DEFINE E == D \cup {x}
           m == Len(reps)
           more == Append(reps, r)
           Upto(S, i) == {j \in S : j <= i}
<1>1. IsFiniteSet(D)
  <2>1. IsFiniteSet(1 .. n)
    BY FS_Interval
  <2>. QED
    BY <2>1, FS_Subset
<1>2. x \notin D /\ \A i \in D : i \in Nat
  OBVIOUS
<1>3. Cardinality(E) = m + 1 /\ m = Cardinality(D) /\ m \in Nat
  <2>1. m = Cardinality(D)
    BY DEF Replied
  <2>. QED
    BY <1>1, <1>2, <2>1, FS_AddElement, FS_CardinalityType
<1>4. Len(more) = m + 1 /\ more[m + 1] = r /\ \A i \in 1 .. m : more[i] = reps[i]
  BY <1>3
<1>5. ASSUME NEW i \in D PROVE more[Cardinality(Upto(E, i))].id = others[i].id
  <2>1. Upto(E, i) = Upto(D, i)
    BY <1>2
  <2>2. Cardinality(Upto(D, i)) \in 1 .. m
    <3>1. Upto(D, i) \subseteq D /\ Upto(D, i) # {}
      BY <1>2
    <3>2. IsFiniteSet(Upto(D, i)) /\ Cardinality(Upto(D, i)) <= Cardinality(D)
      BY <1>1, <3>1, FS_Subset
    <3>3. Cardinality(Upto(D, i)) \in Nat /\ Cardinality(Upto(D, i)) # 0
      BY <3>1, <3>2, FS_CardinalityType, FS_EmptySet
    <3>. QED
      BY <1>3, <3>2, <3>3
  <2>3. reps[Cardinality(Upto(D, i))].id = lines[i].id
    BY DEF Replied
  <2>. HIDE DEF Upto
  <2>. QED
    BY <1>4, <2>1, <2>2, <2>3
<1>6. Upto(E, x) = E
  BY <1>2
<1>7. \A i \in E : more[Cardinality(Upto(E, i))].id = others[i].id
  <2>. HIDE DEF Upto
  <2>. QED
    BY <1>3, <1>4, <1>5, <1>6
<1>. QED
  BY <1>3, <1>4, <1>7 DEF Replied

\* The lines due a reply, one line on.
LEMMA DueType ==
  ASSUME read \in Seq(Lines)
  PROVE  Due \subseteq 1 .. Len(read) /\ Len(read) \in Nat
BY DEF Due

LEMMA McpStarts == CallersInit => McpInv
<1>1. SUFFICES ASSUME CallersInit PROVE McpInv
  OBVIOUS
<1>2. /\ read = <<>> /\ calling = FALSE /\ replies = <<>> /\ up = (command = "mcp")
      /\ stage = "idle"
  BY <1>1 DEF CallersInit, Init, JudgeInit
<1>3. Due = {} /\ Len(read) = 0 /\ Len(replies) = 0
  BY <1>2 DEF Due
<1>4. Replied(Due, read, replies)
  BY <1>3, FS_EmptySet DEF Replied
<1>5. read \in Seq(Lines) /\ replies \in Seq(Written) /\ Len(read) <= MaxLines
  BY <1>2, <1>3, McpAssumption
<1>. QED
  BY <1>2, <1>4, <1>5 DEF McpInv

\* A line read, and what the reading of it leaves.
LEMMA ReadsOne ==
  ASSUME McpInv, NEW l \in Lines, Reads(l)
  PROVE  /\ read' \in Seq(Lines) /\ Len(read') <= MaxLines /\ read' # <<>> /\ Last(read') = l
         /\ Len(read) \in Nat /\ Len(read') = Len(read) + 1
         /\ \A i \in 1 .. Len(read) : read'[i] = read[i]
         /\ read'[Len(read) + 1] = l
         /\ Due \subseteq 1 .. Len(read)
         /\ Replied(Due, read', replies)
         /\ Due' = IF AsksReply(l) /\ ~calling' THEN Due \cup {Len(read) + 1} ELSE Due
<1> DEFINE n == Len(read)
<1>1. /\ up /\ ~calling /\ n < MaxLines /\ read' = Append(read, l)
      /\ read \in Seq(Lines) /\ replies \in Seq(Written) /\ MaxLines \in Nat
  BY McpAssumption DEF Reads, McpInv
<1>2. /\ read' \in Seq(Lines) /\ n \in Nat /\ Len(read') = n + 1 /\ n + 1 <= MaxLines
      /\ read'[n + 1] = l /\ \A i \in 1 .. n : read'[i] = read[i]
      /\ DOMAIN read = 1 .. n /\ DOMAIN read' = 1 .. n + 1
  BY <1>1
<1>. HIDE DEF n
<1>3. Last(read') = l /\ read' # <<>>
  BY <1>2 DEF Last
<1>4. Due = {i \in 1 .. n : AsksReply(read[i])}
  BY <1>1, <1>2 DEF Due
<1>5. /\ \A i \in 1 .. n : AsksReply(read'[i]) <=> AsksReply(read[i])
      /\ \A i \in 1 .. n : i \in 1 .. n + 1 /\ i # n + 1
      /\ \A i \in 1 .. n + 1 : i \in 1 .. n \/ i = n + 1
      /\ n + 1 \in 1 .. n + 1 /\ n + 1 \notin 1 .. n
  BY <1>2
<1>6. Due' = {i \in 1 .. n + 1 : AsksReply(read'[i]) /\ ~(calling' /\ i = n + 1)}
  BY <1>2 DEF Due, AsksReply
<1>7. Due' = IF AsksReply(l) /\ ~calling' THEN Due \cup {n + 1} ELSE Due
  BY <1>2, <1>4, <1>5, <1>6
<1>8. Replied(Due, read, replies) /\ Due \subseteq 1 .. n
  BY <1>1, <1>4 DEF McpInv
<1>9. Replied(Due, read', replies)
  BY <1>2, <1>8 DEF Replied
<1>. QED
  BY <1>2, <1>3, <1>7, <1>8, <1>9 DEF n

LEMMA SkipKeeps ==
  ASSUME McpInv, NEW l \in Lines, Skip(l), UNCHANGED evaluation
  PROVE  McpInv'
<1>1. /\ Reads(l) /\ Unanswered(l) /\ up /\ ~calling
      /\ stage' = stage /\ calling' = calling /\ replies' = replies /\ up' = up
      /\ command' = command
  BY DEF Skip, judge, evaluation, Reads
<1>2. ~AsksReply(l)
  BY <1>1, LineType DEF Unanswered, AsksReply
<1>3. /\ read' \in Seq(Lines) /\ Len(read') <= MaxLines /\ Due' = Due
      /\ Replied(Due, read', replies)
  BY <1>1, <1>2, ReadsOne
<1>. QED
  BY <1>1, <1>3 DEF McpInv

LEMMA AnswerKeeps ==
  ASSUME McpInv, NEW l \in Lines, Answer(l), UNCHANGED evaluation
  PROVE  McpInv'
<1>1. /\ Reads(l) /\ ~Unanswered(l) /\ up /\ ~calling
      /\ stage' = stage /\ calling' = calling /\ up' = up /\ command' = command
      /\ replies' = Append(replies, [id |-> l.id, status |-> StatusOf(l.what)])
  BY DEF Answer, Reply, judge, evaluation, Reads
<1>2. AsksReply(l)
  BY <1>1 DEF Unanswered, AsksReply
<1>3. PICK n, lines : n \in Nat /\ n = Len(read) /\ lines = read'
  BY <1>1, ReadsOne
<1>4. /\ lines \in Seq(Lines) /\ Len(lines) <= MaxLines /\ Due' = Due \cup {n + 1}
      /\ lines[n + 1] = l /\ Due \subseteq 1 .. n /\ Replied(Due, lines, replies)
  BY <1>1, <1>2, <1>3, ReadsOne
<1>5. PICK r \in Written : r = [id |-> l.id, status |-> StatusOf(l.what)]
  <2>1. StatusOf(l.what) \in {"result", "error", "tool error"}
    BY DEF StatusOf
  <2>2. l.id \in Ids \cup {NoId}
    BY LineType
  <2>3. [id |-> l.id, status |-> StatusOf(l.what)] \in Written
    BY <2>1, <2>2 DEF Written
  <2>. QED
    BY <2>3
<1>6. PICK D, reps : D = Due /\ reps = replies
  OBVIOUS
<1>7. Replied(D \cup {n + 1}, lines, Append(reps, r))
  <2>1. \A i \in D : i < n + 1
    BY <1>3, <1>4, <1>6
  <2>2. reps \in Seq(Written) /\ r.id = lines[n + 1].id
    BY <1>4, <1>5, <1>6 DEF McpInv
  <2>3. Replied(D, lines, reps) /\ D \subseteq 1 .. n /\ n + 1 \in Nat
    BY <1>3, <1>4, <1>6
  <2>. QED
    BY <1>3, <2>1, <2>2, <2>3, RepliedMore
<1>8. Append(reps, r) \in Seq(Written)
  BY <1>6 DEF McpInv
<1>. QED
  BY <1>1, <1>3, <1>4, <1>5, <1>6, <1>7, <1>8 DEF McpInv

LEMMA CallKeeps ==
  ASSUME McpInv, NEW l \in Lines, Call(l), UNCHANGED evaluation
  PROVE  McpInv'
<1>1. /\ Reads(l) /\ ~Unanswered(l) /\ up /\ ~calling
      /\ stage' = "parse" /\ calling' = TRUE /\ up' = up /\ command' = command
      /\ replies' = replies
  BY DEF Call, Judge, evaluation, Reads
<1>2. AsksReply(l)
  BY <1>1 DEF Unanswered, AsksReply
<1>3. /\ read' \in Seq(Lines) /\ Len(read') <= MaxLines /\ Due' = Due /\ read' # <<>>
      /\ Replied(Due, read', replies) /\ AsksReply(Last(read'))
  BY <1>1, <1>2, ReadsOne
<1>4. AsksReply(Last(read))'
  BY <1>3 DEF AsksReply
<1>. QED
  BY <1>1, <1>3, <1>4 DEF McpInv

LEMMA EndCallKeeps ==
  ASSUME McpInv, JudgeInv, EndCall, UNCHANGED evaluation
  PROVE  McpInv'
<1>1. /\ up /\ calling /\ stage = "done" /\ calling' = FALSE /\ read' = read /\ up' = up
      /\ stage' = "idle" /\ command' = command
      /\ replies' = Append(replies, [id |-> Last(read).id, status |-> Status])
  BY DEF EndCall, Reply, Forget, evaluation
<1>2. /\ read \in Seq(Lines) /\ replies \in Seq(Written) /\ read # <<>>
      /\ AsksReply(Last(read)) /\ Replied(Due, read, replies)
  BY <1>1 DEF McpInv
<1>3. PICK n, lines, D, reps :
         n \in Nat /\ n = Len(read) - 1 /\ lines = read /\ D = Due /\ reps = replies
  BY <1>2
<1>4. DOMAIN read = 1 .. n + 1 /\ Len(read) = n + 1
  BY <1>2, <1>3
<1>5. Last(read) = lines[n + 1] /\ Last(read) \in Lines
  BY <1>2, <1>3, <1>4 DEF Last
<1>6. D = {i \in 1 .. n : AsksReply(lines[i])}
  <2>1. Due = {i \in 1 .. n + 1 : AsksReply(lines[i]) /\ i # n + 1}
    BY <1>1, <1>3, <1>4 DEF Due
  <2>. QED
    BY <1>3, <2>1
<1>7. Due' = D \cup {n + 1}
  <2>1. Due' = {i \in 1 .. n + 1 : AsksReply(lines[i])}
    BY <1>1, <1>3, <1>4 DEF Due, AsksReply
  <2>. QED
    BY <1>2, <1>3, <1>5, <1>6, <2>1
<1>8. PICK r \in Written : r = [id |-> Last(read).id, status |-> Status]
  <2>1. Status \in {"result", "error", "tool error"}
    BY DEF Status
  <2>2. Last(read).id \in Ids \cup {NoId}
    BY <1>5, LineType
  <2>3. [id |-> Last(read).id, status |-> Status] \in Written
    BY <2>1, <2>2 DEF Written
  <2>. QED
    BY <2>3
<1>9. Replied(D \cup {n + 1}, lines, Append(reps, r))
  <2>1. \A i \in D : i < n + 1
    BY <1>3, <1>6
  <2>2. reps \in Seq(Written) /\ r.id = lines[n + 1].id
    BY <1>2, <1>3, <1>5, <1>8
  <2>3. Replied(D, lines, reps) /\ D \subseteq 1 .. n /\ n + 1 \in Nat
    BY <1>2, <1>3, <1>6
  <2>. QED
    BY <1>3, <2>1, <2>2, <2>3, RepliedMore
<1>10. Append(reps, r) \in Seq(Written)
  BY <1>2, <1>3
<1>11. Replied(Due', read', replies')
  BY <1>1, <1>3, <1>7, <1>8, <1>9
<1>. QED
  BY <1>1, <1>3, <1>8, <1>10, <1>11 DEF McpInv

\* What leaves the server as it is.
LEMMA McpRests ==
  ASSUME McpInv, UNCHANGED mcp, command' = command,
         up => (stage = "idle" <=> stage' = "idle")
  PROVE  McpInv'
<1>1. read' = read /\ calling' = calling /\ replies' = replies /\ up' = up
  BY DEF mcp
<1>2. Due' = Due /\ (AsksReply(Last(read))' <=> AsksReply(Last(read)))
  BY <1>1 DEF Due, AsksReply
<1>. QED
  BY <1>1, <1>2 DEF McpInv

LEMMA McpKeeps ==
  ASSUME CallersInv, [CallersNext]_<<vars, evaluation>>
  PROVE  McpInv'
<1>1. McpInv /\ JudgeInv
  BY DEF CallersInv
<1>2. CASE UNCHANGED <<vars, evaluation>>
  BY <1>1, <1>2, McpRests DEF vars, judge, evaluation
<1>3. CASE up /\ JudgeNext /\ UNCHANGED mcp /\ UNCHANGED evaluation
  <2>1. stage # "idle" /\ stage' # "idle"
    BY <1>3 DEF JudgeNext, Refuse, Render, Read, ReadFails, Return, Average, TooFew, Answered,
                End, Waiting, Returned
  <2>. QED
    BY <1>1, <1>3, <2>1, McpRests DEF evaluation
<1>4. CASE EndCall /\ UNCHANGED evaluation
  BY <1>1, <1>4, EndCallKeeps
<1>5. CASE Hangup /\ UNCHANGED evaluation
  <2>1. /\ ~up' /\ ~calling' /\ read' = read /\ replies' = replies
        /\ calling' \in BOOLEAN /\ up' \in BOOLEAN
    BY <1>5 DEF Hangup
  <2>. QED
    BY <1>1, <2>1 DEF McpInv
<1>6. ASSUME NEW l \in Lines, Skip(l) \/ Answer(l) \/ Call(l), UNCHANGED evaluation
      PROVE  McpInv'
  BY <1>1, <1>6, SkipKeeps, AnswerKeeps, CallKeeps
<1>7. CASE EvaluationNext /\ UNCHANGED mcp
  <2>1. command # "mcp" /\ command' = command
    BY <1>7 DEF EvaluationNext, OpenCase, CloseCase, HostedCase, Report, Running, evaluation
  <2>2. ~up
    BY <1>1, <2>1 DEF McpInv
  <2>. QED
    BY <1>1, <1>7, <2>1, <2>2, McpRests
<1>. QED
  BY <1>2, <1>3, <1>4, <1>5, <1>6, <1>7 DEF CallersNext, Next, Work

------------------------------------------------------------------------------
(* The rows of an evaluation.                                              *)

Kind == {"choice", "noul", "score", "unreadable"}
Row == [case : Nat, question : Nat, kind : Kind, probs : Seq(Nat), gold : Int]
Key(x) == <<x.case, x.question, x.gold>>
KeyOf == [x \in Row |-> Key(x)]

\* What the cases before the nth bring, but for those that failed.
Counts(nth, lost) == [c \in 1 .. nth - 1 |-> IF c \in lost THEN <<>> ELSE Labelled(c)]

Tallied ==
    /\ found \in Seq(Row) /\ failed \in Nat /\ case <= Len(file) + 1
    /\ \E lost \in kSubset(failed, 1 .. case - 1) :
          Mapped(KeyOf, found) = FlattenSeq(Counts(case, lost))

EvaluationInv ==
    /\ Tallied
    /\ verdict = "reported" => case = Len(file) + 1
    /\ verdict = "aborted" /\ command = "eval" => Unparsed(Asked(case)) \/ Unlabelled(case)
    /\ command = "eval" /\ stage # "idle" => request = Asked(case)

\* A case of a file.
LEMMA CaseType ==
  ASSUME file \in Files \cup {<<>>}, NEW c \in 1 .. Len(file)
  PROVE  /\ Asked(c) \in Seq(Question)
         /\ \A k \in DOMAIN Asked(c) : /\ Asked(c)[k] \in Question /\ Asked(c)[k].n \in Nat
                                       /\ Asked(c)[k].kind \in Kind /\ Gold(c, k) \in Int
<1> DEFINE Case == [questions : Seq(Question), gold : Seq(Int)]
<1>1. Files \subseteq Seq(Case)
  BY EvaluationAssumption
<1>2. \A f \in Files : \A d \in Range(f) : DOMAIN d.gold = DOMAIN d.questions
  BY EvaluationAssumption
<1>. HIDE DEF Case
<1>3. file \in Seq(Case)
  BY <1>1
<1>4. c \in DOMAIN file
  BY <1>3
<1>5. file[c] \in Case /\ file[c] \in Range(file) /\ file \in Files
  BY <1>3, <1>4 DEF Range
<1>6. /\ Asked(c) \in Seq(Question) /\ file[c].gold \in Seq(Int)
      /\ DOMAIN file[c].gold = DOMAIN Asked(c)
  BY <1>2, <1>5 DEF Case, Asked
<1>7. ASSUME NEW k \in DOMAIN Asked(c)
      PROVE  /\ Asked(c)[k] \in Question /\ Asked(c)[k].n \in Nat
             /\ Asked(c)[k].kind \in Kind /\ Gold(c, k) \in Int
  <2>1. Asked(c)[k] \in Question
    BY <1>6
  <2>2. file[c].gold[k] \in Int
    BY <1>6
  <2>. QED
    BY <2>1, <2>2 DEF Question, Kind, Gold
<1>. QED
  BY <1>6, <1>7

LEMMA OneAlone ==
  ASSUME NEW S, NEW x \in S
  PROVE  <<x>> \in Seq(S) /\ Len(<<x>>) = 1 /\ <<x>>[1] = x
OBVIOUS

\* Sequences of sequences, by their places.
LEMMA SeqOfSeqs ==
  ASSUME NEW S, NEW m \in Nat, NEW ss, ss = [k \in 1 .. m |-> ss[k]],
         \A k \in 1 .. m : ss[k] \in Seq(S)
  PROVE  ss \in Seq(Seq(S)) /\ Len(ss) = m
<1>1. PICK T : T = Seq(S)
  OBVIOUS
<1>2. ss \in [1 .. m -> T]
  BY <1>1
<1>3. ss \in Seq(T) /\ Len(ss) = m
  BY <1>2
<1>. QED
  BY <1>1, <1>3

\* The rows of a case are those of its labelled questions.
LEMMA RowsCounted ==
  ASSUME file \in Files \cup {<<>>}, NEW c \in 1 .. Len(file), NEW probs,
         DOMAIN probs = DOMAIN Asked(c), \A k \in DOMAIN probs : probs[k] \in Seq(Nat)
  PROVE  /\ RowsOf(c, probs) \in Seq(Row)
         /\ Labelled(c) = Mapped(KeyOf, RowsOf(c, probs))
         /\ Labelled(c) \in Seq(Nat \X Nat \X Int)
<1> DEFINE row(k) == [case |-> c, question |-> k, kind |-> Asked(c)[k].kind,
                      probs |-> probs[k], gold |-> Gold(c, k)]
<1>1. PICK m \in Nat : DOMAIN Asked(c) = 1 .. m
  <2>1. Asked(c) \in Seq(Question)
    BY CaseType
  <2>2. Len(Asked(c)) \in Nat /\ DOMAIN Asked(c) = 1 .. Len(Asked(c))
    BY <2>1
  <2>. QED
    BY <2>2
<1>0. PICK T : T = Nat \X Nat \X Int
  OBVIOUS
<1>2. c \in Nat
  OBVIOUS
<1>3. ASSUME NEW k \in 1 .. m
      PROVE  /\ row(k) \in Row /\ <<c, k, Gold(c, k)>> \in T
             /\ KeyOf[row(k)] = <<c, k, Gold(c, k)>>
  <2>1. Asked(c)[k].kind \in Kind /\ Gold(c, k) \in Int /\ probs[k] \in Seq(Nat) /\ k \in Nat
    BY <1>1, CaseType
  <2>2. row(k) \in Row
    BY <1>2, <2>1 DEF Row
  <2>3. <<c, k, Gold(c, k)>> \in T
    BY <1>0, <1>2, <2>1
  <2>. QED
    BY <2>2, <2>3 DEF KeyOf, Key
<1>4. PICK ss, tt :
         /\ ss = [k \in 1 .. m |-> IF Gold(c, k) = NoGold THEN <<>> ELSE <<row(k)>>]
         /\ tt = [k \in 1 .. m |-> IF Gold(c, k) = NoGold THEN <<>>
                                   ELSE << <<c, k, Gold(c, k)>> >>]
  OBVIOUS
<1>5. RowsOf(c, probs) = FlattenSeq(ss) /\ Labelled(c) = FlattenSeq(tt)
  BY <1>1, <1>4 DEF RowsOf, Labelled
<1>. HIDE DEF row
<1>6. ASSUME NEW k \in 1 .. m
      PROVE  /\ ss[k] \in Seq(Row) /\ tt[k] \in Seq(T) /\ Len(tt[k]) = Len(ss[k])
             /\ \A r \in 1 .. Len(ss[k]) : tt[k][r] = KeyOf[ss[k][r]]
  <2>1. PICK x \in Row, y \in T : x = row(k) /\ y = <<c, k, Gold(c, k)>> /\ KeyOf[x] = y
    BY <1>3
  <2>2. CASE Gold(c, k) = NoGold
    BY <1>4, <2>2
  <2>3. CASE Gold(c, k) # NoGold
    <3>1. ss[k] = <<x>> /\ tt[k] = <<y>>
      BY <1>4, <2>1, <2>3
    <3>2. PICK A, f : A = Row /\ f = KeyOf
      OBVIOUS
    <3>3. x \in A /\ y \in T /\ f[x] = y
      BY <2>1, <3>2
    <3>4. <<x>> \in Seq(A) /\ <<y>> \in Seq(T) /\ Len(<<x>>) = 1 /\ Len(<<y>>) = 1
      BY <3>3, OneAlone
    <3>5. \A r \in 1 .. 1 : <<y>>[r] = f[<<x>>[r]]
      BY <3>3
    <3>. QED
      BY <3>1, <3>2, <3>4, <3>5
  <2>. QED
    BY <2>2, <2>3
<1>7. /\ ss \in Seq(Seq(Row)) /\ tt \in Seq(Seq(T)) /\ Len(ss) = Len(tt) /\ DOMAIN ss = 1 .. m
  <2>1. ss = [k \in 1 .. m |-> ss[k]] /\ tt = [k \in 1 .. m |-> tt[k]]
    BY <1>4
  <2>2. ss \in Seq(Seq(Row)) /\ Len(ss) = m
    BY <1>6, <2>1, SeqOfSeqs
  <2>3. tt \in Seq(Seq(T)) /\ Len(tt) = m
    BY <1>6, <2>1, SeqOfSeqs
  <2>4. DOMAIN ss = 1 .. m
    BY <1>4
  <2>. QED
    BY <2>2, <2>3, <2>4
<1>8. FlattenSeq(tt) = Mapped(KeyOf, FlattenSeq(ss))
  <2>1. PICK A, f : A = Row /\ f = KeyOf
    OBVIOUS
  <2>2. AllMapped(f, ss, tt)
    BY <1>6, <1>7, <2>1 DEF AllMapped
  <2>3. ss \in Seq(Seq(A)) /\ tt \in Seq(Seq(T)) /\ Len(ss) = Len(tt)
    BY <1>7, <2>1
  <2>5. FlattenSeq(tt) = Mapped(f, FlattenSeq(ss))
    BY <2>2, <2>3, FlattenMap
  <2>. QED
    BY <2>1, <2>5
<1>9. FlattenSeq(ss) \in Seq(Row) /\ FlattenSeq(tt) \in Seq(T)
  BY <1>7, FlattenAt
<1>. QED
  BY <1>0, <1>5, <1>8, <1>9

\* Rows that come after the others.
LEMMA KeysAppend ==
  ASSUME NEW a \in Seq(Row), NEW b \in Seq(Row)
  PROVE  /\ a \o b \in Seq(Row)
         /\ Mapped(KeyOf, a \o b) = Mapped(KeyOf, a) \o Mapped(KeyOf, b)
<1> DEFINE c == a \o b
           T == {Key(x) : x \in Row}
           f == [i \in DOMAIN a |-> KeyOf[a[i]]]
           g == [i \in DOMAIN b |-> KeyOf[b[i]]]
           h == [i \in DOMAIN c |-> KeyOf[c[i]]]
<1>1. PICK l \in Nat, m \in Nat : l = Len(a) /\ m = Len(b)
  OBVIOUS
<1>2. /\ c \in Seq(Row) /\ Len(c) = l + m
      /\ \A i \in 1 .. l + m : c[i] = IF i <= l THEN a[i] ELSE b[i - l]
  BY <1>1, ConcatProperties
<1>3. DOMAIN a = 1 .. l /\ DOMAIN b = 1 .. m /\ DOMAIN c = 1 .. l + m
  BY <1>1, <1>2
<1>4. \A x \in Row : KeyOf[x] \in T
  BY DEF KeyOf
<1>. HIDE DEF T, c
<1>5. f \in Seq(T) /\ g \in Seq(T) /\ Len(f) = l /\ Len(g) = m
  <2>1. \A i \in 1 .. l : KeyOf[a[i]] \in T
    BY <1>3, <1>4
  <2>2. \A i \in 1 .. m : KeyOf[b[i]] \in T
    BY <1>3, <1>4
  <2>. QED
    BY <1>3, <2>1, <2>2
<1>6. /\ \A i \in 1 .. l : f[i] = KeyOf[a[i]]
      /\ \A i \in 1 .. m : g[i] = KeyOf[b[i]]
      /\ \A i \in 1 .. l + m : h[i] = KeyOf[c[i]]
      /\ h = [i \in 1 .. l + m |-> h[i]]
  BY <1>3
<1>. HIDE DEF f, g, h
<1>7. PICK d \in Seq(T) : d = f \o g
  BY <1>5, ConcatProperties
<1>8. /\ Len(d) = l + m
      /\ \A i \in 1 .. l + m : d[i] = IF i <= l THEN f[i] ELSE g[i - l]
  BY <1>5, <1>7, ConcatProperties
<1>9. ASSUME NEW i \in 1 .. l + m PROVE h[i] = d[i]
  <2>1. CASE i <= l
    <3>1. i \in 1 .. l
      BY <2>1
    <3>. QED
      BY <1>2, <1>6, <1>8, <2>1, <3>1
  <2>2. CASE ~(i <= l)
    <3>1. i - l \in 1 .. m
      BY <2>2
    <3>2. d[i] = g[i - l] /\ c[i] = b[i - l]
      BY <1>2, <1>8, <2>2
    <3>3. g[i - l] = KeyOf[b[i - l]] /\ h[i] = KeyOf[c[i]]
      BY <1>6, <3>1
    <3>. QED
      BY <3>2, <3>3
  <2>. QED
    BY <2>1, <2>2
<1>10. d = [i \in 1 .. l + m |-> d[i]]
  BY <1>8
<1>11. h = d
  BY <1>6, <1>9, <1>10
<1>. QED
  BY <1>2, <1>7, <1>11 DEF c, f, g, h, Mapped

LEMMA Bounded ==
  ASSUME NEW m \in Nat, NEW s, \A i \in 1 .. m : s[i] \in Nat
  PROVE  \E b \in Nat : \A i \in 1 .. m : s[i] <= b
<1> DEFINE S == {j \in Nat : j <= m => \E b \in Nat : \A i \in 1 .. j : s[i] <= b}
<1>1. 0 \in S
  OBVIOUS
<1>2. ASSUME NEW j \in Nat, j >= 0, j \in S PROVE j + 1 \in S
  <2>. SUFFICES ASSUME j + 1 <= m PROVE \E b \in Nat : \A i \in 1 .. j + 1 : s[i] <= b
    OBVIOUS
  <2>1. PICK b \in Nat : \A i \in 1 .. j : s[i] <= b
    BY <1>2
  <2>2. PICK c \in Nat : c = s[j + 1]
    OBVIOUS
  <2>3. b + c \in Nat /\ \A i \in 1 .. j + 1 : s[i] <= b + c
    <3>1. ASSUME NEW i \in 1 .. j + 1 PROVE s[i] <= b + c
      <4>1. s[i] \in Nat
        OBVIOUS
      <4>2. CASE i = j + 1
        BY <2>2, <4>2
      <4>3. CASE i # j + 1
        <5>1. i \in 1 .. j
          BY <4>3
        <5>. QED
          BY <2>1, <4>1, <5>1
      <4>. QED
        BY <4>2, <4>3
    <3>. QED
      BY <3>1
  <2>. QED
    BY <2>3
<1>. HIDE DEF S
<1>3. m \in S
  BY <1>1, <1>2, Induction
<1>. QED
  BY <1>3 DEF S

\* The hosted Jev's weights for each option of a question are among those for
\* the widest, and their softmax is a distribution of parts.
LEMMA HostedParts ==
  ASSUME file \in Files \cup {<<>>}, NEW c \in 1 .. Len(file), NEW k \in DOMAIN Asked(c),
         NEW w \in [1 .. Widest(c) -> Weights]
  PROVE  Softmax(SubSeq(w, 1, Asked(c)[k].n)) \in Seq(Nat)
<1> DEFINE N == {Asked(c)[l].n : l \in DOMAIN Asked(c)}
<1>1. PICK m \in Nat : DOMAIN Asked(c) = 1 .. m
  <2>1. Asked(c) \in Seq(Question)
    BY CaseType
  <2>2. Len(Asked(c)) \in Nat /\ DOMAIN Asked(c) = 1 .. Len(Asked(c))
    BY <2>1
  <2>. QED
    BY <2>2
<1>2. \A l \in 1 .. m : Asked(c)[l].n \in Nat
  BY <1>1, CaseType
<1>3. PICK b \in Nat : \A x \in N : x \in Nat /\ x <= b
  <2> DEFINE s == [l \in 1 .. m |-> Asked(c)[l].n]
  <2>1. \A l \in 1 .. m : s[l] \in Nat /\ s[l] = Asked(c)[l].n
    BY <1>2
  <2>. HIDE DEF s
  <2>2. PICK b \in Nat : \A l \in 1 .. m : s[l] <= b
    BY <2>1, Bounded
  <2>. QED
    BY <1>1, <1>2, <2>1, <2>2
<1>4. PICK n \in Nat : n = Asked(c)[k].n /\ n \in N
  BY <1>1, <1>2
<1>. HIDE DEF N
<1>5. Max(N) \in N /\ \A y \in N : Max(N) >= y
  <2>1. N \subseteq 0 .. b /\ N # {}
    BY <1>3, <1>4
  <2>. QED
    BY <2>1, MaxOfNaturals
<1>6. PICK x \in Nat : x = Widest(c) /\ n <= x
  BY <1>3, <1>4, <1>5 DEF Widest, N
<1>7. w \in [1 .. x -> Weights] /\ \A i \in 1 .. n : i \in 1 .. x
  BY <1>6
<1>8. SubSeq(w, 1, n) \in [1 .. n -> Weights]
  <2>1. SubSeq(w, 1, n) = [i \in 1 .. n |-> w[i]]
    <3>1. w \in Seq(Weights) /\ Len(w) = x
      BY <1>7
    <3>. QED
      BY <1>6, <3>1
  <2>. QED
    BY <1>7, <2>1
<1>9. Softmax(SubSeq(w, 1, n)) \in [1 .. n -> Nat]
  BY <1>8, SoftmaxType
<1>. QED
  BY <1>4, <1>9

IsMore(s, x, n, t) == t = [i \in 1 .. n |-> IF i = n THEN x ELSE s[i]]

LEMMA AppendIsMore ==
  ASSUME NEW S, NEW s \in Seq(S), NEW x \in S, NEW n, NEW t,
         n = Len(s) + 1, IsMore(s, x, n, t)
  PROVE  t = Append(s, x)
<1>1. PICK a \in Seq(S) : a = Append(s, x)
  BY AppendProperties
<1>2. /\ Len(a) = n /\ n \in Nat
      /\ \A i \in 1 .. n : a[i] = IF i = n THEN x ELSE s[i]
  BY <1>1, AppendProperties
<1>3. a = [i \in 1 .. n |-> a[i]]
  BY <1>2
<1>. QED
  BY <1>1, <1>2, <1>3 DEF IsMore

LEMMA CountsType ==
  ASSUME file \in Files \cup {<<>>}, NEW nth \in Nat \ {0}, nth <= Len(file) + 1, NEW lost
  PROVE  Counts(nth, lost) \in Seq(Seq(Nat \X Nat \X Int)) /\ Len(Counts(nth, lost)) = nth - 1
<1>1. Len(file) \in Nat
  BY EvaluationAssumption
<1>2. PICK T : T = Nat \X Nat \X Int
  OBVIOUS
<1>3. ASSUME NEW c \in 1 .. Len(file) PROVE Labelled(c) \in Seq(T)
  <2>1. PICK probs : probs = [k \in DOMAIN Asked(c) |-> <<>>]
    OBVIOUS
  <2>2. DOMAIN probs = DOMAIN Asked(c) /\ \A k \in DOMAIN probs : probs[k] \in Seq(Nat)
    BY <2>1
  <2>. QED
    BY <1>2, <2>2, RowsCounted
<1>4. PICK ss : ss = Counts(nth, lost)
  OBVIOUS
<1>5. ASSUME NEW c \in 1 .. nth - 1 PROVE ss[c] \in Seq(T)
  <2>1. c \in 1 .. Len(file)
    BY <1>1
  <2>2. ss[c] = IF c \in lost THEN <<>> ELSE Labelled(c)
    BY <1>4 DEF Counts
  <2>. QED
    BY <1>3, <2>1, <2>2
<1>6. ss = [c \in 1 .. nth - 1 |-> ss[c]] /\ nth - 1 \in Nat
  BY <1>4 DEF Counts
<1>7. ss \in Seq(Seq(T)) /\ Len(ss) = nth - 1
  BY <1>5, <1>6, SeqOfSeqs
<1>. QED
  BY <1>2, <1>4, <1>7

\* One case more brings its rows, or fails.
LEMMA CountsMore ==
  ASSUME file \in Files \cup {<<>>}, NEW nth \in Nat \ {0}, nth <= Len(file),
         NEW lost \in SUBSET (1 .. nth - 1)
  PROVE  /\ FlattenSeq(Counts(nth + 1, lost)) = FlattenSeq(Counts(nth, lost)) \o Labelled(nth)
         /\ FlattenSeq(Counts(nth + 1, lost \cup {nth})) = FlattenSeq(Counts(nth, lost))
<1>1. Len(file) \in Nat
  BY EvaluationAssumption
<1>2. PICK T : T = Nat \X Nat \X Int
  OBVIOUS
<1>3. PICK ss, kept, more :
         /\ ss = Counts(nth, lost) /\ kept = Counts(nth + 1, lost)
         /\ more = Counts(nth + 1, lost \cup {nth})
  OBVIOUS
<1>4. ss \in Seq(Seq(T)) /\ Len(ss) = nth - 1
  BY <1>1, <1>2, <1>3, CountsType
<1>5. PICK x : x = Labelled(nth)
  OBVIOUS
<1>6. x \in Seq(T)
  <2>1. PICK probs : probs = [k \in DOMAIN Asked(nth) |-> <<>>]
    OBVIOUS
  <2>2. DOMAIN probs = DOMAIN Asked(nth) /\ \A k \in DOMAIN probs : probs[k] \in Seq(Nat)
    BY <2>1
  <2>3. nth \in 1 .. Len(file)
    BY <1>1
  <2>. QED
    BY <1>2, <1>5, <2>2, <2>3, RowsCounted
<1>7. /\ kept = [c \in 1 .. nth |-> IF c = nth THEN x ELSE ss[c]]
      /\ more = [c \in 1 .. nth |-> IF c = nth THEN <<>> ELSE ss[c]]
  <2>1. (nth + 1) - 1 = nth /\ \A c \in 1 .. nth : c # nth <=> c \in 1 .. nth - 1
    OBVIOUS
  <2>2. \A c \in 1 .. nth - 1 : ss[c] = IF c \in lost THEN <<>> ELSE Labelled(c)
    BY <1>3 DEF Counts
  <2>3. kept = [c \in 1 .. nth |-> IF c = nth THEN x ELSE ss[c]]
    BY <1>3, <1>5, <2>1, <2>2 DEF Counts
  <2>4. more = [c \in 1 .. nth |-> IF c = nth THEN <<>> ELSE ss[c]]
    BY <1>3, <2>1, <2>2 DEF Counts
  <2>. QED
    BY <2>3, <2>4, Zenon
<1>8. PICK U : U = Seq(T)
  OBVIOUS
<1>9. kept = Append(ss, x) /\ more = Append(ss, <<>>)
  <2>1. ss \in Seq(U) /\ x \in U /\ <<>> \in U /\ Len(ss) + 1 = nth
    BY <1>4, <1>6, <1>8
  <2>2. IsMore(ss, x, nth, kept) /\ IsMore(ss, <<>>, nth, more)
    BY <1>7 DEF IsMore
  <2>3. kept = Append(ss, x)
    BY <2>1, <2>2, AppendIsMore
  <2>4. more = Append(ss, <<>>)
    BY <2>1, <2>2, AppendIsMore
  <2>. QED
    BY <2>3, <2>4, Zenon
<1>10. FlattenSeq(kept) = FlattenSeq(ss) \o x /\ FlattenSeq(more) = FlattenSeq(ss) \o <<>>
  <2>1. FlattenSeq(Append(ss, x)) = FlattenSeq(ss) \o x
    BY <1>4, <1>6, FlattenAppend
  <2>2. FlattenSeq(Append(ss, <<>>)) = FlattenSeq(ss) \o <<>>
    <3>1. <<>> \in Seq(T)
      OBVIOUS
    <3>. QED
      BY <1>4, <3>1, FlattenAppend
  <2>. QED
    BY <1>9, <2>1, <2>2, Zenon
<1>11. FlattenSeq(ss) \in Seq(T)
  BY <1>4, FlattenAt
<1>12. FlattenSeq(ss) \o <<>> = FlattenSeq(ss)
  BY <1>11
<1>. QED
  BY <1>3, <1>5, <1>10, <1>12

\* A case whose rows are kept, and a case that failed.
LEMMA RowsTallied ==
  ASSUME FileInv, Tallied, case <= Len(file), NEW probs,
         DOMAIN probs = DOMAIN Asked(case), \A k \in DOMAIN probs : probs[k] \in Seq(Nat),
         found' = found \o RowsOf(case, probs), case' = case + 1, failed' = failed,
         file' = file
  PROVE  Tallied'
<1>1. /\ file \in Files \cup {<<>>} /\ found \in Seq(Row) /\ failed \in Nat
      /\ Len(file) \in Nat
  BY EvaluationAssumption DEF FileInv, Tallied
<1>2. PICK nth \in Nat \ {0} : nth = case
  BY DEF FileInv
<1>3. nth \in 1 .. Len(file) /\ nth <= Len(file)
  BY <1>1, <1>2
<1>4. PICK lost \in SUBSET (1 .. nth - 1) :
         /\ Cardinality(lost) = failed
         /\ Mapped(KeyOf, found) = FlattenSeq(Counts(nth, lost))
  BY <1>2 DEF Tallied, kSubset
<1>5. PICK a, b : a = found /\ b = RowsOf(nth, probs)
  OBVIOUS
<1>6. b \in Seq(Row) /\ Labelled(nth) = Mapped(KeyOf, b)
  BY <1>1, <1>2, <1>3, <1>5, RowsCounted
<1>7. a \o b \in Seq(Row) /\ Mapped(KeyOf, a \o b) = Mapped(KeyOf, a) \o Mapped(KeyOf, b)
  BY <1>1, <1>5, <1>6, KeysAppend
<1>8. FlattenSeq(Counts(nth + 1, lost)) = FlattenSeq(Counts(nth, lost)) \o Labelled(nth)
  BY <1>1, <1>3, CountsMore
<1>9. Mapped(KeyOf, a \o b) = FlattenSeq(Counts(nth + 1, lost))
  BY <1>4, <1>5, <1>6, <1>7, <1>8, Zenon
<1>10. found' = a \o b /\ case' = nth + 1
  BY <1>2, <1>5
<1>11. Counts(case, lost)' = Counts(nth + 1, lost)
  BY <1>10 DEF Counts, Labelled, Asked, Gold
<1>12. lost \in kSubset(failed', 1 .. case' - 1)
  <2>1. (nth + 1) - 1 = nth /\ lost \subseteq 1 .. nth
    BY <1>4
  <2>. QED
    BY <1>4, <1>10, <2>1 DEF kSubset
<1>13. found' \in Seq(Row) /\ failed' \in Nat /\ case' <= Len(file') + 1
  BY <1>1, <1>3, <1>7, <1>10
<1>14. Mapped(KeyOf, found') = FlattenSeq(Counts(case, lost)')
  BY <1>9, <1>10, <1>11, Zenon
<1>. QED
  BY <1>12, <1>13, <1>14 DEF Tallied

LEMMA FailureTallied ==
  ASSUME FileInv, Tallied, case <= Len(file), CountFailed, file' = file
  PROVE  Tallied'
<1>1. /\ file \in Files \cup {<<>>} /\ found \in Seq(Row) /\ failed \in Nat
      /\ Len(file) \in Nat
  BY EvaluationAssumption DEF FileInv, Tallied
<1>2. PICK nth \in Nat \ {0} : nth = case
  BY DEF FileInv
<1>3. /\ found' = found /\ case' = nth + 1 /\ failed' = failed + 1
      /\ nth <= Len(file)
  BY <1>2 DEF CountFailed
<1>4. PICK lost \in SUBSET (1 .. nth - 1) :
         /\ Cardinality(lost) = failed
         /\ Mapped(KeyOf, found) = FlattenSeq(Counts(nth, lost))
  BY <1>2 DEF Tallied, kSubset
<1>5. PICK more : more = lost \cup {nth}
  OBVIOUS
<1>6. FlattenSeq(Counts(nth + 1, more)) = FlattenSeq(Counts(nth, lost))
  BY <1>1, <1>3, <1>5, CountsMore
<1>7. Counts(case, more)' = Counts(nth + 1, more)
  BY <1>3 DEF Counts, Labelled, Asked, Gold
<1>8. more \in kSubset(failed', 1 .. case' - 1)
  <2>1. (nth + 1) - 1 = nth /\ nth \notin lost /\ more \subseteq 1 .. nth
    BY <1>5
  <2>2. IsFiniteSet(lost)
    <3>1. IsFiniteSet(1 .. nth - 1)
      BY FS_Interval
    <3>. QED
      BY <3>1, FS_Subset
  <2>3. Cardinality(more) = failed + 1
    BY <1>4, <1>5, <2>1, <2>2, FS_AddElement
  <2>. QED
    BY <1>3, <2>1, <2>3 DEF kSubset
<1>9. found' \in Seq(Row) /\ failed' \in Nat /\ case' <= Len(file') + 1
  BY <1>1, <1>3
<1>10. Mapped(KeyOf, found') = FlattenSeq(Counts(case, more)')
  BY <1>3, <1>4, <1>6, <1>7, Zenon
<1>. QED
  BY <1>8, <1>9, <1>10 DEF Tallied

LEMMA SameTally ==
  ASSUME Tallied, UNCHANGED <<file, case, found, failed>>
  PROVE  Tallied'
<1>1. \A lost : Counts(case, lost)' = Counts(case, lost)
  BY DEF Counts, Labelled, Asked, Gold
<1>. QED
  BY <1>1 DEF Tallied

LEMMA EvaluationStarts == CallersInit => EvaluationInv
<1>1. SUFFICES ASSUME CallersInit PROVE EvaluationInv
  OBVIOUS
<1>2. /\ file \in Files \cup {<<>>} /\ case = 1 /\ found = <<>> /\ failed = 0
      /\ verdict = "running" /\ stage = "idle"
  BY <1>1 DEF CallersInit, EvaluationInit, Init, JudgeInit
<1>3. Len(file) \in Nat
  BY <1>2, EvaluationAssumption
<1>4. {} \in kSubset(failed, 1 .. case - 1)
  BY <1>2, FS_EmptySet DEF kSubset
<1>5. Mapped(KeyOf, found) = <<>>
  BY <1>2 DEF Mapped
<1>6. FlattenSeq(Counts(case, {})) = <<>>
  <2>1. Counts(case, {}) = <<>>
    BY <1>2 DEF Counts
  <2>2. PICK ss \in Seq(Seq(Nat)), F \in Seq(Nat) : ss = <<>> /\ F = FlattenSeq(ss)
    <3>1. <<>> \in Seq(Seq(Nat))
      OBVIOUS
    <3>. QED
      BY <3>1, FlattenAt
  <2>3. DOMAIN ss = {}
    BY <2>2
  <2>4. \A j \in 1 .. Len(F) : FALSE
    BY <2>2, <2>3, FlattenAt
  <2>5. Len(F) = 0
    BY <2>4
  <2>. QED
    BY <2>1, <2>2, <2>5
<1>7. Tallied
  BY <1>2, <1>3, <1>4, <1>5, <1>6 DEF Tallied
<1>. QED
  BY <1>2, <1>7 DEF EvaluationInv

\* A case ends with its rows, or with the file's fault.
LEMMA KeepRowsKeeps ==
  ASSUME FileInv, EvaluationInv, case <= Len(file), verdict = "running", NEW probs,
         DOMAIN probs = DOMAIN Asked(case), \A k \in DOMAIN probs : probs[k] \in Seq(Nat),
         KeepRows(probs), command = "eval" => stage' = "idle", file' = file, command' = command
  PROVE  EvaluationInv'
<1>1. CASE Unlabelled(case)
  <2>1. UNCHANGED <<file, case, found, failed>> /\ verdict' = "aborted"
    BY <1>1 DEF KeepRows, Abort
  <2>2. Tallied'
    BY <2>1, SameTally DEF EvaluationInv
  <2>3. Unlabelled(case)'
    BY <1>1, <2>1 DEF Unlabelled, Asked, Gold
  <2>. QED
    BY <2>1, <2>2, <2>3 DEF EvaluationInv
<1>2. CASE ~Unlabelled(case)
  <2>1. /\ found' = found \o RowsOf(case, probs) /\ case' = case + 1 /\ failed' = failed
        /\ verdict' = "running"
    BY <1>2 DEF KeepRows
  <2>2. Tallied'
    BY <2>1, RowsTallied DEF EvaluationInv
  <2>. QED
    BY <2>1, <2>2 DEF EvaluationInv
<1>. QED
  BY <1>1, <1>2

LEMMA CountFailedKeeps ==
  ASSUME FileInv, EvaluationInv, case <= Len(file), verdict = "running", CountFailed,
         command = "eval" => stage' = "idle", file' = file, command' = command
  PROVE  EvaluationInv'
<1>1. Tallied' /\ verdict' = "running"
  BY FailureTallied DEF EvaluationInv, CountFailed
<1>. QED
  BY <1>1 DEF EvaluationInv

\* What leaves the rows and the file as they are.
LEMMA EvaluationRests ==
  ASSUME EvaluationInv, UNCHANGED <<file, case, found, failed, command>>,
         verdict' = verdict,
         command = "eval" /\ stage' # "idle" => stage # "idle" /\ request' = request
  PROVE  EvaluationInv'
<1>1. Tallied'
  BY SameTally DEF EvaluationInv
<1>2. Unparsed(Asked(case))' = Unparsed(Asked(case)) /\ Unlabelled(case)' = Unlabelled(case)
      /\ Asked(case)' = Asked(case)
  BY DEF Unparsed, Malformed, Unlabelled, Asked, Gold
<1>. QED
  BY <1>1, <1>2 DEF EvaluationInv

LEMMA OpenCaseKeeps ==
  ASSUME EvaluationInv, OpenCase
  PROVE  EvaluationInv'
<1>1. /\ UNCHANGED <<file, case, found, failed, command>> /\ stage = "idle"
      /\ verdict = "running"
  BY DEF OpenCase, Abort, Running
<1>2. Tallied'
  BY <1>1, SameTally DEF EvaluationInv
<1>3. Unparsed(Asked(case))' = Unparsed(Asked(case)) /\ Asked(case)' = Asked(case)
  BY <1>1 DEF Unparsed, Malformed, Asked
<1>4. CASE Unparsed(Asked(case))
  <2>1. verdict' = "aborted" /\ stage' = stage
    BY <1>4 DEF OpenCase, Abort, judge
  <2>. QED
    BY <1>1, <1>2, <1>3, <1>4, <2>1 DEF EvaluationInv
<1>5. CASE ~Unparsed(Asked(case))
  <2>1. verdict' = "running" /\ request' = Asked(case)
    BY <1>1, <1>5 DEF OpenCase, Judge
  <2>. QED
    BY <1>2, <1>3, <2>1 DEF EvaluationInv
<1>. QED
  BY <1>4, <1>5

LEMMA CloseCaseKeeps ==
  ASSUME CallersInv, EvaluationInv, CloseCase
  PROVE  EvaluationInv'
<1>1. /\ FileInv /\ JudgeInv /\ case <= Len(file) /\ verdict = "running" /\ stage = "done"
      /\ stage' = "idle" /\ file' = file /\ command' = command /\ command = "eval"
  BY DEF CallersInv, CloseCase, Running, Forget
<1>2. CASE outcome = "answered"
  <2>1. PICK probs : probs = [k \in DOMAIN raws |-> raws[k].mean]
    OBVIOUS
  <2>2. KeepRows(probs)
    BY <1>2, <2>1 DEF CloseCase
  <2>3. RawsFit /\ request = Asked(case) /\ request \in Seq(Question)
    BY <1>1, <1>2 DEF JudgeInv, Averaging, Done, EvaluationInv
  <2>4. ASSUME NEW k \in DOMAIN request PROVE raws[k].mean \in Seq(Nat)
    <3>1. request[k] \in Question
      BY <2>3
    <3>2. PICK n \in Nat : n = request[k].n
      BY <3>1 DEF Question
    <3>3. raws[k].mean \in [1 .. n -> Nat]
      BY <2>3, <3>2 DEF RawsFit
    <3>. QED
      BY <3>3
  <2>5. DOMAIN probs = DOMAIN Asked(case) /\ \A k \in DOMAIN probs : probs[k] \in Seq(Nat)
    BY <2>1, <2>3, <2>4 DEF RawsFit
  <2>. QED
    BY <1>1, <2>2, <2>5, KeepRowsKeeps
<1>3. CASE outcome # "answered"
  <2>1. CountFailed
    BY <1>3 DEF CloseCase
  <2>. QED
    BY <1>1, <2>1, CountFailedKeeps
<1>. QED
  BY <1>2, <1>3

LEMMA HostedCaseKeeps ==
  ASSUME CallersInv, EvaluationInv, HostedCase
  PROVE  EvaluationInv'
<1>1. /\ FileInv /\ case <= Len(file) /\ verdict = "running" /\ stage' = stage
      /\ file' = file /\ command' = command /\ command = "jev"
  BY DEF CallersInv, HostedCase, Running, judge
<1>2. CASE Abort
  <2>1. UNCHANGED <<file, case, found, failed>> /\ verdict' = "aborted"
    BY <1>1, <1>2 DEF Abort
  <2>2. Tallied'
    BY <2>1, SameTally DEF EvaluationInv
  <2>. QED
    BY <1>1, <2>1, <2>2 DEF EvaluationInv
<1>3. CASE CountFailed
  BY <1>1, <1>3, CountFailedKeeps
<1>4. ASSUME NEW w \in [DOMAIN Asked(case) -> [1 .. Widest(case) -> Weights]],
             KeepRows([k \in DOMAIN w |-> Softmax(SubSeq(w[k], 1, Asked(case)[k].n))])
      PROVE  EvaluationInv'
  <2>1. PICK probs : probs = [k \in DOMAIN w |-> Softmax(SubSeq(w[k], 1, Asked(case)[k].n))]
    OBVIOUS
  <2>2. PICK c \in 1 .. Len(file) : c = case
    BY <1>1, EvaluationAssumption DEF FileInv
  <2>3. ASSUME NEW k \in DOMAIN Asked(c) PROVE probs[k] \in Seq(Nat)
    <3>1. PICK v \in [1 .. Widest(c) -> Weights] : v = w[k]
      BY <2>2
    <3>2. Softmax(SubSeq(v, 1, Asked(c)[k].n)) \in Seq(Nat)
      BY <1>1, HostedParts DEF FileInv
    <3>. QED
      BY <2>1, <2>2, <3>1, <3>2
  <2>4. DOMAIN probs = DOMAIN Asked(case) /\ \A k \in DOMAIN probs : probs[k] \in Seq(Nat)
    BY <2>1, <2>2, <2>3
  <2>5. KeepRows(probs)
    BY <1>4, <2>1
  <2>. QED
    BY <1>1, <2>4, <2>5, KeepRowsKeeps
<1>. QED
  BY <1>2, <1>3, <1>4 DEF HostedCase

LEMMA ReportKeeps ==
  ASSUME FileInv, EvaluationInv, Report
  PROVE  EvaluationInv'
<1>1. /\ UNCHANGED <<file, case, found, failed, command>> /\ verdict' = "reported"
      /\ stage' = stage /\ stage = "idle" /\ case > Len(file)
  BY DEF Report, judge
<1>2. Tallied'
  BY <1>1, SameTally DEF EvaluationInv
<1>3. case = Len(file) + 1
  <2>1. case <= Len(file) + 1 /\ Len(file) \in Nat /\ case \in Nat
    BY EvaluationAssumption DEF EvaluationInv, Tallied, FileInv
  <2>. QED
    BY <1>1, <2>1
<1>. QED
  BY <1>1, <1>2, <1>3 DEF EvaluationInv

LEMMA EvaluationKeeps ==
  ASSUME CallersInv, EvaluationInv, [CallersNext]_<<vars, evaluation>>
  PROVE  EvaluationInv'
<1>1. McpInv /\ FileInv
  BY DEF CallersInv
<1>2. CASE UNCHANGED <<vars, evaluation>>
  BY <1>2, EvaluationRests DEF vars, judge, evaluation
<1>3. CASE Next /\ UNCHANGED evaluation
  <2>1. up
    BY <1>3 DEF Next, Work, EndCall, Hangup, Skip, Answer, Call, Reads
  <2>2. command = "mcp"
    BY <1>1, <2>1 DEF McpInv
  <2>. QED
    BY <1>3, <2>2, EvaluationRests DEF evaluation
<1>4. CASE command = "eval" /\ JudgeNext /\ UNCHANGED evaluation
  <2>1. stage # "idle" /\ request' = request
    BY <1>4 DEF JudgeNext, Refuse, Render, Read, ReadFails, Return, Average, TooFew, Answered,
                Waiting, Returned
  <2>. QED
    BY <1>4, <2>1, EvaluationRests DEF evaluation
<1>. QED
  BY <1>1, <1>2, <1>3, <1>4, OpenCaseKeeps, CloseCaseKeeps, HostedCaseKeeps, ReportKeeps
     DEF CallersNext, EvaluationNext

------------------------------------------------------------------------------
(* Sorts and thresholds.                                                   *)

\* What is before i in a relation.
Below(A, S, i) == {j \in S : <<j, i>> \in A}

\* In a relation that is total and strict on a finite set, every place is taken
\* by the one that has as many before it, and the places follow the relation.
LEMMA Places ==
  ASSUME NEW S, NEW A, IsFiniteSet(S),
         \A i, j \in S : <<i, j>> \in A => i # j,
         \A i, j, k \in S : <<i, j>> \in A /\ <<j, k>> \in A => <<i, k>> \in A,
         \A i, j \in S : i # j => <<i, j>> \in A \/ <<j, i>> \in A
  PROVE  /\ \A k \in 1 .. Cardinality(S) : \E i \in S : Cardinality(Below(A, S, i)) = k - 1
         /\ \A i \in S : Cardinality(Below(A, S, i)) \in Nat
         /\ \A i, j \in S : Cardinality(Below(A, S, i)) < Cardinality(Below(A, S, j))
                              => <<i, j>> \in A
<1> DEFINE n == Cardinality(S)
           below(i) == Below(A, S, i)
<1>1. n \in Nat /\ IsFiniteSet(1 .. n) /\ Cardinality(1 .. n) = n
  BY FS_CardinalityType, UpToFinite
<1>2. ASSUME NEW i \in S
      PROVE  IsFiniteSet(below(i)) /\ Cardinality(below(i)) \in Nat /\ Cardinality(below(i)) < n
  <2>1. PICK B : B = below(i)
    OBVIOUS
  <2>2. B \in SUBSET S /\ i \notin B
    BY <2>1 DEF Below
  <2>3. IsFiniteSet(B) /\ Cardinality(B) <= n /\ n # Cardinality(B)
    BY <2>2, FS_Subset
  <2>4. Cardinality(B) \in Nat
    BY <2>3, FS_CardinalityType
  <2>. QED
    BY <1>1, <2>1, <2>3, <2>4
<1>3. ASSUME NEW i \in S, NEW j \in S, <<i, j>> \in A
      PROVE  Cardinality(below(i)) < Cardinality(below(j))
  <2>1. PICK B, C : B = below(i) /\ C = below(j)
    OBVIOUS
  <2>2. B \in SUBSET C /\ i \in C /\ i \notin B
    BY <1>3, <2>1 DEF Below
  <2>3. IsFiniteSet(C)
    BY <1>2, <2>1
  <2>4. Cardinality(B) <= Cardinality(C) /\ Cardinality(C) # Cardinality(B)
    BY <2>2, <2>3, FS_Subset
  <2>5. Cardinality(B) \in Nat /\ Cardinality(C) \in Nat
    BY <1>2, <2>1
  <2>. QED
    BY <2>1, <2>4, <2>5
<1>4. PICK R : R = [i \in S |-> Cardinality(below(i)) + 1]
  OBVIOUS
<1>5. ASSUME NEW i \in S PROVE R[i] \in 1 .. n
  <2>1. PICK b, m : b = Cardinality(below(i)) /\ m = n
    OBVIOUS
  <2>2. b \in Nat /\ m \in Nat /\ b < m
    BY <1>1, <1>2, <2>1
  <2>3. b + 1 \in 1 .. m /\ R[i] = b + 1
    BY <1>4, <2>1, <2>2
  <2>. QED
    BY <2>1, <2>3
<1>6. \A i, j \in S : <<i, j>> \in A => R[i] < R[j]
  <2>1. \A i \in S : Cardinality(below(i)) \in Nat /\ R[i] = Cardinality(below(i)) + 1
    BY <1>2, <1>4
  <2>. HIDE DEF below
  <2>. QED
    BY <1>3, <2>1
<1>. HIDE DEF n, below
<1>7. R \in Injection(S, 1 .. n)
  <2>1. \A i, j \in S : R[i] = R[j] => i = j
    <3>1. \A i, j \in S : R[i] < R[j] => R[i] # R[j]
      BY <1>1, <1>5
    <3>. QED
      BY <1>6, <3>1
  <2>. QED
    BY <1>4, <1>5, <2>1 DEF Injection, IsInjective
<1>8. R \in Surjection(S, 1 .. n)
  BY <1>1, <1>7, FS_Injection DEF n
<1>9. ASSUME NEW k \in 1 .. n PROVE \E i \in S : Cardinality(below(i)) = k - 1
  <2>1. PICK i \in S : R[i] = k
    BY <1>8 DEF Surjection
  <2>2. R[i] = Cardinality(below(i)) + 1 /\ Cardinality(below(i)) \in Nat
    BY <1>2, <1>4
  <2>3. Cardinality(below(i)) = k - 1
    BY <1>1, <2>1, <2>2
  <2>. QED
    BY <2>3
<1>10. ASSUME NEW i \in S, NEW j \in S, Cardinality(below(i)) < Cardinality(below(j))
       PROVE  <<i, j>> \in A
  <2>1. PICK a, b : a = Cardinality(below(i)) /\ b = Cardinality(below(j))
    OBVIOUS
  <2>2. a \in Nat /\ b \in Nat /\ a < b
    BY <1>2, <1>10, <2>1
  <2>3. i # j
    BY <2>1, <2>2
  <2>4. <<j, i>> \notin A
    <3>1. ASSUME <<j, i>> \in A PROVE FALSE
      <4>1. b < a
        BY <1>3, <2>1, <3>1
      <4>. QED
        BY <2>2, <4>1
    <3>. QED
      BY <3>1
  <2>. QED
    BY <2>3, <2>4
<1>11. \A i \in S : Cardinality(below(i)) \in Nat
  BY <1>2
<1>. QED
  BY <1>9, <1>10, <1>11 DEF n, below

\* A weak order: of two, at most one is less, and what is not less of a third
\* on the way is not less.
WeakOrder(LT, S) ==
    /\ \A i, j \in S : <<i, j>> \in LT => <<j, i>> \notin LT
    /\ \A i, j, k \in S : <<i, j>> \notin LT /\ <<j, k>> \notin LT => <<i, k>> \notin LT

\* i is before j: j is less, or neither is and i comes first.
Comes(LT, i, j) == <<j, i>> \in LT \/ (<<i, j>> \notin LT /\ i < j)

\* What comes before i; a sequence of 1 .. n in that order.
Earlier(LT, n, i) == {j \in 1 .. n : Comes(LT, j, i)}
Sorts(g, LT, n) ==
    g \in [1 .. n -> 1 .. n] /\ \A i, j \in 1 .. n : i < j => Comes(LT, g[i], g[j])

\* A stable sort, by falling value: each has its place by what comes before it.
LEMMA StableSort ==
  ASSUME NEW n \in Nat, NEW LT, WeakOrder(LT, 1 .. n)
  PROVE  /\ \A k \in 1 .. n : \E i \in 1 .. n : Cardinality(Earlier(LT, n, i)) = k - 1
         /\ \A i \in 1 .. n : Cardinality(Earlier(LT, n, i)) \in Nat
         /\ \A i, j \in 1 .. n : Cardinality(Earlier(LT, n, i)) < Cardinality(Earlier(LT, n, j))
                                  => Comes(LT, i, j)
<1> DEFINE S == 1 .. n
           A == {e \in S \X S : Comes(LT, e[1], e[2])}
<1>1. IsFiniteSet(S) /\ Cardinality(S) = n
  BY UpToFinite
<1>2. \A i, j \in S : <<i, j>> \in A <=> Comes(LT, i, j)
  OBVIOUS
<1>3. \A i, j \in S : Comes(LT, i, j) => i # j
  BY DEF Comes, WeakOrder
<1>4. ASSUME NEW i \in S, NEW j \in S, NEW k \in S, Comes(LT, i, j), Comes(LT, j, k)
      PROVE  Comes(LT, i, k)
  <2>1. /\ <<i, j>> \notin LT /\ <<j, k>> \notin LT
    BY <1>4 DEF Comes, WeakOrder
  <2>2. <<i, k>> \notin LT
    BY <2>1 DEF WeakOrder
  <2>3. CASE <<k, i>> \in LT
    BY <2>3 DEF Comes
  <2>4. CASE <<k, i>> \notin LT
    <3>1. <<k, j>> \notin LT
      BY <2>1, <2>4 DEF WeakOrder
    <3>2. <<j, i>> \notin LT
      BY <2>1, <2>4 DEF WeakOrder
    <3>3. i < j /\ j < k
      BY <1>4, <3>1, <3>2 DEF Comes
    <3>4. i < k
      BY <3>3
    <3>. QED
      BY <2>2, <3>4 DEF Comes
  <2>. QED
    BY <2>3, <2>4
<1>5. \A i, j \in S : i # j => Comes(LT, i, j) \/ Comes(LT, j, i)
  BY DEF Comes
<1>6. \A i \in S : Below(A, S, i) = Earlier(LT, n, i)
  BY <1>2 DEF Below, Earlier
<1>. HIDE DEF A, S
<1>7. /\ \A k \in 1 .. Cardinality(S) : \E i \in S : Cardinality(Below(A, S, i)) = k - 1
      /\ \A i \in S : Cardinality(Below(A, S, i)) \in Nat
      /\ \A i, j \in S : Cardinality(Below(A, S, i)) < Cardinality(Below(A, S, j))
                           => <<i, j>> \in A
  <2>1. \A i, j \in S : <<i, j>> \in A => i # j
    BY <1>2, <1>3
  <2>2. \A i, j, k \in S : <<i, j>> \in A /\ <<j, k>> \in A => <<i, k>> \in A
    BY <1>2, <1>4
  <2>3. \A i, j \in S : i # j => <<i, j>> \in A \/ <<j, i>> \in A
    BY <1>2, <1>5
  <2>. QED
    BY <1>1, <2>1, <2>2, <2>3, Places
<1>8. /\ \A k \in 1 .. Cardinality(S) : \E i \in S : Cardinality(Earlier(LT, n, i)) = k - 1
      /\ \A i \in S : Cardinality(Earlier(LT, n, i)) \in Nat
  BY <1>6, <1>7
<1>9. \A i, j \in S : Cardinality(Earlier(LT, n, i)) < Cardinality(Earlier(LT, n, j))
                       => Comes(LT, i, j)
  BY <1>2, <1>6, <1>7
<1>. QED
  BY <1>1, <1>8, <1>9 DEF S

\* What has k's value at least; where a sort's value changes.
AtLeast(LT, n, k) == {j \in 1 .. n : <<j, k>> \notin LT}
Drawn(g, i, W) == {j \in 1 .. i : g[j] \in W}
Changes(LT, n, g, i) == i = n \/ <<g[i + 1], g[i]>> \in LT \/ <<g[i], g[i + 1]>> \in LT

\* Every change is that of a threshold, every threshold that of a change.
CutsFit(LT, n, g, W) ==
    /\ \A i \in 1 .. n : Changes(LT, n, g, i) =>
          /\ Cardinality(AtLeast(LT, n, g[i])) = i
          /\ Cardinality(AtLeast(LT, n, g[i]) \cap W) = Cardinality(Drawn(g, i, W))
    /\ \A k \in 1 .. n : \E i \in 1 .. n :
          /\ Changes(LT, n, g, i) /\ Cardinality(AtLeast(LT, n, k)) = i
          /\ Cardinality(AtLeast(LT, n, k) \cap W) = Cardinality(Drawn(g, i, W))

\* Cutting such a sort where the value changes, and taking what has some
\* member's value at least, is the same: as many, and as many of them in W.
LEMMA CutsAreThresholds ==
  ASSUME NEW n \in Nat, NEW LT, NEW g, NEW W, WeakOrder(LT, 1 .. n), Sorts(g, LT, n)
  PROVE  CutsFit(LT, n, g, W)
<1>. g \in [1 .. n -> 1 .. n] /\ \A i, j \in 1 .. n : i < j => Comes(LT, g[i], g[j])
  BY DEF Sorts
<1> DEFINE T(k) == AtLeast(LT, n, k)
           cut(i) == Changes(LT, n, g, i)
<1>1. \A j, k \in 1 .. n : j \in T(k) <=> <<j, k>> \notin LT
  BY DEF AtLeast
<1>2. \A i, j \in 1 .. n : i <= j => <<g[i], g[j]>> \notin LT
  <2> SUFFICES ASSUME NEW i \in 1 .. n, NEW j \in 1 .. n, i <= j PROVE <<g[i], g[j]>> \notin LT
    OBVIOUS
  <2>0. g[i] \in 1 .. n /\ g[j] \in 1 .. n
    OBVIOUS
  <2>1. CASE i = j
    BY <2>0, <2>1 DEF WeakOrder
  <2>2. CASE i < j
    <3>1. Comes(LT, g[i], g[j])
      BY <2>2
    <3>. QED
      BY <2>0, <3>1 DEF WeakOrder, Comes
  <2>. QED
    BY <2>1, <2>2
<1>3. \A i, j \in 1 .. n : g[i] = g[j] => i = j
  <2>1. \A i, j \in 1 .. n : i < j => g[i] # g[j]
    <3> SUFFICES ASSUME NEW i \in 1 .. n, NEW j \in 1 .. n, i < j, g[i] = g[j] PROVE FALSE
      OBVIOUS
    <3>1. Comes(LT, g[i], g[i]) /\ g[i] \in 1 .. n
      OBVIOUS
    <3>. QED
      BY <3>1 DEF WeakOrder, Comes
  <2>. QED
    BY <2>1
<1>4. \A y \in 1 .. n : \E i \in 1 .. n : g[i] = y
  <2>1. g \in Injection(1 .. n, 1 .. n)
    BY <1>3 DEF Injection, IsInjective
  <2>2. IsFiniteSet(1 .. n)
    BY UpToFinite
  <2>3. g \in Surjection(1 .. n, 1 .. n)
    BY <2>1, <2>2, FS_Injection
  <2>. QED
    BY <2>3 DEF Surjection
<1>5. ASSUME NEW i \in 1 .. n, NEW k \in 1 .. n,
             \A j \in 1 .. n : j <= i <=> <<g[j], k>> \notin LT
      PROVE  /\ Cardinality(T(k)) = i
             /\ Cardinality(T(k) \cap W) = Cardinality(Drawn(g, i, W))
  <2>1. \A j \in 1 .. n : g[j] \in T(k) <=> j <= i
    <3>1. \A j \in 1 .. n : g[j] \in 1 .. n
      OBVIOUS
    <3>. QED
      BY <1>1, <1>5, <3>1
  <2>2. PICK h : h = [j \in 1 .. i |-> g[j]]
    OBVIOUS
  <2>3. PICK V, U, X, Y : /\ V = T(k) /\ U = 1 .. i
                          /\ X = Drawn(g, i, W) /\ Y = V \cap W
    OBVIOUS
  <2>4. V \subseteq 1 .. n
    BY <2>3 DEF AtLeast
  <2>5. U \subseteq 1 .. n /\ \A j \in 1 .. n : j \in U <=> j <= i
    BY <2>3
  <2>. HIDE DEF T
  <2>6. \A j \in U : g[j] \in V
    BY <2>1, <2>3, <2>4, <2>5
  <2>7. \A y \in V : \E j \in U : g[j] = y
    BY <1>4, <2>1, <2>3, <2>4, <2>5
  <2>8. IsFiniteSet(U) /\ Cardinality(U) = i
    BY <2>3, UpToFinite
  <2>9. ASSUME NEW P \in SUBSET U, NEW Q,
               \A j \in P : g[j] \in Q, \A y \in Q : \E j \in P : g[j] = y
        PROVE  Cardinality(Q) = Cardinality(P)
    <3>1. PICK b : b = [j \in P |-> g[j]]
      OBVIOUS
    <3>2. b \in [P -> Q] /\ \A j \in P : b[j] = g[j]
      BY <2>9, <3>1
    <3>3. \A i1, j1 \in P : b[i1] = b[j1] => i1 = j1
      BY <1>3, <2>5, <3>2
    <3>4. \A y \in Q : \E j \in P : b[j] = y
      BY <2>9, <3>2
    <3>5. b \in Bijection(P, Q)
      BY <3>2, <3>3, <3>4 DEF Bijection, Injection, Surjection, IsInjective
    <3>6. IsFiniteSet(P)
      BY <2>8, FS_Subset
    <3>. QED
      BY <3>5, <3>6, FS_Bijection DEF ExistsBijection
  <2>10. Cardinality(V) = i
    BY <2>6, <2>7, <2>8, <2>9
  <2>11. Cardinality(Y) = Cardinality(X)
    <3>1. X \in SUBSET U
      BY <2>3 DEF Drawn
    <3>2. \A j \in X : g[j] \in Y
      BY <2>3, <2>6 DEF Drawn
    <3>3. \A y \in Y : \E j \in X : g[j] = y
      BY <2>3, <2>7 DEF Drawn
    <3>. QED
      BY <2>9, <3>1, <3>2, <3>3
  <2>. QED
    BY <2>3, <2>10, <2>11
<1>6. ASSUME NEW i \in 1 .. n, cut(i), NEW j \in 1 .. n PROVE j <= i <=> <<g[j], g[i]>> \notin LT
  <2>1. ASSUME i < j PROVE <<g[j], g[i]>> \in LT
    <3>1. i + 1 \in 1 .. n /\ i + 1 <= j
      BY <2>1
    <3>2. PICK m \in 1 .. n : m = i + 1
      BY <3>1
    <3>3. <<g[m], g[i]>> \in LT
      <4>1. <<g[i], g[m]>> \notin LT
        BY <1>2, <3>2
      <4>. QED
        BY <1>6, <2>1, <3>2, <4>1 DEF Changes
    <3>4. <<g[m], g[j]>> \notin LT
      BY <1>2, <3>1, <3>2
    <3>5. g[i] \in 1 .. n /\ g[j] \in 1 .. n /\ g[m] \in 1 .. n
      OBVIOUS
    <3>. QED
      BY <3>3, <3>4, <3>5 DEF WeakOrder
  <2>. QED
    BY <1>2, <2>1
<1>7. ASSUME NEW k \in 1 .. n
      PROVE  \E i \in 1 .. n : cut(i) /\ \A j \in 1 .. n : j <= i <=> <<g[j], k>> \notin LT
  <2>1. PICK N : N = {j \in 1 .. n : <<g[j], k>> \notin LT}
    OBVIOUS
  <2>2. PICK m \in 1 .. n : g[m] = k
    BY <1>4
  <2>3. m \in N
    <3>1. <<k, k>> \notin LT
      BY DEF WeakOrder
    <3>. QED
      BY <2>1, <2>2, <3>1
  <2>4. Max(N) \in N /\ \A x \in N : x <= Max(N)
    <3>1. \A j \in 1 .. n : j \in 0 .. n
      OBVIOUS
    <3>2. N \subseteq 0 .. n
      BY <2>1, <3>1
    <3>3. N # {}
      BY <2>3
    <3>. QED
      BY <3>2, <3>3, MaxOfNaturals
  <2>5. PICK i \in 1 .. n : i = Max(N)
    BY <2>1, <2>4
  <2>6. ASSUME NEW j \in 1 .. n PROVE j <= i <=> <<g[j], k>> \notin LT
    <3>1. ASSUME j <= i PROVE <<g[j], k>> \notin LT
      <4>1. <<g[j], g[i]>> \notin LT /\ <<g[i], k>> \notin LT
        BY <1>2, <2>1, <2>4, <2>5, <3>1
      <4>2. g[j] \in 1 .. n /\ g[i] \in 1 .. n
        OBVIOUS
      <4>. QED
        BY <4>1, <4>2 DEF WeakOrder
    <3>2. ASSUME <<g[j], k>> \notin LT PROVE j <= i
      BY <2>1, <2>4, <2>5, <3>2
    <3>. QED
      BY <3>1, <3>2
  <2>7. cut(i)
    <3>1. ASSUME i # n PROVE cut(i)
      <4>1. PICK m1 \in 1 .. n : m1 = i + 1
        BY <3>1
      <4>2. <<g[m1], k>> \in LT
        BY <2>6, <4>1
      <4>3. <<g[i], k>> \notin LT
        BY <2>6
      <4>4. g[i] \in 1 .. n /\ g[m1] \in 1 .. n
        OBVIOUS
      <4>5. <<g[m1], g[i]>> \in LT
        BY <4>2, <4>3, <4>4 DEF WeakOrder
      <4>. QED
        BY <4>1, <4>5 DEF Changes
    <3>. QED
      BY <3>1 DEF Changes
  <2>. QED
    BY <2>6, <2>7
<1>8. ASSUME NEW i \in 1 .. n, cut(i)
      PROVE  /\ Cardinality(T(g[i])) = i
             /\ Cardinality(T(g[i]) \cap W) = Cardinality(Drawn(g, i, W))
  <2>1. g[i] \in 1 .. n /\ \A j \in 1 .. n : j <= i <=> <<g[j], g[i]>> \notin LT
    BY <1>6, <1>8
  <2>. HIDE DEF T
  <2>. QED
    BY <1>5, <2>1
<1>9. ASSUME NEW k \in 1 .. n
      PROVE  \E i \in 1 .. n :
                /\ cut(i) /\ Cardinality(T(k)) = i
                /\ Cardinality(T(k) \cap W) = Cardinality(Drawn(g, i, W))
  <2>1. PICK i \in 1 .. n : cut(i) /\ \A j \in 1 .. n : j <= i <=> <<g[j], k>> \notin LT
    BY <1>7
  <2>. HIDE DEF T, cut
  <2>. QED
    BY <1>5, <2>1
<1>. QED
  BY <1>8, <1>9 DEF CutsFit

------------------------------------------------------------------------------
(* The coverage.                                                           *)

\* A total is a natural, and no part is more than it.
LEMMA TotalBounds ==
  ASSUME NEW n \in Nat, NEW f, DOMAIN f = 1 .. n, \A i \in 1 .. n : f[i] \in Nat
  PROVE  Total(f) \in Nat /\ \A i \in 1 .. n : f[i] <= Total(f)
<1>1. IsFiniteSet(1 .. n) /\ NatOn(f, 1 .. n)
  BY UpToFinite DEF NatOn
<1>2. Total(f) = SumFunctionOnSet(f, 1 .. n)
  BY TotalIsSum
<1>3. Total(f) \in Nat
  BY <1>1, <1>2, SumType
<1>4. ASSUME NEW i \in 1 .. n PROVE f[i] <= Total(f)
  <2>1. PICK S, R : S = 1 .. n /\ R = S \ {i}
    OBVIOUS
  <2>2. IsFiniteSet(R) /\ NatOn(f, R)
    <3>1. R \subseteq S
      BY <2>1
    <3>. QED
      BY <1>1, <2>1, <3>1, FS_Subset DEF NatOn
  <2>3. SumFunctionOnSet(f, S) = f[i] + SumFunctionOnSet(f, R)
    BY <1>1, <2>1, SumWithout
  <2>4. SumFunctionOnSet(f, R) \in Nat
    BY <2>2, SumType
  <2>. QED
    BY <1>2, <2>1, <2>3, <2>4
<1>. QED
  BY <1>3, <1>4

\* The likeliest option is one.
LEMMA BestType ==
  ASSUME NEW n \in Nat, n > 0, NEW p \in [1 .. n -> Nat]
  PROVE  Best(p) \in 1 .. n
<1>1. Total(p) \in Nat /\ \A i \in 1 .. n : p[i] <= Total(p)
  BY TotalBounds
<1>2. PICK t, N : t = Total(p) /\ N = {p[i] : i \in 1 .. n}
  OBVIOUS
<1>3. t \in Nat /\ N \subseteq 0 .. t
  BY <1>1, <1>2
<1>4. p[1] \in N
  BY <1>2
<1>5. Max(N) \in N /\ \A y \in N : Max(N) >= y
  <2>1. N # {}
    BY <1>4
  <2>. QED
    BY <1>3, <2>1, MaxOfNaturals, Zenon
<1>6. PICK I : I = {i \in 1 .. n : p[i] = Max(N)}
  OBVIOUS
<1>7. I \subseteq Nat /\ I # {}
  <2>1. PICK i \in 1 .. n : p[i] = Max(N)
    BY <1>2, <1>5
  <2>2. i \in I
    BY <1>6, <2>1
  <2>3. \A j \in 1 .. n : j \in Nat
    OBVIOUS
  <2>. QED
    BY <1>6, <2>2, <2>3
<1>8. Min(I) \in I /\ \A y \in I : Min(I) <= y
  BY <1>7, MinOfNaturals
<1>9. PICK i \in 1 .. n : i = Min(I)
  BY <1>6, <1>8
<1>10. p[i] = Max(N) /\ \A j \in 1 .. n : p[j] \in N /\ p[j] \in Nat
  BY <1>2, <1>6, <1>8, <1>9
<1>11. \A j \in 1 .. n : p[i] >= p[j]
  BY <1>5, <1>10
<1>12. ASSUME NEW j \in 1 .. i - 1 PROVE p[i] > p[j]
  <2>1. j \in 1 .. n /\ j < i
    OBVIOUS
  <2>2. j \notin I
    BY <1>8, <1>9, <2>1
  <2>3. p[j] # p[i] /\ p[i] >= p[j] /\ p[i] \in Nat /\ p[j] \in Nat
    BY <1>6, <1>10, <1>11, <2>1, <2>2
  <2>. QED
    BY <2>3
<1>13. DOMAIN p = 1 .. n
  OBVIOUS
<1>. QED
  BY <1>11, <1>12, <1>13 DEF Best

\* Fractions are a weak order: cross products are multiplied by the third
\* denominator, which is positive.
Fraction == [num : Int, den : Nat \ {0}]

LEMMA FractionsCompared ==
  ASSUME NEW a \in Fraction, NEW b \in Fraction, NEW c \in Fraction
  PROVE  /\ Less(a, b) => ~Less(b, a)
         /\ ~Less(a, b) /\ ~Less(b, c) => ~Less(a, c)
<1>1. PICK x, y, z, u, v, w : /\ x = a.num /\ y = b.num /\ z = c.num
                              /\ u = a.den /\ v = b.den /\ w = c.den
  OBVIOUS
<1>2. x \in Int /\ y \in Int /\ z \in Int /\ u \in Nat \ {0} /\ v \in Nat \ {0} /\ w \in Nat \ {0}
  BY <1>1 DEF Fraction
<1>3. \A s, t \in Int : ~(s < t /\ t < s)
  OBVIOUS
<1>4. Less(a, b) => ~Less(b, a)
  <2>1. x * v \in Int /\ y * u \in Int
    BY <1>2
  <2>. QED
    BY <1>1, <1>3, <2>1 DEF Less
<1>5. ASSUME x * v >= y * u, y * w >= z * v PROVE x * w >= z * u
  <2>1. (x * v) * w >= (y * u) * w /\ (y * w) * u >= (z * v) * u
    BY <1>2, <1>5
  <2>2. (x * v) * w = (x * w) * v /\ (y * u) * w = (y * w) * u /\ (z * v) * u = (z * u) * v
    BY <1>2
  <2>3. x * w \in Int /\ z * u \in Int /\ (y * w) * u \in Int
    BY <1>2
  <2>4. (x * w) * v >= (z * u) * v
    BY <1>2, <2>1, <2>2, <2>3
  <2>5. \A s, t \in Int : s * v >= t * v => s >= t
    BY <1>2
  <2>. QED
    BY <2>3, <2>4, <2>5
<1>6. ASSUME ~Less(a, b), ~Less(b, c) PROVE ~Less(a, c)
  <2>1. /\ x * v \in Int /\ y * u \in Int /\ y * w \in Int
        /\ z * v \in Int /\ x * w \in Int /\ z * u \in Int
    BY <1>2
  <2>2. ~(x * v < y * u) /\ ~(y * w < z * v)
    BY <1>1, <1>6 DEF Less
  <2>3. x * w >= z * u
    BY <1>5, <2>1, <2>2
  <2>4. ~(x * w < z * u)
    BY <2>1, <2>3
  <2>. QED
    BY <1>1, <2>4 DEF Less
<1>. QED
  BY <1>4, <1>6

\* A row's confidence is a fraction.
LEMMA ConfidenceType ==
  ASSUME NEW x \in Row
  PROVE  Confidence(x) \in Fraction
<1>1. PICK p : p = x.probs
  OBVIOUS
<1>2. p \in Seq(Nat)
  BY <1>1 DEF Row
<1>3. PICK n : n = Len(p)
  OBVIOUS
<1>4. n \in Nat /\ p \in [1 .. n -> Nat] /\ DOMAIN p = 1 .. n
  BY <1>2, <1>3
<1>5. PICK t : t = Total(p)
  OBVIOUS
<1>6. t \in Nat
  BY <1>4, <1>5, TotalBounds
<1>7. \A u \in Int, v \in Nat \ {0} : Frac(u, v) \in Fraction
  BY DEF Frac, Fraction
<1>8. ASSUME n >= 2, t # 0 PROVE ChoiceConfidence(p) \in Fraction
  <2>1. PICK b : b = Best(p)
    OBVIOUS
  <2>2. b \in 1 .. n
    BY <1>4, <1>8, <2>1, BestType
  <2>3. PICK q : q = p[b]
    OBVIOUS
  <2>4. q \in Nat
    BY <1>4, <2>2, <2>3
  <2>5. n * q - t \in Int
    BY <1>4, <1>6, <2>4
  <2>6. (n - 1) * t \in Nat \ {0}
    BY <1>4, <1>6, <1>8
  <2>7. ChoiceConfidence(p) = Frac(n * q - t, (n - 1) * t)
    BY <1>3, <1>5, <2>1, <2>3 DEF ChoiceConfidence
  <2>. QED
    BY <1>7, <2>5, <2>6, <2>7
<1>9. ASSUME n >= 2, t # 0 PROVE ScoreConfidence(p) \in Fraction
  <2>1. PICK b : b = Best(p)
    OBVIOUS
  <2>2. b \in 1 .. n
    BY <1>4, <1>9, <2>1, BestType
  <2>3. \A i, j \in Int : Dist(i, j) \in Nat
    BY DEF Dist
  <2>4. PICK f, g : f = [i \in DOMAIN p |-> p[i] * Dist(i, Best(p))]
                    /\ g = [i \in DOMAIN p |-> Dist(2 * i, n + 1)]
    OBVIOUS
  <2>5. \A i \in 1 .. n : f[i] \in Nat
    <3>1. ASSUME NEW i \in 1 .. n PROVE f[i] \in Nat
      <4>1. PICK c, d : c = p[i] /\ d = Dist(i, b)
        OBVIOUS
      <4>2. c \in Nat /\ d \in Nat
        BY <1>4, <2>2, <2>3, <4>1
      <4>3. c * d \in Nat
        BY <4>2
      <4>. QED
        BY <1>4, <2>1, <2>4, <4>1, <4>3
    <3>. QED
      BY <3>1
  <2>6. ASSUME NEW i \in 1 .. n PROVE g[i] \in Nat
    <3>1. 2 * i \in Int /\ n + 1 \in Int
      BY <1>4
    <3>2. g[i] = Dist(2 * i, n + 1)
      BY <1>4, <2>4
    <3>. QED
      BY <2>3, <3>1, <3>2
  <2>7. DOMAIN f = 1 .. n /\ DOMAIN g = 1 .. n
    BY <1>4, <2>4
  <2>8. PICK s, m : s = Total(f) /\ m = Total(g)
    OBVIOUS
  <2>9. s \in Nat
    BY <1>4, <2>5, <2>7, <2>8, TotalBounds
  <2>10. m \in Nat /\ \A i \in 1 .. n : g[i] <= m
    BY <1>4, <2>6, <2>7, <2>8, TotalBounds
  <2>11. m # 0
    <3>1. 1 \in 1 .. n
      BY <1>4, <1>9
    <3>2. g[1] = Dist(2, n + 1)
      BY <1>4, <2>4, <3>1
    <3>3. Dist(2, n + 1) = n - 1
      BY <1>4, <1>9 DEF Dist
    <3>. QED
      BY <1>4, <1>9, <2>10, <3>1, <3>2, <3>3
  <2>12. PICK e : e = t * m - 2 * n * s
    OBVIOUS
  <2>13. e \in Int
    BY <1>4, <1>6, <2>9, <2>10, <2>12
  <2>14. Max({0, e}) \in Int
    <3>1. CASE e >= 0
      <4>1. /\ e \in {0, e} /\ \A y \in {0, e} : e >= y
        BY <2>13, <3>1
      <4>. QED
        BY <2>13, <4>1 DEF Max
    <3>2. CASE ~(e >= 0)
      <4>1. 0 \in {0, e} /\ \A y \in {0, e} : 0 >= y
        BY <2>13, <3>2
      <4>. QED
        BY <2>13, <4>1 DEF Max
    <3>. QED
      BY <3>1, <3>2
  <2>15. t * m \in Nat \ {0}
    BY <1>6, <1>9, <2>10, <2>11
  <2>16. ScoreConfidence(p) = Frac(Max({0, e}), t * m)
    BY <1>3, <1>5, <2>4, <2>8, <2>12 DEF ScoreConfidence
  <2>. QED
    BY <1>7, <2>14, <2>15, <2>16
<1>10. Frac(1, 1) \in Fraction /\ Frac(0, 1) \in Fraction
  BY <1>7
<1>11. n < 2 \/ n >= 2
  BY <1>4
<1>. QED
  BY <1>1, <1>3, <1>5, <1>8, <1>9, <1>10, <1>11 DEF Confidence, Unweighted

\* Which of the rows is less sure than which.
Unsure(xs) ==
    {e \in (DOMAIN xs) \X (DOMAIN xs) : Less(Confidence(xs[e[1]]), Confidence(xs[e[2]]))}

\* It is a weak order, and a row is ahead as in its stable sort.
LEMMA UnsureOrders ==
  ASSUME NEW xs \in Seq(Row), NEW n, n = Len(xs)
  PROVE  /\ n \in Nat /\ DOMAIN xs = 1 .. n /\ WeakOrder(Unsure(xs), 1 .. n)
         /\ \A i, j \in 1 .. n :
               /\ <<i, j>> \in Unsure(xs) <=> Less(Confidence(xs[i]), Confidence(xs[j]))
               /\ Ahead(xs, i, j) <=> Comes(Unsure(xs), i, j)
<1>1. n \in Nat /\ DOMAIN xs = 1 .. n
  OBVIOUS
<1>2. PICK LT : LT = Unsure(xs)
  OBVIOUS
<1>3. PICK C : C = [i \in 1 .. n |-> Confidence(xs[i])]
  OBVIOUS
<1>4. ASSUME NEW i \in 1 .. n PROVE C[i] \in Fraction /\ C[i] = Confidence(xs[i])
  <2>1. xs[i] \in Row
    BY <1>1
  <2>2. Confidence(xs[i]) \in Fraction
    BY <2>1, ConfidenceType
  <2>. QED
    BY <1>3, <2>2
<1>5. \A i, j \in 1 .. n : <<i, j>> \in LT <=> Less(C[i], C[j])
  <2>1. ASSUME NEW i \in 1 .. n, NEW j \in 1 .. n
        PROVE  <<i, j>> \in LT <=> Less(Confidence(xs[i]), Confidence(xs[j]))
    <3>1. <<i, j>> \in (DOMAIN xs) \X (DOMAIN xs)
      BY <1>1
    <3>. QED
      BY <1>2, <3>1 DEF Unsure
  <2>. QED
    BY <1>4, <2>1, Zenon
<1>6. WeakOrder(LT, 1 .. n)
  <2>1. \A i, j \in 1 .. n : <<i, j>> \in LT => <<j, i>> \notin LT
    BY <1>4, <1>5, FractionsCompared
  <2>2. \A i, j, k \in 1 .. n : <<i, j>> \notin LT /\ <<j, k>> \notin LT => <<i, k>> \notin LT
    BY <1>4, <1>5, FractionsCompared
  <2>. QED
    BY <2>1, <2>2 DEF WeakOrder
<1>7. ASSUME NEW i \in 1 .. n, NEW j \in 1 .. n
      PROVE  Ahead(xs, i, j) <=> Comes(LT, i, j)
  <2>1. Ahead(xs, i, j) <=> Less(C[j], C[i]) \/ (~Less(C[i], C[j]) /\ ~Less(C[j], C[i]) /\ i < j)
    BY <1>4 DEF Ahead, Same
  <2>. QED
    BY <1>5, <2>1 DEF Comes
<1>. QED
  BY <1>1, <1>2, <1>4, <1>5, <1>6, <1>7

\* The rank that Ranked gives each row sorts them.
LEMMA RankedSorts ==
  ASSUME NEW xs \in Seq(Row), NEW n, NEW g, n = Len(xs), g = Ranked(xs)
  PROVE  Sorts(g, Unsure(xs), n)
<1>1. n \in Nat /\ DOMAIN xs = 1 .. n /\ WeakOrder(Unsure(xs), 1 .. n)
  BY UnsureOrders
<1>2. \A i, j \in 1 .. n : Ahead(xs, i, j) <=> Comes(Unsure(xs), i, j)
  BY UnsureOrders
<1>3. PICK LT : LT = Unsure(xs)
  OBVIOUS
<1>4. /\ \A k \in 1 .. n : \E i \in 1 .. n : Cardinality(Earlier(LT, n, i)) = k - 1
      /\ \A i \in 1 .. n : Cardinality(Earlier(LT, n, i)) \in Nat
      /\ \A i, j \in 1 .. n : Cardinality(Earlier(LT, n, i)) < Cardinality(Earlier(LT, n, j))
                               => Comes(LT, i, j)
  BY <1>1, <1>3, StableSort
<1>5. \A i \in 1 .. n : {j \in DOMAIN xs : Ahead(xs, j, i)} = Earlier(LT, n, i)
  BY <1>1, <1>2, <1>3 DEF Earlier
<1>6. DOMAIN g = 1 .. n
  BY <1>1 DEF Ranked
<1>7. ASSUME NEW k \in 1 .. n
      PROVE  g[k] \in 1 .. n /\ Cardinality(Earlier(LT, n, g[k])) = k - 1
  <2> DEFINE P(i) == Cardinality({j \in DOMAIN xs : Ahead(xs, j, i)}) = k - 1
  <2>1. g[k] = CHOOSE i \in 1 .. n : P(i)
    BY <1>1 DEF Ranked
  <2>2. \A i \in 1 .. n : P(i) <=> Cardinality(Earlier(LT, n, i)) = k - 1
    BY <1>5
  <2>. HIDE DEF P
  <2>3. \E i \in 1 .. n : P(i)
    BY <1>4, <2>2
  <2>4. g[k] \in 1 .. n /\ P(g[k])
    BY <2>1, <2>3
  <2>. QED
    BY <2>2, <2>4
<1>8. ASSUME NEW i \in 1 .. n, NEW j \in 1 .. n, i < j PROVE Comes(LT, g[i], g[j])
  <2>1. PICK x, y : x = g[i] /\ y = g[j]
    OBVIOUS
  <2>2. /\ x \in 1 .. n /\ Cardinality(Earlier(LT, n, x)) = i - 1
        /\ y \in 1 .. n /\ Cardinality(Earlier(LT, n, y)) = j - 1
    BY <1>7, <2>1
  <2>3. i - 1 < j - 1
    BY <1>8
  <2>4. Cardinality(Earlier(LT, n, x)) < Cardinality(Earlier(LT, n, y))
    BY <2>2, <2>3
  <2>. QED
    BY <1>4, <2>1, <2>2, <2>4
<1>9. g \in [1 .. n -> 1 .. n]
  <2> DEFINE row(k) ==
         CHOOSE i \in DOMAIN xs : Cardinality({j \in DOMAIN xs : Ahead(xs, j, i)}) = k - 1
  <2>1. g = [k \in DOMAIN xs |-> row(k)]
    BY DEF Ranked
  <2>. HIDE DEF row
  <2>. QED
    BY <1>1, <1>7, <2>1
<1>. QED
  BY <1>3, <1>8, <1>9 DEF Sorts

\* The rows at least as sure as row k; the sets of rows within the error.
AsSure(xs, k) == {j \in DOMAIN xs : ~Less(Confidence(xs[j]), Confidence(xs[k]))}
Good(xs) ==
    {s \in SUBSET (DOMAIN xs) : Cardinality({j \in s : ~Right(xs[j])}) * OneIn <= Cardinality(s)}
Thresholds(xs) == {AsSure(xs, k) : k \in DOMAIN xs} \cap Good(xs)

\* Every boundary that metrics accepts is a threshold's, and the other way
\* round: as many rows, as many of them wrong.
LEMMA CoverageIs ==
  ASSUME NEW xs \in Seq(Row)
  PROVE  Coverage(xs) = Max({0} \cup {Cardinality(s) : s \in Thresholds(xs)})
<1>1. PICK n, good : n = Len(xs) /\ good = Good(xs)
  OBVIOUS
<1>2. n \in Nat /\ DOMAIN xs = 1 .. n
  BY <1>1
<1>3. PICK LT, g : LT = Unsure(xs) /\ g = Ranked(xs)
  OBVIOUS
<1>4. WeakOrder(LT, 1 .. n)
  BY <1>1, <1>3, UnsureOrders
<1>5. Sorts(g, LT, n)
  BY <1>1, <1>3, RankedSorts
<1>6. g \in [1 .. n -> 1 .. n]
  BY <1>5 DEF Sorts
<1>7. PICK W : W = {j \in 1 .. n : ~Right(xs[j])}
  OBVIOUS
<1>8. CutsFit(LT, n, g, W)
  BY <1>2, <1>4, <1>5, CutsAreThresholds
<1> DEFINE T(k) == AtLeast(LT, n, k)
           wrong(i) == Cardinality({j \in 1 .. i : ~Right(xs[g[j]])})
           cut(i) == Changes(LT, n, g, i)
<1>9. \A k \in 1 .. n : AsSure(xs, k) = T(k)
  <2>1. \A j, k \in 1 .. n : <<j, k>> \in LT <=> Less(Confidence(xs[j]), Confidence(xs[k]))
    BY <1>1, <1>3, UnsureOrders
  <2>. QED
    BY <1>2, <2>1 DEF AtLeast, AsSure
<1>10. ASSUME NEW i \in 1 .. n PROVE wrong(i) = Cardinality(Drawn(g, i, W))
  <2>1. \A j \in 1 .. i : g[j] \in 1 .. n
    <3>1. \A j \in 1 .. i : j \in 1 .. n
      BY <1>2
    <3>. QED
      BY <1>6, <3>1
  <2>2. {j \in 1 .. i : ~Right(xs[g[j]])} = Drawn(g, i, W)
    BY <1>7, <2>1 DEF Drawn
  <2>. QED
    BY <2>2
<1>11. \A s \in SUBSET (1 .. n) : {j \in s : ~Right(xs[j])} = s \cap W
  BY <1>7
<1>12. ASSUME NEW i \in 1 .. n PROVE Boundary(xs, g, i) <=> cut(i)
  <2>1. DOMAIN g = 1 .. n /\ Len(g) = n
    BY <1>2, <1>6
  <2>2. CASE i = n
    BY <2>1, <2>2 DEF Boundary, Changes
  <2>3. CASE i # n
    <3>1. PICK m \in 1 .. n : m = i + 1
      BY <1>2, <2>3
    <3>2. g[i] \in 1 .. n /\ g[m] \in 1 .. n
      BY <1>6
    <3>3. \A j, k \in 1 .. n : <<j, k>> \in LT <=> Less(Confidence(xs[j]), Confidence(xs[k]))
      BY <1>1, <1>3, UnsureOrders
    <3>. QED
      BY <2>1, <2>3, <3>1, <3>2, <3>3 DEF Boundary, Same, Changes
  <2>. QED
    BY <2>2, <2>3
<1>13. PICK A, B : /\ A = {i \in DOMAIN g : Boundary(xs, g, i) /\ wrong(i) * OneIn <= i}
                   /\ B = {Cardinality(s) : s \in Thresholds(xs)}
  OBVIOUS
<1>14. DOMAIN g = 1 .. n
  BY <1>6
<1>15. ASSUME NEW i \in 1 .. n, cut(i)
       PROVE  Cardinality(T(g[i])) = i /\ Cardinality(T(g[i]) \cap W) = wrong(i)
  <2>1. \A k \in 1 .. n : cut(k) =>
             /\ Cardinality(T(g[k])) = k
             /\ Cardinality(T(g[k]) \cap W) = Cardinality(Drawn(g, k, W))
    BY <1>8 DEF CutsFit
  <2>. HIDE DEF cut, T, wrong
  <2>. QED
    BY <1>10, <1>15, <2>1
<1>16. ASSUME NEW k \in 1 .. n
       PROVE  \E i \in 1 .. n : cut(i) /\ Cardinality(T(k)) = i
                                /\ Cardinality(T(k) \cap W) = wrong(i)
  <2>1. \E i \in 1 .. n : cut(i) /\ Cardinality(T(k)) = i
             /\ Cardinality(T(k) \cap W) = Cardinality(Drawn(g, i, W))
    BY <1>8 DEF CutsFit
  <2>. HIDE DEF cut, T, wrong
  <2>. QED
    BY <1>10, <2>1
<1>17. \A k \in 1 .. n : T(k) \in SUBSET (1 .. n)
  BY DEF AtLeast
<1>18. \A s \in SUBSET (1 .. n) : s \in good <=>
           Cardinality(s \cap W) * OneIn <= Cardinality(s)
  BY <1>1, <1>2, <1>11 DEF Good
<1>. HIDE DEF cut, T, wrong
<1>19. ASSUME NEW i \in A PROVE i \in B
  <2>1. i \in 1 .. n /\ cut(i) /\ wrong(i) * OneIn <= i
    BY <1>12, <1>13, <1>14
  <2>2. Cardinality(T(g[i])) = i /\ Cardinality(T(g[i]) \cap W) = wrong(i)
    BY <1>15, <2>1
  <2>3. g[i] \in 1 .. n
    BY <1>6, <2>1
  <2>4. T(g[i]) \in good /\ T(g[i]) = AsSure(xs, g[i])
    BY <1>9, <1>17, <1>18, <2>1, <2>2, <2>3
  <2>5. T(g[i]) \in Thresholds(xs)
    BY <1>1, <1>2, <2>3, <2>4 DEF Thresholds
  <2>. QED
    BY <1>13, <2>2, <2>5
<1>20. ASSUME NEW y \in B PROVE y \in A
  <2>1. PICK k \in 1 .. n : AsSure(xs, k) \in good /\ y = Cardinality(AsSure(xs, k))
    BY <1>1, <1>2, <1>13 DEF Thresholds
  <2>2. T(k) \in good /\ y = Cardinality(T(k))
    BY <1>9, <2>1
  <2>3. PICK i \in 1 .. n : cut(i) /\ Cardinality(T(k)) = i
                            /\ Cardinality(T(k) \cap W) = wrong(i)
    BY <1>16
  <2>4. wrong(i) * OneIn <= i
    BY <1>17, <1>18, <2>2, <2>3
  <2>. QED
    BY <1>12, <1>13, <1>14, <2>2, <2>3, <2>4
<1>21. A = B
  BY <1>19, <1>20
<1>22. Coverage(xs) = Max({0} \cup A)
  BY <1>3, <1>13 DEF Coverage, wrong
<1>. QED
  BY <1>13, <1>21, <1>22

\* A report's coverage is that of the rows found.
CoveredFits == verdict = "reported" => covered = Coverage(found)

LEMMA CoveredKeeps ==
  ASSUME CoveredFits, [CallersNext]_<<vars, evaluation>>
  PROVE  CoveredFits'
<1>1. CASE Report
  BY <1>1 DEF Report, CoveredFits, judge
<1>2. CASE UNCHANGED evaluation
  BY <1>2 DEF evaluation, CoveredFits
<1>3. ASSUME OpenCase \/ CloseCase \/ HostedCase PROVE verdict' # "reported"
  BY <1>3 DEF OpenCase, CloseCase, HostedCase, Running, Abort, CountFailed, KeepRows
<1>. QED
  BY <1>1, <1>2, <1>3 DEF CallersNext, EvaluationNext, CoveredFits, evaluation, vars

------------------------------------------------------------------------------
(* The theorems.                                                           *)

LEMMA CallersKeep == CallersSpec => []CallersInv
<1>1. CallersInit => CallersInv
  <2>1. CallersInit => FileInv
    BY DEF CallersInit, EvaluationInit, FileInv
  <2>2. CallersInit => JudgeInv
    BY JudgeStarts DEF CallersInit, Init
  <2>. QED
    BY <2>1, <2>2, McpStarts DEF CallersInv
<1>2. CallersInv /\ [CallersNext]_<<vars, evaluation>> => CallersInv'
  BY McpKeeps, FileKeeps, CallersStep, StepKeeps DEF CallersInv
<1>. QED
  BY <1>1, <1>2, PTL DEF CallersSpec

\* Every variable of the MCP server and of the judge it calls keeps its type:
\* a call is under way exactly while the server is in one (mcp.rs, handle).
THEOREM TypeCorrect == CallersSpec => []TypeOK
<1>1. CallersInv => TypeOK
  <2>1. ASSUME CallersInv PROVE TypeOK
    <3>1. read \in Seq(Lines) /\ JudgeTypeOK /\ McpInv
      BY <2>1 DEF CallersInv, JudgeInv, McpInv
    <3>2. Range(read) \subseteq Lines
      BY <3>1 DEF Range
    <3>. QED
      BY <3>1, <3>2 DEF TypeOK, McpInv
  <2>. QED
    BY <2>1
<1>. QED
  BY <1>1, CallersKeep, PTL

\* Every request is answered once, with its id, in the order they came,
\* whatever became of each (mcp.rs, serve).
THEOREM EveryRequestAnswered == CallersSpec => []OneReplyEach
<1>1. CallersInv => OneReplyEach
  BY DEF CallersInv, McpInv, OneReplyEach, Replied
<1>. QED
  BY <1>1, CallersKeep, PTL

\* Every option of an answered question has what its own prompts said of it,
\* at the positions they showed it (judge.rs, average).
THEOREM OptionsKeepTheirs == CallersSpec => []OptionsKeepTheirReadings
<1>1. CallersInv => OptionsKeepTheirReadings
  BY OwnReadings DEF CallersInv
<1>. QED
  BY <1>1, CallersKeep, PTL

\* As many rotations as options leave the options of a choice alike when the
\* subject looks at positions alone (judge.rs, JudgeConfig::permutations).
THEOREM PositionsBalanced == CallersSpec => []Balanced
<1>1. CallersInv => Balanced
  BY BalancedOut DEF CallersInv
<1>. QED
  BY <1>1, CallersKeep, PTL

\* An answered request was read whole and is charged whole (judge.rs, raw).
THEOREM WholeOrNotAtAll == CallersSpec => []AnsweredWhole
<1>1. CallersInv => AnsweredWhole
  BY ReadAndCharged DEF CallersInv
<1>. QED
  BY <1>1, CallersKeep, PTL

\* Every case is counted once, failed or with a row for each of its labels.
THEOREM CasesCounted == CallersSpec => []EveryCaseCounted
<1>1. CallersInit => EvaluationInv
  BY EvaluationStarts
<1>2. CallersInv /\ EvaluationInv /\ [CallersNext]_<<vars, evaluation>> => EvaluationInv'
  BY EvaluationKeeps
<1>3. EvaluationInv => EveryCaseCounted
  <2>1. SUFFICES ASSUME EvaluationInv PROVE EveryCaseCounted
    OBVIOUS
  <2>2. PICK lost \in kSubset(failed, 1 .. case - 1) :
           Mapped(KeyOf, found) = FlattenSeq(Counts(case, lost))
    BY <2>1 DEF EvaluationInv, Tallied
  <2>3. \A i \in DOMAIN found :
           KeyOf[found[i]] = <<found[i].case, found[i].question, found[i].gold>>
    <3>1. \A i \in DOMAIN found : found[i] \in Row
      BY <2>1 DEF EvaluationInv, Tallied
    <3>. QED
      BY <3>1 DEF KeyOf, Key
  <2>4. Mapped(KeyOf, found)
           = [i \in DOMAIN found |-> <<found[i].case, found[i].question, found[i].gold>>]
    BY <2>3 DEF Mapped
  <2>. QED
    BY <2>1, <2>2, <2>4 DEF EveryCaseCounted, EvaluationInv, Counts
<1>. QED
  BY <1>1, <1>2, <1>3, CallersKeep, PTL DEF CallersSpec

\* The coverage a report gives is what a threshold on the confidence accepts
\* at the error allowed, and no threshold accepts more (eval.rs, metrics: "cut
\* only where it changes"), whatever the file, the subject and the error.
THEOREM CoverageOfThreshold == CallersSpec => []CoverageIsThreshold
<1>1. CallersInit => EvaluationInv /\ CoveredFits
  BY EvaluationStarts DEF CallersInit, EvaluationInit, CoveredFits
<1>2. CallersInv /\ EvaluationInv /\ [CallersNext]_<<vars, evaluation>> => EvaluationInv'
  BY EvaluationKeeps
<1>3. CoveredFits /\ [CallersNext]_<<vars, evaluation>> => CoveredFits'
  BY CoveredKeeps
<1>4. ASSUME EvaluationInv, CoveredFits PROVE CoverageIsThreshold
  <2>1. SUFFICES ASSUME verdict = "reported"
        PROVE  covered = Max({0} \cup {Cardinality(s) : s \in
                   {t \in {Accepted(i) : i \in DOMAIN found} :
                       Cardinality({j \in t : ~Right(found[j])}) * OneIn <= Cardinality(t)}})
    BY DEF CoverageIsThreshold
  <2>2. PICK xs : xs = found
    OBVIOUS
  <2>3. xs \in Seq(Row)
    BY <1>4, <2>2 DEF EvaluationInv, Tallied
  <2>4. \A i \in DOMAIN xs : Accepted(i) = AsSure(xs, i) /\ AsSure(xs, i) \in SUBSET (DOMAIN xs)
    BY <2>2 DEF Accepted, AsSure
  <2>5. {t \in {Accepted(i) : i \in DOMAIN found} :
             Cardinality({j \in t : ~Right(found[j])}) * OneIn <= Cardinality(t)} = Thresholds(xs)
    <3>1. {Accepted(i) : i \in DOMAIN found} = {AsSure(xs, i) : i \in DOMAIN xs}
      BY <2>2, <2>4
    <3>2. ASSUME NEW t \in {AsSure(xs, i) : i \in DOMAIN xs}
          PROVE  t \in Good(xs)
                    <=> Cardinality({j \in t : ~Right(found[j])}) * OneIn <= Cardinality(t)
      <4>1. t \in SUBSET (DOMAIN xs)
        BY <2>4
      <4>. QED
        BY <2>2, <4>1 DEF Good
    <3>. QED
      BY <3>1, <3>2 DEF Thresholds
  <2>6. covered = Coverage(xs)
    BY <1>4, <2>1, <2>2 DEF CoveredFits
  <2>. QED
    BY <2>3, <2>5, <2>6, CoverageIs
<1>. QED
  BY <1>1, <1>2, <1>3, <1>4, CallersKeep, PTL DEF CallersSpec
==============================================================================
