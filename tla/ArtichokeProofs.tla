--------------------------- MODULE ArtichokeProofs ---------------------------
(***************************************************************************)
(* For any vocabulary, requests, forks, cells, batch and threads: every    *)
(* answer of the engine is the reading of its own prompts, the session is  *)
(* what `cached` says once the mutex is free, a refusal costs nothing, and *)
(* the mutex guards what it should (Artichoke); the polygraph's three      *)
(* readings, taken by the same engine, are of one and the same (Polygraph).*)
(*                                                                         *)
(* The argument: a decode has aims, what each sequence is to hold at its   *)
(* end and which of its rows is read.  At every window of a decode, what a *)
(* sequence holds and what the plan still brings it make its aim, and      *)
(* every row read had the whole of its aim in sight, and no more           *)
(* (Decoding).  The first sections are of the memory, of decodes, of       *)
(* requests and of labels' tries, in terms of these; then comes the        *)
(* invariant, that a call's decode has the aims its place in the code      *)
(* calls for and that nothing but its forks and its session is held, and   *)
(* one lemma for each action.  The last sections are the engine under the  *)
(* polygraph.                                                              *)
(***************************************************************************)
EXTENDS Polygraph, DataLemmas

\* What a decode is for: sequence seq is to hold toks, and the output row at
\* their end is read into slot, if it has one.
Aim(seq, toks, slot) == [seq |-> seq, toks |-> toks, slot |-> slot]
Possible == [seq : 0 .. Forks, toks : Seq(Token), slot : Nat]

\* What a plan still brings to sequence s.
ToCome(entries, s) == {<<e.pos, e.tok>> : e \in {f \in entries : f.seq = s}}

\* Every sequence holds, or gets, what it is to hold and nothing else; an
\* output is still to be read, or was read with all of it in sight.
Decoding(aims, mem, todo, read) ==
    /\ \A a \in aims : Holds(mem, a.seq) \cup ToCome(todo, a.seq) = Placed(a.toks)
    /\ \A e \in todo : \E a \in aims :
          a.seq = e.seq /\ e.slot = (IF e.pos = Len(a.toks) THEN a.slot ELSE NoSlot)
    /\ \A x \in read : \E a \in aims :
          a.slot # NoSlot /\ x = [slot |-> a.slot, ctx |-> Placed(a.toks)]
    /\ \A a \in aims : a.slot # NoSlot =>
          \/ \E e \in todo : e.seq = a.seq /\ e.pos = Len(a.toks)
          \/ [slot |-> a.slot, ctx |-> Placed(a.toks)] \in read
    /\ \A a, b \in aims : a.seq = b.seq => a = b

------------------------------------------------------------------------------
(* The context's memory.                                                   *)

LEMMA HoldsType ==
  ASSUME NEW C, C \subseteq Cells, NEW s
  PROVE  Holds(C, s) \subseteq (Nat \ {0}) \X Token
BY DEF Holds, Cells

\* Forks copied from a sequence, empty before, hold what it holds.
LEMMA SeqCpHolds ==
  ASSUME NEW C \in SUBSET Cells, NEW from, NEW to \in SUBSET (0 .. Forks),
         \A s \in to : Holds(C, s) = {}
  PROVE  /\ SeqCp(C, from, to) \subseteq Cells
         /\ \A s \in to : Holds(SeqCp(C, from, to), s) = Holds(C, from)
         /\ \A s : s \notin to => Holds(SeqCp(C, from, to), s) = Holds(C, s)
<1> DEFINE copy(c) == IF from \in c.seqs THEN [c EXCEPT !.seqs = @ \cup to] ELSE c
<1>1. ASSUME NEW c \in C
      PROVE  /\ copy(c) \in Cells /\ copy(c).pos = c.pos /\ copy(c).tok = c.tok
             /\ copy(c).seqs = c.seqs \cup IF from \in c.seqs THEN to ELSE {}
  BY DEF Cells
<1>2. SeqCp(C, from, to) = {copy(c) : c \in C}
  BY DEF SeqCp
<1> HIDE DEF copy
<1>3. ASSUME NEW s
      PROVE  Holds(SeqCp(C, from, to), s) =
                Holds(C, s) \cup IF s \in to THEN Holds(C, from) ELSE {}
  <2>1. Holds(SeqCp(C, from, to), s) =
           {<<copy(c).pos, copy(c).tok>> : c \in {d \in C : s \in copy(d).seqs}}
    BY <1>2 DEF Holds
  <2>2. @ = {<<c.pos, c.tok>> : c \in {d \in C : s \in d.seqs \/ (from \in d.seqs /\ s \in to)}}
    BY <1>1
  <2>. QED
    BY <2>1, <2>2 DEF Holds
<1>4. SeqCp(C, from, to) \subseteq Cells
  BY <1>1, <1>2
<1>5. ASSUME NEW s \in to PROVE Holds(SeqCp(C, from, to), s) = Holds(C, from)
  BY <1>3
<1>6. ASSUME NEW s, s \notin to PROVE Holds(SeqCp(C, from, to), s) = Holds(C, s)
  BY <1>3, <1>6
<1>. QED
  BY <1>4, <1>5, <1>6

LEMMA SeqRmHolds ==
  ASSUME NEW C, C \subseteq Cells, NEW seqs, NEW first \in Nat
  PROVE  /\ SeqRm(C, seqs, first) \subseteq Cells
         /\ \A s : Holds(SeqRm(C, seqs, first), s) =
                      IF s \in seqs THEN HoldsUpTo(C, s, first - 1) ELSE Holds(C, s)
<1> DEFINE cut(c) == IF c.pos >= first THEN [c EXCEPT !.seqs = @ \ seqs] ELSE c
<1>1. ASSUME NEW c \in C
      PROVE  /\ cut(c).seqs # {} => cut(c) \in Cells
             /\ cut(c).pos = c.pos /\ cut(c).tok = c.tok
             /\ c.pos \in Nat
             /\ cut(c).seqs = IF c.pos >= first THEN c.seqs \ seqs ELSE c.seqs
  BY DEF Cells
<1>2. SeqRm(C, seqs, first) = {c \in {cut(d) : d \in C} : c.seqs # {}}
  BY DEF SeqRm
<1> HIDE DEF cut
<1>3. ASSUME NEW s
      PROVE  Holds(SeqRm(C, seqs, first), s) =
                IF s \in seqs THEN {h \in Holds(C, s) : h[1] < first} ELSE Holds(C, s)
  <2>1. Holds(SeqRm(C, seqs, first), s) =
           {<<cut(c).pos, cut(c).tok>> : c \in {d \in C : s \in cut(d).seqs}}
    BY <1>2 DEF Holds
  <2>2. @ = {<<c.pos, c.tok>> :
               c \in {d \in C : s \in d.seqs /\ (d.pos >= first => s \notin seqs)}}
    BY <1>1
  <2>3. ASSUME s \in seqs
        PROVE  {<<c.pos, c.tok>> :
                  c \in {d \in C : s \in d.seqs /\ (d.pos >= first => s \notin seqs)}}
                 = {h \in Holds(C, s) : h[1] < first}
    <3> DEFINE pair(c) == <<c.pos, c.tok>>
    <3>1. ASSUME NEW c \in C PROVE c.pos >= first <=> ~ (pair(c)[1] < first)
      <4>1. c.pos \in Nat /\ pair(c)[1] = c.pos
        BY <1>1
      <4>. HIDE DEF pair
      <4>. QED
        BY <4>1
    <3> HIDE DEF pair
    <3>2. {pair(c) : c \in {d \in C : s \in d.seqs /\ (d.pos >= first => s \notin seqs)}}
             = {h \in {pair(c) : c \in {d \in C : s \in d.seqs}} : h[1] < first}
      BY <2>3, <3>1
    <3>3. Holds(C, s) = {pair(c) : c \in {d \in C : s \in d.seqs}}
      BY DEF Holds, pair
    <3>4. {pair(c) : c \in {d \in C : s \in d.seqs /\ (d.pos >= first => s \notin seqs)}} =
          {<<c.pos, c.tok>> : c \in {d \in C : s \in d.seqs /\ (d.pos >= first => s \notin seqs)}}
      BY DEF pair
    <3>. QED
      BY <3>2, <3>3, <3>4
  <2>. QED
    BY <2>1, <2>2, <2>3 DEF Holds
<1>4. ASSUME NEW s
      PROVE  HoldsUpTo(C, s, first - 1) = {h \in Holds(C, s) : h[1] < first}
  <2>1. \A h \in Holds(C, s) : h[1] \in Nat
    BY HoldsType
  <2>2. \A h \in Holds(C, s) : h[1] <= first - 1 <=> h[1] < first
    BY <2>1
  <2>. QED
    BY <2>2 DEF HoldsUpTo
<1>. QED
  BY <1>1, <1>2, <1>3, <1>4

LEMMA DecodedHolds ==
  ASSUME NEW C, C \subseteq Cells, NEW B, B \subseteq Entries
  PROVE  /\ Decoded(C, B) \subseteq Cells
         /\ \A s : Holds(Decoded(C, B), s) = Holds(C, s) \cup ToCome(B, s)
<1>1. ASSUME NEW e \in B PROVE CellOf(e) \in Cells
  BY DEF CellOf, Entries, Cells
<1>2. ASSUME NEW s PROVE Holds(Decoded(C, B), s) = Holds(C, s) \cup ToCome(B, s)
  <2>1. \A e \in B : CellOf(e).pos = e.pos /\ CellOf(e).tok = e.tok /\ CellOf(e).seqs = {e.seq}
    BY DEF CellOf
  <2>2. Holds(Decoded(C, B), s) =
           Holds(C, s) \cup {<<CellOf(e).pos, CellOf(e).tok>> :
                                e \in {f \in B : s \in CellOf(f).seqs}}
    BY DEF Holds, Decoded
  <2>3. ToCome(B, s) = {<<CellOf(e).pos, CellOf(e).tok>> :
                          e \in {f \in B : s \in CellOf(f).seqs}}
    BY <2>1 DEF ToCome
  <2>. QED
    BY <2>2, <2>3
<1>. QED
  BY <1>1, <1>2 DEF Decoded

\* The entries of aim a from a position on.
Pending(a, at) ==
    {[tok |-> a.toks[i], pos |-> i, seq |-> a.seq,
      slot |-> IF i = Len(a.toks) THEN a.slot ELSE NoSlot] : i \in at + 1 .. Len(a.toks)}

LEMMA ChunkPending ==
  ASSUME NEW a \in Possible, NEW at \in 0 .. Len(a.toks)
  PROVE  /\ Chunk(SubSeq(a.toks, at + 1, Len(a.toks)), at, a.seq, a.slot) = Pending(a, at)
         /\ Pending(a, at) \subseteq Entries /\ IsFiniteSet(Pending(a, at))
<1> DEFINE n == Len(a.toks)
           rest == SubSeq(a.toks, at + 1, n)
           e(i) == [tok |-> a.toks[i], pos |-> i, seq |-> a.seq,
                    slot |-> IF i = n THEN a.slot ELSE NoSlot]
<1>0. a.toks \in Seq(Token) /\ n \in Nat /\ at \in Nat /\ at <= n
      /\ a.seq \in 0 .. Forks /\ a.slot \in Nat
  BY DEF Possible
<1>1. Len(rest) = n - at /\ DOMAIN rest = 1 .. n - at
      /\ \A i \in 1 .. n - at : rest[i] = a.toks[at + i]
  BY <1>0
<1>2. Chunk(rest, at, a.seq, a.slot) = {e(at + i) : i \in 1 .. n - at}
  <2>1. \A i \in 1 .. n - at : e(at + i) =
           [tok |-> rest[i], pos |-> at + i, seq |-> a.seq,
            slot |-> IF i = Len(rest) THEN a.slot ELSE NoSlot]
    <3>1. ASSUME NEW i \in 1 .. n - at PROVE at + i = n <=> i = Len(rest)
      <4>. HIDE DEF n, rest
      <4>. QED
        BY <1>0, <1>1
    <3>. HIDE DEF n, rest
    <3>. QED
      BY <1>1, <3>1
  <2>. QED
    BY <1>1, <2>1, ZenonT(40) DEF Chunk
<1>3. {e(at + i) : i \in 1 .. n - at} = {e(i) : i \in at + 1 .. n}
  <2> HIDE DEF e
  <2>1. \A i \in at + 1 .. n : i - at \in 1 .. n - at /\ i = at + (i - at)
    BY <1>0
  <2>2. \A i \in 1 .. n - at : at + i \in at + 1 .. n
    BY <1>0
  <2>. QED
    BY <2>1, <2>2
<1>4. ASSUME NEW i \in at + 1 .. n PROVE e(i) \in Entries
  <2>1. i \in Nat \ {0} /\ i \in 1 .. n /\ a.toks[i] \in Token /\ NoSlot \in Nat
    BY <1>0 DEF NoSlot
  <2>. QED
    BY <1>0, <2>1 DEF Entries
<1>5. IsFiniteSet({e(i) : i \in at + 1 .. n})
  <2>1. IsFiniteSet(at + 1 .. n)
    <3>1. at + 1 \in Int /\ n \in Int
      BY <1>0
    <3>. QED
      BY <3>1, FS_Interval
  <2>2. IsFiniteSet({[i \in at + 1 .. n |-> e(i)][x] : x \in at + 1 .. n})
    <3>. HIDE DEF e
    <3>. QED
      BY <2>1, ImageFinite
  <2>. QED
    BY <2>2
<1>. QED
  BY <1>2, <1>3, <1>4, <1>5 DEF Pending

\* A decode starts: every sequence holds what comes before, and the rest of
\* its tokens is in the plan.
LEMMA Starts ==
  ASSUME NEW A, A \subseteq Possible, NEW at \in Nat, NEW mem, NEW todo,
         \A a, b \in A : a.seq = b.seq => a = b,
         \A a \in A : at <= Len(a.toks) /\ (a.slot # NoSlot => at < Len(a.toks)),
         \A a \in A : Holds(mem, a.seq) = Placed(SubSeq(a.toks, 1, at)),
         todo = UNION {Pending(a, at) : a \in A}
  PROVE  Decoding(A, mem, todo, {})
<1>1. ASSUME NEW a \in A
      PROVE  /\ a.toks \in Seq(Token) /\ Len(a.toks) \in Nat
             /\ at <= Len(a.toks) /\ DOMAIN a.toks = 1 .. Len(a.toks)
             /\ Placed(SubSeq(a.toks, 1, at)) = {<<i, a.toks[i]>> : i \in 1 .. at}
  <2>1. a.toks \in Seq(Token) /\ Len(a.toks) \in Nat /\ at <= Len(a.toks)
    BY DEF Possible
  <2>2. DOMAIN SubSeq(a.toks, 1, at) = 1 .. at
        /\ \A i \in 1 .. at : SubSeq(a.toks, 1, at)[i] = a.toks[i]
    BY <2>1
  <2>. QED
    BY <2>1, <2>2 DEF Placed
<1>2. ASSUME NEW a \in A
      PROVE  ToCome(todo, a.seq) = {<<i, a.toks[i]>> : i \in at + 1 .. Len(a.toks)}
  <2>1. {f \in todo : f.seq = a.seq} = Pending(a, at)
    <3>1. \A b \in A : \A f \in Pending(b, at) : f.seq = b.seq
      BY DEF Pending
    <3>. HIDE DEF Pending
    <3>. QED
      BY <3>1
  <2> DEFINE e(i) == [tok |-> a.toks[i], pos |-> i, seq |-> a.seq,
                      slot |-> IF i = Len(a.toks) THEN a.slot ELSE NoSlot]
             I == at + 1 .. Len(a.toks)
  <2>2. \A i \in I : e(i).pos = i /\ e(i).tok = a.toks[i]
    OBVIOUS
  <2>3. {f \in todo : f.seq = a.seq} = {e(i) : i \in I}
    BY <2>1 DEF Pending
  <2>. HIDE DEF e, I
  <2>4. {<<x.pos, x.tok>> : x \in {e(i) : i \in I}} = {<<i, a.toks[i]>> : i \in I}
    BY <2>2
  <2>5. ToCome(todo, a.seq) = {<<i, a.toks[i]>> : i \in I}
    BY <2>3, <2>4 DEF ToCome
  <2>. QED
    BY <2>5 DEF I
<1>3. ASSUME NEW a \in A
      PROVE  Holds(mem, a.seq) \cup ToCome(todo, a.seq) = Placed(a.toks)
  <2>1. 1 .. Len(a.toks) = (1 .. at) \cup (at + 1 .. Len(a.toks))
    BY <1>1
  <2>2. Placed(a.toks) = {<<i, a.toks[i]>> : i \in (1 .. at) \cup (at + 1 .. Len(a.toks))}
    BY <1>1, <2>1 DEF Placed
  <2> DEFINE I == 1 .. at
             J == at + 1 .. Len(a.toks)
  <2>3. Holds(mem, a.seq) = {<<i, a.toks[i]>> : i \in I}
    BY <1>1
  <2>4. ToCome(todo, a.seq) = {<<i, a.toks[i]>> : i \in J}
    BY <1>2
  <2>5. Placed(a.toks) = {<<i, a.toks[i]>> : i \in I \cup J}
    BY <2>2
  <2>. HIDE DEF I, J
  <2>. QED
    BY <2>3, <2>4, <2>5
<1>4. ASSUME NEW e \in todo
      PROVE  \E a \in A :
                a.seq = e.seq /\ e.slot = (IF e.pos = Len(a.toks) THEN a.slot ELSE NoSlot)
  BY DEF Pending
<1>5. ASSUME NEW a \in A, a.slot # NoSlot
      PROVE  \E e \in todo : e.seq = a.seq /\ e.pos = Len(a.toks)
  <2>1. Len(a.toks) \in at + 1 .. Len(a.toks)
    BY <1>1, <1>5
  <2> DEFINE e == [tok |-> a.toks[Len(a.toks)], pos |-> Len(a.toks), seq |-> a.seq,
                   slot |-> IF Len(a.toks) = Len(a.toks) THEN a.slot ELSE NoSlot]
  <2>2. e \in Pending(a, at) /\ e.seq = a.seq /\ e.pos = Len(a.toks)
    BY <2>1 DEF Pending
  <2>. QED
    BY <2>2
<1>. QED
  BY <1>3, <1>4, <1>5 DEF Decoding

\* A decode for the aims of a sequence of them, one chunk each.
LEMMA StartsRound ==
  ASSUME NEW n \in Nat, NEW f \in [1 .. n -> Possible], NEW at \in Nat, NEW mem, NEW todo,
         \A j, k \in 1 .. n : f[j].seq = f[k].seq => j = k,
         \A k \in 1 .. n : at <= Len(f[k].toks) /\ (f[k].slot # NoSlot => at < Len(f[k].toks)),
         \A k \in 1 .. n : Holds(mem, f[k].seq) = Placed(SubSeq(f[k].toks, 1, at)),
         todo = UNION {Chunk(SubSeq(f[k].toks, at + 1, Len(f[k].toks)), at, f[k].seq, f[k].slot)
                       : k \in 1 .. n}
  PROVE  /\ Decoding({f[k] : k \in 1 .. n}, mem, todo, {})
         /\ todo \subseteq Entries /\ IsFiniteSet(todo)
<1> DEFINE A == {f[k] : k \in 1 .. n}
           p == [k \in 1 .. n |-> Pending(f[k], at)]
           P == {p[k] : k \in 1 .. n}
<1>1. ASSUME NEW k \in 1 .. n
      PROVE  /\ Chunk(SubSeq(f[k].toks, at + 1, Len(f[k].toks)), at, f[k].seq, f[k].slot) = p[k]
             /\ p[k] \subseteq Entries /\ IsFiniteSet(p[k])
  <2>1. f[k] \in Possible /\ at \in 0 .. Len(f[k].toks)
    BY DEF Possible
  <2>. QED
    BY <2>1, ChunkPending
<1>2. todo = UNION P
  <2>. HIDE DEF p
  <2>. QED
    BY <1>1
<1>3. todo = UNION {Pending(a, at) : a \in A}
  <2>1. \A k \in 1 .. n : p[k] = Pending(f[k], at)
    OBVIOUS
  <2>. HIDE DEF p
  <2>2. {Pending(a, at) : a \in A} = P
    BY <2>1
  <2>. QED
    BY <1>2, <2>2
<1>4. A \subseteq Possible /\ \A a, b \in A : a.seq = b.seq => a = b
  OBVIOUS
<1>5. \A a \in A : /\ at <= Len(a.toks) /\ (a.slot # NoSlot => at < Len(a.toks))
                   /\ Holds(mem, a.seq) = Placed(SubSeq(a.toks, 1, at))
  OBVIOUS
<1>6. Decoding(A, mem, todo, {})
  <2>. HIDE DEF A
  <2>. QED
    BY <1>3, <1>4, <1>5, Starts
<1>7. IsFiniteSet(todo)
  <2>1. IsFiniteSet(1 .. n)
    BY FS_Interval
  <2>2. IsFiniteSet(P)
    <3>. HIDE DEF p
    <3>. QED
      BY <2>1, ImageFinite
  <2>3. \A T \in P : IsFiniteSet(T)
    <3>. HIDE DEF p
    <3>. QED
      BY <1>1
  <2>. HIDE DEF P
  <2>. QED
    BY <1>2, <2>2, <2>3, FS_UNION
<1>8. todo \subseteq Entries
  <2>. HIDE DEF p
  <2>. QED
    BY <1>1, <1>2
<1>. QED
  BY <1>6, <1>7, <1>8

\* A decode for one aim.
LEMMA StartsOne ==
  ASSUME NEW a \in Possible, NEW at \in Nat, NEW mem,
         at <= Len(a.toks), a.slot # NoSlot => at < Len(a.toks),
         Holds(mem, a.seq) = Placed(SubSeq(a.toks, 1, at))
  PROVE  LET todo == Chunk(SubSeq(a.toks, at + 1, Len(a.toks)), at, a.seq, a.slot)
         IN  /\ Decoding({a}, mem, todo, {})
             /\ todo \subseteq Entries /\ IsFiniteSet(todo)
<1> DEFINE todo == Chunk(SubSeq(a.toks, at + 1, Len(a.toks)), at, a.seq, a.slot)
<1>1. todo = Pending(a, at) /\ Pending(a, at) \subseteq Entries /\ IsFiniteSet(Pending(a, at))
  <2>1. at \in 0 .. Len(a.toks)
    BY DEF Possible
  <2>. QED
    BY <2>1, ChunkPending
<1>2. todo = UNION {Pending(b, at) : b \in {a}}
  BY <1>1
<1>. HIDE DEF todo
<1>3. Decoding({a}, mem, todo, {})
  <2> DEFINE A == {a}
  <2>1. /\ A \subseteq Possible /\ \A b, c \in A : b.seq = c.seq => b = c
        /\ \A b \in A : at <= Len(b.toks) /\ (b.slot # NoSlot => at < Len(b.toks))
        /\ \A b \in A : Holds(mem, b.seq) = Placed(SubSeq(b.toks, 1, at))
        /\ todo = UNION {Pending(b, at) : b \in A}
    BY <1>2
  <2>. HIDE DEF A
  <2>2. Decoding(A, mem, todo, {})
    BY <2>1, Starts
  <2>. QED
    BY <2>2 DEF A
<1>4. todo \subseteq Entries /\ IsFiniteSet(todo)
  BY <1>1
<1>. QED
  BY <1>3, <1>4 DEF todo

\* What comes before an entry of a window is in it.
LEMMA FirstIsDown ==
  ASSUME NEW E, E \subseteq Entries, IsFiniteSet(E), NEW k \in Int,
         NEW e \in First(k, E), NEW f \in E, Before(f, e)
  PROVE  f \in First(k, E)
<1> DEFINE Ahead(g) == {d \in E : Before(d, g)}
<1>1. Ahead(f) \subseteq Ahead(e)
  <2>1. \A d \in E : d.seq \in Int /\ d.pos \in Int
    BY DEF Entries
  <2>. QED
    BY <2>1 DEF Before, First
<1>2. IsFiniteSet(Ahead(e)) /\ IsFiniteSet(Ahead(f))
  BY FS_Subset
<1>3. Cardinality(Ahead(f)) <= Cardinality(Ahead(e))
  BY <1>1, <1>2, FS_Subset
<1>4. Cardinality(Ahead(f)) \in Nat /\ Cardinality(Ahead(e)) \in Nat
  BY <1>2, FS_CardinalityType
<1>5. Cardinality(Ahead(e)) < k
  BY DEF First
<1>. HIDE DEF Ahead
<1>6. Cardinality(Ahead(f)) < k
  BY <1>3, <1>4, <1>5
<1>. QED
  BY <1>6 DEF First, Ahead

\* A window of the plan is decoded: the decode goes on.
LEMMA GoesOn ==
  ASSUME NEW A, A \subseteq Possible, NEW mem, mem \subseteq Cells,
         NEW todo, todo \subseteq Entries, NEW read, NEW W, W \subseteq todo,
         \A e \in W : \A f \in todo : Before(f, e) => f \in W,
         Decoding(A, mem, todo, read)
  PROVE  Decoding(A, Decoded(mem, W), todo \ W,
                  read \cup {[slot |-> e.slot, ctx |-> HoldsUpTo(Decoded(mem, W), e.seq, e.pos)]
                             : e \in {f \in W : f.slot # NoSlot}})
<1> DEFINE mem2 == Decoded(mem, W)
           new == {[slot |-> e.slot, ctx |-> HoldsUpTo(mem2, e.seq, e.pos)]
                     : e \in {f \in W : f.slot # NoSlot}}
<1>1. \A s : Holds(mem2, s) = Holds(mem, s) \cup ToCome(W, s)
  BY DecodedHolds
<1>2. \A s : ToCome(todo, s) = ToCome(W, s) \cup ToCome(todo \ W, s)
  BY DEF ToCome
<1>3. \A a \in A : Holds(mem2, a.seq) \cup ToCome(todo \ W, a.seq) = Placed(a.toks)
  BY <1>1, <1>2 DEF Decoding
<1>4. ASSUME NEW a \in A PROVE a.toks \in Seq(Token) /\ Len(a.toks) \in Nat
                               /\ \A h \in Placed(a.toks) : h[1] \in 1 .. Len(a.toks)
                                                          /\ h = <<h[1], a.toks[h[1]]>>
  BY DEF Possible, Placed
<1>5. ASSUME NEW e \in W, e.slot # NoSlot
      PROVE  \E a \in A : /\ a.seq = e.seq /\ a.slot = e.slot /\ a.slot # NoSlot
                          /\ e.pos = Len(a.toks)
                          /\ HoldsUpTo(mem2, e.seq, e.pos) = Placed(a.toks)
  <2>1. PICK a \in A : /\ a.seq = e.seq
                       /\ e.slot = (IF e.pos = Len(a.toks) THEN a.slot ELSE NoSlot)
    BY DEF Decoding
  <2>2. e.pos = Len(a.toks) /\ a.slot = e.slot
    BY <2>1, <1>5
  <2>3. ASSUME NEW f \in todo, f.seq = a.seq PROVE f \in W
    <3>1. <<f.pos, f.tok>> \in ToCome(todo, a.seq)
      BY <2>3 DEF ToCome
    <3>2. <<f.pos, f.tok>> \in Placed(a.toks)
      BY <3>1 DEF Decoding
    <3>3. f.pos \in 1 .. Len(a.toks) /\ <<f.pos, f.tok>> = <<f.pos, a.toks[f.pos]>>
      BY <3>2, <1>4 DEF Placed
    <3>4. CASE f.pos < e.pos
      BY <3>4, <2>1, <2>3 DEF Before
    <3>5. CASE f.pos = e.pos
      <4>1. <<e.pos, e.tok>> \in Placed(a.toks)
        BY <2>1 DEF ToCome, Decoding
      <4>2. e.tok = a.toks[e.pos] /\ f.tok = a.toks[f.pos]
        BY <4>1, <3>3 DEF Placed
      <4>3. PICK b \in A : /\ b.seq = f.seq
                           /\ f.slot = (IF f.pos = Len(b.toks) THEN b.slot ELSE NoSlot)
        BY DEF Decoding
      <4>4. b = a
        BY <4>3, <2>3 DEF Decoding
      <4>5. f.slot = e.slot
        BY <4>3, <4>4, <2>1, <3>5
      <4>6. f = e
        <5>1. e \in Entries /\ f \in Entries
          OBVIOUS
        <5>2. f.seq = e.seq
          BY <2>1, <2>3
        <5>. QED
          BY <5>1, <5>2, <4>2, <4>5, <3>5 DEF Entries
      <4>. QED
        BY <4>6
    <3>. QED
      BY <3>3, <3>4, <3>5, <2>2, <1>4
  <2>4. ToCome(todo \ W, a.seq) = {}
    BY <2>3 DEF ToCome
  <2>5. Holds(mem2, a.seq) = Placed(a.toks)
    BY <1>3, <2>4
  <2>6. HoldsUpTo(mem2, e.seq, e.pos) = Placed(a.toks)
    BY <2>1, <2>2, <2>5, <1>4 DEF HoldsUpTo
  <2>. QED
    BY <2>1, <2>2, <2>6, <1>5
<1>6. \A e \in todo \ W : \E a \in A :
         a.seq = e.seq /\ e.slot = (IF e.pos = Len(a.toks) THEN a.slot ELSE NoSlot)
  BY DEF Decoding
<1>7. ASSUME NEW x \in read \cup new
      PROVE  \E a \in A : a.slot # NoSlot /\ x = [slot |-> a.slot, ctx |-> Placed(a.toks)]
  <2>1. CASE x \in read
    BY <2>1 DEF Decoding
  <2>2. CASE x \in new
    <3>1. PICK e \in W : /\ e.slot # NoSlot
                         /\ x = [slot |-> e.slot, ctx |-> HoldsUpTo(mem2, e.seq, e.pos)]
      BY <2>2
    <3>2. PICK a \in A : /\ a.slot = e.slot /\ a.slot # NoSlot
                         /\ HoldsUpTo(mem2, e.seq, e.pos) = Placed(a.toks)
      BY <3>1, <1>5
    <3>. QED
      BY <3>1, <3>2
  <2>. QED
    BY <2>1, <2>2
<1>8. ASSUME NEW a \in A, a.slot # NoSlot
      PROVE  \/ \E e \in todo \ W : e.seq = a.seq /\ e.pos = Len(a.toks)
             \/ [slot |-> a.slot, ctx |-> Placed(a.toks)] \in read \cup new
  <2>1. CASE [slot |-> a.slot, ctx |-> Placed(a.toks)] \in read
    BY <2>1
  <2>2. CASE \E e \in todo : e.seq = a.seq /\ e.pos = Len(a.toks)
    <3>1. PICK e \in todo : e.seq = a.seq /\ e.pos = Len(a.toks)
      BY <2>2
    <3>2. CASE e \notin W
      BY <3>1, <3>2
    <3>3. CASE e \in W
      <4>1. PICK b \in A : /\ b.seq = e.seq
                           /\ e.slot = (IF e.pos = Len(b.toks) THEN b.slot ELSE NoSlot)
        BY DEF Decoding
      <4>2. b = a
        BY <4>1, <3>1 DEF Decoding
      <4>3. e.slot = a.slot /\ e.slot # NoSlot
        BY <4>1, <4>2, <3>1, <1>8
      <4>4. PICK c \in A : /\ c.seq = e.seq
                           /\ HoldsUpTo(mem2, e.seq, e.pos) = Placed(c.toks)
        BY <4>3, <3>3, <1>5
      <4>5. c = a
        BY <4>4, <3>1 DEF Decoding
      <4>6. [slot |-> e.slot, ctx |-> HoldsUpTo(mem2, e.seq, e.pos)] \in new
        BY <3>3, <4>3
      <4>. QED
        BY <4>3, <4>4, <4>5, <4>6
    <3>. QED
      BY <3>2, <3>3
  <2>. QED
    BY <2>1, <2>2, <1>8 DEF Decoding
<1>9. \A a, b \in A : a.seq = b.seq => a = b
  BY DEF Decoding
<1>. HIDE DEF mem2, new
<1>10. Decoding(A, mem2, todo \ W, read \cup new)
  BY <1>3, <1>6, <1>7, <1>8, <1>9 DEF Decoding
<1>. QED
  BY <1>10 DEF mem2, new

\* Whatever part of a plan is decoded, only the sequences it is for change.
LEMMA StaysApart ==
  ASSUME NEW A, NEW mem, mem \subseteq Cells, NEW todo, todo \subseteq Entries,
         NEW read, NEW W, W \subseteq todo, Decoding(A, mem, todo, read),
         NEW s, \A a \in A : a.seq # s
  PROVE  Holds(Decoded(mem, W), s) = Holds(mem, s)
<1>1. ToCome(W, s) = {}
  BY DEF ToCome, Decoding
<1>2. W \subseteq Entries
  OBVIOUS
<1>3. Holds(Decoded(mem, W), s) = Holds(mem, s) \cup ToCome(W, s)
  BY <1>2, DecodedHolds
<1>. QED
  BY <1>1, <1>3

\* A decode is done: every sequence holds what it should, and the rows are
\* those of the aims.
LEMMA Ends ==
  ASSUME NEW A, NEW mem, NEW read, Decoding(A, mem, {}, read)
  PROVE  /\ \A a \in A : Holds(mem, a.seq) = Placed(a.toks)
         /\ read = {[slot |-> a.slot, ctx |-> Placed(a.toks)] : a \in {b \in A : b.slot # NoSlot}}
<1>1. \A s : ToCome({}, s) = {}
  BY DEF ToCome
<1>. QED
  BY <1>1 DEF Decoding

------------------------------------------------------------------------------
(* Requests.                                                               *)

LEMMA RequestParts ==
  ASSUME NEW r, IsRequest(r)
  PROVE  /\ Len(r.prompts) \in Nat /\ DOMAIN r.prompts = 1 .. Len(r.prompts)
         /\ 1 \in DOMAIN r.prompts
         /\ \A n \in DOMAIN r.prompts :
               /\ r.prompts[n] \in Seq(Token) /\ Len(r.prompts[n]) \in Nat
               /\ r.cands[n] \in Seq(Seq(Token)) /\ r.cands[n] # <<>>
               /\ Len(r.cands[n]) \in Nat \ {0}
               /\ DOMAIN r.cands[n] = 1 .. Len(r.cands[n])
<1>1. r.prompts \in Seq(Seq(Token)) /\ r.prompts # <<>>
  BY DEF IsRequest
<1>2. Len(r.prompts) \in Nat \ {0} /\ DOMAIN r.prompts = 1 .. Len(r.prompts)
  BY <1>1
<1>3. r.cands \in Seq(Seq(Seq(Token))) /\ DOMAIN r.cands = DOMAIN r.prompts
      /\ <<>> \notin Range(r.cands)
  BY DEF IsRequest
<1>4. ASSUME NEW n \in DOMAIN r.prompts
      PROVE  /\ r.prompts[n] \in Seq(Token) /\ Len(r.prompts[n]) \in Nat
             /\ r.cands[n] \in Seq(Seq(Token)) /\ r.cands[n] # <<>>
             /\ Len(r.cands[n]) \in Nat \ {0}
             /\ DOMAIN r.cands[n] = 1 .. Len(r.cands[n])
  <2>1. r.prompts[n] \in Seq(Token) /\ Len(r.prompts[n]) \in Nat
    BY <1>1, <1>2
  <2>2. DOMAIN r.cands = 1 .. Len(r.cands) /\ r.cands[n] \in Seq(Seq(Token))
    BY <1>3
  <2>3. r.cands[n] # <<>>
    BY <1>3 DEF Range
  <2>4. Len(r.cands[n]) \in Nat \ {0} /\ DOMAIN r.cands[n] = 1 .. Len(r.cands[n])
    BY <2>2, <2>3
  <2>. QED
    BY <2>1, <2>2, <2>3, <2>4
<1>. QED
  BY <1>2, <1>4

\* The session of a request is the beginning of each of its prompts, and
\* each has a token after it.
LEMMA SessionShared ==
  ASSUME NEW r, IsRequest(r), ~HasEmptyPrompt(r)
  PROVE  /\ Shared(r) \in Nat /\ Session(r) \in Seq(Token) /\ Len(Session(r)) = Shared(r)
         /\ \A n \in DOMAIN r.prompts :
               /\ Shared(r) < Len(r.prompts[n])
               /\ SubSeq(r.prompts[n], 1, Shared(r)) = Session(r)
<1> DEFINE p(n) == r.prompts[n]
           D == DOMAIN r.prompts
           F == {Len(p(n)) - 1 : n \in D} \cup {CommonLen(p(1), p(n)) : n \in D}
           T == {ForkPoint(r.prompts), CommonLen(r.own, p(1))}
<1>1. /\ 1 \in D
      /\ \A n \in D : p(n) \in Seq(Token) /\ Len(p(n)) \in Nat \ {0}
  BY RequestParts DEF HasEmptyPrompt
<1>2. ASSUME NEW a \in Seq(Token), NEW b \in Seq(Token)
      PROVE  /\ CommonLen(a, b) \in 0 .. Len(a)
             /\ SubSeq(a, 1, CommonLen(a, b)) = SubSeq(b, 1, CommonLen(a, b))
             /\ CommonLen(a, b) <= Len(b)
  BY CommonPrefixOfTwo DEF CommonLen
<1>3. F \subseteq Nat /\ F # {}
  <2>1. \A n \in D : Len(p(n)) - 1 \in Nat
    BY <1>1
  <2>2. ASSUME NEW n \in D PROVE CommonLen(p(1), p(n)) \in Nat
    <3>. HIDE DEF p
    <3>1. Len(p(1)) \in Nat /\ CommonLen(p(1), p(n)) \in 0 .. Len(p(1))
      BY <1>1, <1>2
    <3>. QED
      BY <3>1
  <2>. HIDE DEF p
  <2>. QED
    BY <1>1, <2>1, <2>2
<1>4. ForkPoint(r.prompts) \in F /\ \A y \in F : ForkPoint(r.prompts) =< y
  <2>1. ForkPoint(r.prompts) = Min(F)
    BY Zenon DEF ForkPoint, F, p, D
  <2>. HIDE DEF F
  <2>. QED
    BY <1>3, <2>1, MinOfNaturals
<1>5. T \subseteq Nat /\ T # {}
  <2>1. r.own \in Seq(Token) /\ Len(r.own) \in Nat
    BY DEF IsRequest
  <2>2. CommonLen(r.own, p(1)) \in 0 .. Len(r.own)
    BY <1>1, <1>2, <2>1
  <2>3. ForkPoint(r.prompts) \in Nat
    BY <1>3, <1>4
  <2>. HIDE DEF F, p
  <2>. QED
    BY <2>1, <2>2, <2>3
<1>6. Shared(r) \in T /\ \A y \in T : Shared(r) =< y
  <2>1. Shared(r) = Min(T)
    BY Zenon DEF Shared, T, p
  <2>. HIDE DEF T
  <2>. QED
    BY <1>5, <2>1, MinOfNaturals
<1>7. Shared(r) \in Nat /\ \A y \in F : Shared(r) =< y
  <2>. HIDE DEF F
  <2>1. \A y \in F : y \in Nat
    BY <1>3
  <2>. QED
    BY <1>4, <1>5, <1>6, <2>1
<1>8. ASSUME NEW n \in D
      PROVE  /\ Shared(r) < Len(p(n))
             /\ SubSeq(p(n), 1, Shared(r)) = SubSeq(p(1), 1, Shared(r))
  <2> DEFINE c == CommonLen(p(1), p(n))
  <2>1. Shared(r) =< Len(p(n)) - 1 /\ Shared(r) =< c
    BY <1>7
  <2>2. /\ c \in 0 .. Len(p(1)) /\ c <= Len(p(n))
        /\ SubSeq(p(1), 1, c) = SubSeq(p(n), 1, c)
    BY <1>1, <1>2
  <2>3. /\ p(1) \in Seq(Token) /\ p(n) \in Seq(Token)
        /\ Len(p(1)) \in Nat /\ Len(p(n)) \in Nat
    BY <1>1
  <2>. HIDE DEF p, c
  <2>4. \A i \in 1 .. c : p(1)[i] = p(n)[i]
    <3>1. \A i \in 1 .. c : SubSeq(p(1), 1, c)[i] = p(1)[i] /\ SubSeq(p(n), 1, c)[i] = p(n)[i]
      BY <2>2, <2>3
    <3>. QED
      BY <3>1, <2>2
  <2>5. /\ SubSeq(p(1), 1, Shared(r)) \in Seq(Token) /\ SubSeq(p(n), 1, Shared(r)) \in Seq(Token)
        /\ Len(SubSeq(p(1), 1, Shared(r))) = Shared(r)
        /\ Len(SubSeq(p(n), 1, Shared(r))) = Shared(r)
        /\ \A i \in 1 .. Shared(r) : /\ SubSeq(p(1), 1, Shared(r))[i] = p(1)[i]
                                    /\ SubSeq(p(n), 1, Shared(r))[i] = p(n)[i]
    BY <2>1, <2>2, <2>3, <1>7
  <2>6. SubSeq(p(n), 1, Shared(r)) = SubSeq(p(1), 1, Shared(r))
    <3>1. \A i \in 1 .. Shared(r) : SubSeq(p(n), 1, Shared(r))[i] = SubSeq(p(1), 1, Shared(r))[i]
      BY <2>1, <2>2, <2>4, <2>5, <1>7
    <3>. QED
      BY <2>5, <3>1, SeqEqual
  <2>. QED
    BY <2>1, <2>3, <2>6, <1>7
<1>9. Session(r) \in Seq(Token) /\ Len(Session(r)) = Shared(r)
  <2>1. p(1) \in Seq(Token) /\ Shared(r) < Len(p(1)) /\ Len(p(1)) \in Nat
    BY <1>1, <1>8
  <2>. QED
    BY <2>1, <1>7 DEF Session
<1>. QED
  BY <1>7, <1>8, <1>9 DEF Session

\* A sequence of numbers of S up to m, in order.
Rising(sq, S, m) ==
    /\ sq \in Seq(S)
    /\ \A i \in 1 .. Len(sq) : sq[i] \in Nat /\ sq[i] <= m
    /\ \A i, j \in 1 .. Len(sq) : i < j => sq[i] < sq[j]

LEMMA RisingMore ==
  ASSUME NEW S, NEW m \in Nat, m # 0, NEW sq, Rising(sq, S, m - 1), NEW new,
         new = sq \/ (m \in S /\ new = Append(sq, m))
  PROVE  Rising(new, S, m)
<1>1. /\ sq \in Seq(S) /\ Len(sq) \in Nat
      /\ \A i \in 1 .. Len(sq) : sq[i] \in Nat /\ sq[i] < m
      /\ \A i, j \in 1 .. Len(sq) : i < j => sq[i] < sq[j]
  BY DEF Rising
<1>2. CASE new = sq
  BY <1>1, <1>2 DEF Rising
<1>3. CASE m \in S /\ new = Append(sq, m)
  <2>1. new \in Seq(S) /\ Len(new) = Len(sq) + 1 /\ new[Len(sq) + 1] = m
    BY <1>1, <1>3
  <2>2. \A i \in 1 .. Len(sq) : new[i] = sq[i]
    BY <1>1, <1>3
  <2>3. \A i \in 1 .. Len(new) : new[i] \in Nat /\ new[i] <= m
    BY <1>1, <2>1, <2>2
  <2>4. \A i, j \in 1 .. Len(new) : i < j => new[i] < new[j]
    BY <1>1, <2>1, <2>2
  <2>. QED
    BY <2>1, <2>3, <2>4 DEF Rising
<1>. QED
  BY <1>2, <1>3

LEMMA SingleRises ==
  ASSUME NEW r, IsRequest(r)
  PROVE  Rising(Single(r), {n \in DOMAIN r.prompts : OneToken(r, n)}, Len(r.prompts))
<1> DEFINE N == Len(r.prompts)
           S == {n \in DOMAIN r.prompts : OneToken(r, n)}
           one(g, n) == IF n = 0 THEN <<>>
                        ELSE IF OneToken(r, n) THEN Append(g[n - 1], n) ELSE g[n - 1]
           Good(g, m) == g = [n \in 0 .. m |-> one(g, n)]
           Bad == {m \in Nat : ~ \E g : Good(g, m)}
           upTo == CHOOSE g : Good(g, N)
           Wrong == {m \in Nat : m <= N /\ ~ Rising(upTo[m], S, m)}
<1>0. N \in Nat /\ DOMAIN r.prompts = 1 .. N
  BY RequestParts
<1>1. Bad = {}
  <2>1. SUFFICES ASSUME Bad # {} PROVE FALSE
    OBVIOUS
  <2> DEFINE m == Min(Bad)
  <2>2. m \in Bad /\ \A y \in Bad : m =< y
    <3>. HIDE DEF Bad
    <3>1. Bad \subseteq Nat
      BY DEF Bad
    <3>. QED
      BY <2>1, <3>1, MinOfNaturals
  <2>. HIDE DEF m
  <2>3. m \in Nat
    BY <2>2
  <2>4. m # 0
    <3>1. Good([n \in 0 .. 0 |-> <<>>], 0)
      OBVIOUS
    <3>. QED
      BY <2>2, <3>1
  <2>5. PICK g : Good(g, m - 1)
    <3>1. m - 1 \in Nat /\ ~ (m =< m - 1)
      BY <2>3, <2>4
    <3>. QED
      BY <2>2, <3>1
  <2> DEFINE h == [n \in 0 .. m |-> IF n = m THEN one(g, m) ELSE g[n]]
  <2>6. \A n \in 0 .. m : h[n] = one(h, n)
    <3>1. ASSUME NEW n \in 0 .. m, n # 0 PROVE h[n - 1] = g[n - 1]
      BY <2>3, <3>1
    <3>2. ASSUME NEW n \in 0 .. m PROVE one(h, n) = one(g, n)
      <4>. HIDE DEF h
      <4>. QED
        BY <3>1
    <3>3. ASSUME NEW n \in 0 .. m, n # m PROVE g[n] = one(g, n)
      <4>1. n \in 0 .. m - 1
        BY <2>3, <3>3
      <4>. QED
        BY <2>5, <4>1
    <3>. QED
      BY <3>2, <3>3
  <2>7. Good(h, m)
    <3>. HIDE DEF one
    <3>1. h = [n \in 0 .. m |-> h[n]]
      OBVIOUS
    <3>. HIDE DEF h
    <3>. QED
      BY <2>6, <3>1
  <2>. QED
    BY <2>2, <2>7
<1>2. Good(upTo, N)
  <2>1. \E g : Good(g, N)
    BY <1>0, <1>1
  <2>. HIDE DEF Good
  <2>. QED
    BY <2>1
<1>3. Single(r) = upTo[N]
  BY Zenon DEF Single, upTo, Good, one, N
<1>. HIDE DEF upTo, Good
<1>4. Wrong = {}
  <2>1. SUFFICES ASSUME Wrong # {} PROVE FALSE
    OBVIOUS
  <2> DEFINE m == Min(Wrong)
  <2>2. m \in Wrong /\ \A y \in Wrong : m =< y
    <3>. HIDE DEF Wrong
    <3>1. Wrong \subseteq Nat
      BY DEF Wrong
    <3>. QED
      BY <2>1, <3>1, MinOfNaturals
  <2>. HIDE DEF m
  <2>3. m \in Nat /\ m \in 0 .. N
    BY <1>0, <2>2
  <2>4. upTo[m] = one(upTo, m)
    BY <1>2, <2>3 DEF Good
  <2>5. CASE m = 0
    <3>1. upTo[m] = <<>>
      BY <2>4, <2>5
    <3>2. Rising(upTo[m], S, m)
      BY <3>1 DEF Rising
    <3>. QED
      BY <2>2, <3>2
  <2>6. CASE m # 0
    <3>1. m - 1 \in Nat /\ m - 1 <= N /\ ~ (m =< m - 1) /\ m \in 1 .. N
      BY <2>3, <2>6, <1>0
    <3>2. Rising(upTo[m - 1], S, m - 1)
      BY <2>2, <3>1
    <3>3. OneToken(r, m) => m \in S
      BY <3>1, <1>0
    <3>4. upTo[m] = upTo[m - 1] \/ (m \in S /\ upTo[m] = Append(upTo[m - 1], m))
      <4>. HIDE DEF S
      <4>. QED
        BY <2>4, <2>6, <3>3
    <3>5. Rising(upTo[m], S, m)
      <4>. HIDE DEF S
      <4>1. PICK old, new : old = upTo[m - 1] /\ new = upTo[m]
        OBVIOUS
      <4>2. Rising(old, S, m - 1) /\ (new = old \/ (m \in S /\ new = Append(old, m)))
        BY <3>2, <3>4, <4>1
      <4>3. Rising(new, S, m)
        BY <2>3, <2>6, <4>2, RisingMore
      <4>. QED
        BY <4>1, <4>3
    <3>. QED
      BY <2>2, <3>5
  <2>. QED
    BY <2>5, <2>6
<1>5. Rising(upTo[N], S, N)
  <2>. HIDE DEF S
  <2>1. N \in Nat /\ N <= N /\ N \notin Wrong
    BY <1>0, <1>4
  <2>. HIDE DEF N
  <2>. QED
    BY <2>1
<1>. QED
  BY <1>3, <1>5

LEMMA SingleType ==
  ASSUME NEW r, IsRequest(r)
  PROVE  /\ Single(r) \in Seq({n \in DOMAIN r.prompts : OneToken(r, n)})
         /\ \A i, j \in 1 .. Len(Single(r)) : Single(r)[i] = Single(r)[j] => i = j
<1> DEFINE S == {n \in DOMAIN r.prompts : OneToken(r, n)}
<1>1. Rising(Single(r), S, Len(r.prompts))
  BY SingleRises
<1>. HIDE DEF S
<1>2. Single(r) \in Seq(S)
  BY <1>1 DEF Rising
<1>3. Len(Single(r)) \in Nat
  BY <1>2
<1>4. \A i, j \in 1 .. Len(Single(r)) : Single(r)[i] = Single(r)[j] => i = j
  BY <1>1, <1>3 DEF Rising
<1>. QED
  BY <1>2, <1>4 DEF S

\* The tokens of the one-token fingerprints at some indices.
Tails(r, indices) == [i \in indices |-> SuffixLen(r, Single(r)[i])]

\* Within the limits, what a round is forked for fits, at least one
\* fingerprint: a refusal for want of room is check_limits' alone.
LEMMA RoundSizeIs ==
  ASSUME NEW r, IsRequest(r), ~HasEmptyPrompt(r), WithinLimits(r),
         NEW from \in 1 .. Len(Single(r))
  PROVE  /\ RoundSize(r, from) \in 1 .. Forks
         /\ from + RoundSize(r, from) - 1 <= Len(Single(r))
         /\ Shared(r) + SumFunctionOnSet(Tails(r, from .. from + RoundSize(r, from) - 1),
                                         from .. from + RoundSize(r, from) - 1) <= NCtx
<1> DEFINE left == Len(Single(r)) - from + 1
           sum(k) == SumFunctionOnSet(Tails(r, from .. from + k - 1), from .. from + k - 1)
           Room(k) == Shared(r) + sum(k) <= NCtx
           most == Min({Forks, left})
           K == {k \in 0 .. most : Room(k)}
<1>1. Len(Single(r)) \in Nat /\ from \in Nat /\ from >= 1 /\ from <= Len(Single(r))
      /\ Single(r)[from] \in DOMAIN r.prompts
  <2> DEFINE S == {n \in DOMAIN r.prompts : OneToken(r, n)}
  <2>1. S \subseteq DOMAIN r.prompts
    OBVIOUS
  <2>2. Single(r) \in Seq(S)
    BY SingleType
  <2>. HIDE DEF S
  <2>. QED
    BY <2>1, <2>2
<1>2. Forks \in Nat /\ Forks >= 1 /\ left \in Nat /\ left >= 1
  BY <1>1, LimitAssumption
<1>3. most \in Nat /\ most >= 1 /\ most <= Forks /\ most <= left
  <2>. HIDE DEF left
  <2>1. most \in {Forks, left} /\ \A y \in {Forks, left} : most =< y
    BY <1>2, MinOfNaturals
  <2>. QED
    BY <1>2, <2>1
<1>4. Room(1)
  <2> DEFINE n == Single(r)[from]
  <2>1. n \in DOMAIN r.prompts /\ Len(r.prompts[n]) \in Nat /\ Shared(r) \in Nat
    BY <1>1, RequestParts, SessionShared
  <2>2. SuffixLen(r, n) \in Int /\ Shared(r) + SuffixLen(r, n) = Len(r.prompts[n])
    <3>1. PICK l, a : l = Len(r.prompts[n]) /\ a = Shared(r)
      OBVIOUS
    <3>2. l \in Nat /\ a \in Nat /\ SuffixLen(r, n) = l - a
      BY <2>1, <3>1 DEF SuffixLen
    <3>. QED
      BY <3>1, <3>2
  <2>3. from .. from + 1 - 1 = {from}
    BY <1>1
  <2>4. SumFunctionOnSet(Tails(r, {from}), {from}) = SuffixLen(r, n)
    <3>1. PICK f, v : f = Tails(r, {from}) /\ v = SuffixLen(r, n)
      OBVIOUS
    <3>2. f[from] = v
      BY <3>1 DEF Tails
    <3>3. v \in Nat
      <4>1. PICK l, a : l = Len(r.prompts[n]) /\ a = Shared(r)
        OBVIOUS
      <4>2. l \in Nat /\ a \in Nat /\ a < l /\ v = l - a
        BY <2>1, <3>1, <4>1, SessionShared DEF SuffixLen
      <4>. QED
        BY <4>2
    <3>4. SumFunctionOnSet(f, {from}) = f[from]
      <4>1. PICK U : U = {from}
        OBVIOUS
      <4>2. IsFiniteSet({from})
        BY FS_Singleton
      <4>3. IsFiniteSet(U) /\ from \in U /\ f[from] \in Nat /\ \A x \in U : x # from => f[x] = 0
        BY <3>2, <3>3, <4>1, <4>2
      <4>. HIDE DEF n
      <4>4. SumFunctionOnSet(f, U) = f[from]
        BY <4>3, SumSingle
      <4>. QED
        BY <4>1, <4>4
    <3>. QED
      BY <3>1, <3>2, <3>4
  <2>5. Len(r.prompts[n]) <= NCtx
    <3>1. Len(r.prompts[n]) + Max({Len(<<>>) - 1, 0}) <= NCtx
      BY <2>1 DEF WithinLimits
    <3>2. Max({Len(<<>>) - 1, 0}) = 0
      BY DEF Max
    <3>. QED
      BY <2>1, <3>1, <3>2
  <2>. HIDE DEF n
  <2>6. sum(1) = SuffixLen(r, n)
    BY <2>3, <2>4
  <2>. HIDE DEF sum
  <2>. QED
    BY <2>2, <2>5, <2>6
<1>5. RoundSize(r, from) = Max(K)
  <2>1. \A k : SumFunction([i \in from .. from + k - 1 |-> SuffixLen(r, Single(r)[i])]) = sum(k)
    <3>1. ASSUME NEW k
          PROVE  SumFunction([i \in from .. from + k - 1 |-> SuffixLen(r, Single(r)[i])]) = sum(k)
      <4>1. PICK S : S = from .. from + k - 1
        OBVIOUS
      <4>2. PICK f : f = [i \in S |-> SuffixLen(r, Single(r)[i])]
        OBVIOUS
      <4>3. DOMAIN f = S
        BY <4>2
      <4>. QED
        BY <4>1, <4>2, <4>3, Zenon DEF SumFunction, Tails
    <3>. QED
      BY <3>1
  <2> DEFINE rounds == {k \in 0 .. most : Shared(r) +
                  SumFunction([i \in from .. from + k - 1 |-> SuffixLen(r, Single(r)[i])]) <= NCtx}
  <2>2. RoundSize(r, from) = Max(rounds)
    BY Zenon DEF RoundSize, most, left
  <2>. HIDE DEF most, sum
  <2>3. rounds = K
    BY <2>1
  <2>. QED
    BY <2>2, <2>3, Zenon
<1>6. 1 \in K
  <2>. HIDE DEF most, Room
  <2>. QED
    BY <1>3, <1>4
<1>7. Max(K) \in K /\ Max(K) >= 1
  <2>. HIDE DEF most, Room
  <2>1. K \subseteq 0 .. most
    OBVIOUS
  <2>. HIDE DEF K
  <2>. QED
    BY <1>3, <1>6, <2>1, MaxOfNaturals
<1>8. PICK k : k = RoundSize(r, from)
  OBVIOUS
<1>9. k \in 0 .. most /\ Room(k) /\ k >= 1
  <2>1. k \in K /\ k >= 1
    <3>. HIDE DEF K
    <3>. QED
      BY <1>5, <1>7, <1>8
  <2>. HIDE DEF most, Room
  <2>. QED
    BY <2>1
<1>10. Room(RoundSize(r, from))
  <2>. HIDE DEF Room
  <2>. QED
    BY <1>8, <1>9
<1>11. k \in 1 .. Forks /\ from + k - 1 <= Len(Single(r))
  <2>1. from + left - 1 = Len(Single(r))
    BY <1>1
  <2>. HIDE DEF most, Room, left
  <2>. QED
    BY <1>1, <1>2, <1>3, <1>9, <2>1
<1>. HIDE DEF most
<1>. QED
  BY <1>8, <1>10, <1>11

------------------------------------------------------------------------------
(* Labels.                                                                 *)

\* Nodes read under prompt p; a node of them.
ReadUnder(p, read) ==
    \A x \in read : x.node \in Seq(Token) /\ x.ctx = Placed(p \o x.node)
Covers(read, node) == \E x \in read : x.node = node

LEMMA NodesFinite ==
  ASSUME NEW labs \in Seq(Seq(Token))
  PROVE  /\ Nodes(Range(labs)) \subseteq Seq(Token)
         /\ IsFiniteSet(Nodes(Range(labs)))
<1> DEFINE prefixes(c) == {SubSeq(c, 1, d) : d \in 0 .. Len(c) - 1}
           f == [m \in DOMAIN labs |-> prefixes(labs[m])]
<1>1. Nodes(Range(labs)) = UNION {f[m] : m \in DOMAIN labs}
  <2>1. Nodes(Range(labs)) = UNION {prefixes(c) : c \in Range(labs)}
    BY DEF Nodes
  <2>. HIDE DEF prefixes
  <2>. QED
    BY <2>1 DEF Range
<1>2. ASSUME NEW m \in DOMAIN labs PROVE f[m] \subseteq Seq(Token) /\ IsFiniteSet(f[m])
  <2> DEFINE c == labs[m]
             g == [d \in 0 .. Len(c) - 1 |-> SubSeq(c, 1, d)]
  <2>1. c \in Seq(Token) /\ Len(c) \in Nat
    OBVIOUS
  <2>2. IsFiniteSet(0 .. Len(c) - 1)
    BY <2>1, FS_Interval
  <2>3. IsFiniteSet({g[d] : d \in 0 .. Len(c) - 1})
    <3>. HIDE DEF g, c
    <3>. QED
      BY <2>2, ImageFinite
  <2>4. f[m] = {g[d] : d \in 0 .. Len(c) - 1}
    OBVIOUS
  <2>5. ASSUME NEW d \in 0 .. Len(c) - 1 PROVE g[d] \in Seq(Token)
    <3>. HIDE DEF c
    <3>1. \A i \in 1 .. d : c[i] \in Token
      BY <2>1
    <3>. QED
      BY <3>1, SubSeqProperties
  <2>. HIDE DEF f, g, c
  <2>. QED
    BY <2>3, <2>4, <2>5
<1>3. IsFiniteSet(DOMAIN labs)
  <2>1. DOMAIN labs = 1 .. Len(labs) /\ Len(labs) \in Nat
    OBVIOUS
  <2>. QED
    BY <2>1, FS_Interval
<1>. HIDE DEF f
<1>4. IsFiniteSet({f[m] : m \in DOMAIN labs})
  BY <1>3, ImageFinite
<1>5. IsFiniteSet(UNION {f[m] : m \in DOMAIN labs})
  <2>1. \A T \in {f[m] : m \in DOMAIN labs} : IsFiniteSet(T)
    BY <1>2
  <2> DEFINE G == {f[m] : m \in DOMAIN labs}
  <2>. HIDE DEF G
  <2>2. IsFiniteSet(G) /\ \A T \in G : IsFiniteSet(T)
    BY <1>4, <2>1 DEF G
  <2>3. IsFiniteSet(UNION G)
    BY <2>2, FS_UNION
  <2>. QED
    BY <2>3 DEF G
<1>. QED
  BY <1>1, <1>2, <1>5

\* A node of one-token labels is the root of their trie.
LEMMA OneTokenNodes ==
  ASSUME NEW labs \in Seq(Seq(Token)), \A c \in Range(labs) : Len(c) = 1
  PROVE  \A m \in DOMAIN labs : \A d \in 0 .. Len(labs[m]) - 1 : SubSeq(labs[m], 1, d) = <<>>
<1> TAKE m \in DOMAIN labs
<1> TAKE d \in 0 .. Len(labs[m]) - 1
<1>1. Len(labs[m]) = 1
  BY DEF Range
<1>2. d = 0
  BY <1>1
<1>. QED
  BY <1>2, SubSeqEmpty

\* What the nodes of the labels' trie read, under prompt p.
Truth(labs, p) == {[node |-> q, ctx |-> Placed(p \o q)] : q \in Nodes(Range(labs))}

\* The labels' reading: once every node of their trie was read under prompt p,
\* their terms are the reference's, whatever else was read there.
LEMMA MarksAreReference ==
  ASSUME NEW labs \in Seq(Seq(Token)), NEW p, NEW read, ReadUnder(p, read),
         \A m \in DOMAIN labs : \A d \in 0 .. Len(labs[m]) - 1 :
            Covers(read, SubSeq(labs[m], 1, d))
  PROVE  Marks(labs, read) = Marks(labs, Truth(labs, p))
<1> DEFINE truth == {[node |-> q, ctx |-> Placed(p \o q)] : q \in Nodes(Range(labs))}
           Term(c, d, from) == {<<x.ctx, c[d]>> : x \in {y \in from : y.node = SubSeq(c, 1, d - 1)}}
<1>1. ASSUME NEW m \in DOMAIN labs, NEW d \in DOMAIN labs[m]
      PROVE  Term(labs[m], d, read) = Term(labs[m], d, truth)
  <2> DEFINE c == labs[m]
             node == SubSeq(c, 1, d - 1)
  <2>1. c \in Seq(Token) /\ d \in 1 .. Len(c) /\ Len(c) \in Nat
    OBVIOUS
  <2>2. d - 1 \in 0 .. Len(c) - 1
    BY <2>1
  <2>3. Covers(read, node)
    BY <2>2
  <2>4. node \in Nodes(Range(labs))
    <3>1. c \in Range(labs)
      BY DEF Range
    <3>. QED
      BY <2>2, <3>1, SMTT(20) DEF Nodes
  <2>. HIDE DEF node, c
  <2>5. {<<x.ctx, c[d]>> : x \in {y \in read : y.node = node}} = {<<Placed(p \o node), c[d]>>}
    BY <2>3 DEF Covers, ReadUnder
  <2>6. {<<x.ctx, c[d]>> : x \in {y \in truth : y.node = node}} = {<<Placed(p \o node), c[d]>>}
    <3> DEFINE z == [node |-> node, ctx |-> Placed(p \o node)]
    <3>1. {y \in truth : y.node = node} = {z}
      BY <2>4
    <3>2. z.ctx = Placed(p \o node)
      OBVIOUS
    <3>. HIDE DEF z, truth
    <3>3. {<<x.ctx, c[d]>> : x \in {z}} = {<<z.ctx, c[d]>>}
      OBVIOUS
    <3>. QED
      BY <3>1, <3>2, <3>3
  <2>. QED
    BY <2>5, <2>6 DEF node, c
<1>2. ASSUME NEW m \in DOMAIN labs PROVE Terms(labs[m], read) = Terms(labs[m], truth)
  <2>1. \A from : Terms(labs[m], from) = UNION {Term(labs[m], d, from) : d \in DOMAIN labs[m]}
    BY DEF Terms
  <2>. HIDE DEF Term, truth
  <2>. QED
    BY <1>1, <2>1, ZenonT(40)
<1>. HIDE DEF truth
<1>3. Marks(labs, read) = Marks(labs, truth)
  BY <1>2 DEF Marks
<1>. QED
  BY <1>3 DEF truth, Truth

------------------------------------------------------------------------------
(* The inductive invariant.                                                *)

Question(r) == r.prompts[Current(r)]
Label(r) == r.cands[1][next]

\* What thread t, in its call, is decoding.
Aims(t) ==
    LET r == req[t]
    IN  CASE pc[t] = "prefill" -> {Aim(0, Session(r), NoSlot)}
          [] pc[t] = "round" ->
                {Aim(k, r.prompts[round[k]], round[k]) : k \in DOMAIN round}
          [] pc[t] = "root" -> {Aim(1, Question(r), 1)}
          [] pc[t] = "probe" ->
                {Aim(k + 1, Question(r) \o round[k], k) : k \in DOMAIN round}
          [] pc[t] = "whole" ->
                {Aim(0, r.prompts[1] \o SubSeq(Label(r), 1, depth), 1)}
          [] pc[t] = "head" -> {Aim(0, SubSeq(r.prompts[1], 1, start), NoSlot)}
          [] pc[t] = "tail" -> {Aim(0, r.prompts[1], 1)}
          [] OTHER -> {}

Forked == {"rounds", "round", "root", "probes", "probe"}
Limited == {"lock", "prefill"} \cup Forked
Cut == {"head", "tail"}
Trial == {"whole"} \cup Cut

\* A call is where its kind takes it, and past its checks.
CallFits(t) ==
    /\ pc[t] \in {"labels", "prepare"} \cup Limited => req[t].kind = "score"
    /\ pc[t] \in {"control", "whole"} => req[t].kind = "control"
    /\ pc[t] \in {"split"} \cup Cut => req[t].kind = "split"
    /\ pc[t] \in {"control", "split"} \cup Trial => command = "polygraph"
    /\ pc[t] \in Limited => ~HasEmptyPrompt(req[t]) /\ WithinLimits(req[t])
    /\ pc[t] = "whole" => ~Tokenless(req[t])
    /\ pc[t] \in Cut => OneToken(req[t], 1)

\* The forks thread t uses.
InUse(t) ==
    CASE pc[t] = "round" -> RoundSeqs
      [] pc[t] \in {"root", "probes"} -> {1}
      [] pc[t] = "probe" -> {1} \cup ProbeSeqs
      [] OTHER -> {}

\* Its memory: what it decodes, the session under it, nothing elsewhere.
MemoryFits(t) ==
    /\ Decoding(Aims(t), cells, plan, rows)
    /\ \A s \in (1 .. Forks) \ InUse(t) : Holds(cells, s) = {}
    /\ pc[t] \in Forked =>
          cached = Session(req[t]) /\ Holds(cells, 0) = Placed(Session(req[t]))
    /\ pc[t] \in {"probes", "probe"} => Holds(cells, 1) = Placed(Question(req[t]))
    /\ pc[t] \in Trial => cached = <<>>

\* Its round of forks.
RoundFits(t) ==
    /\ pc[t] \notin {"round", "probe"} => round = <<>>
    /\ pc[t] = "round" =>
          /\ round \in Seq({n \in DOMAIN req[t].prompts : OneToken(req[t], n)})
          /\ Len(round) <= Forks
    /\ pc[t] = "probe" =>
          /\ round \in Seq(Probes(req[t], Current(req[t])))
          /\ Len(round) < Forks
    /\ pc[t] \in {"root", "probes", "probe"} => Unread(req[t]) # {}
    /\ pc[t] \in Cut => start < Len(req[t].prompts[1])

\* What it has read.
ReadingsFit(t) ==
    /\ \A y \in readings : /\ y.n \in DOMAIN req[t].prompts
                           /\ y.marks = Reference(req[t])[y.n]
    /\ pc[t] \notin Forked => readings = {}
    /\ pc[t] \in {"probes", "probe"} =>
          ReadUnder(Question(req[t]), nodes) /\ Covers(nodes, <<>>)
    /\ pc[t] \notin {"probes", "probe", "whole"} => nodes = {}

\* The labels a control reading has read, and where it is in the next one.
ControlFits(t) ==
    pc[t] = "whole" =>
        LET labs == req[t].cands[1]
        IN  /\ next \in DOMAIN labs /\ depth < Len(labs[next])
            /\ ReadUnder(req[t].prompts[1], nodes)
            /\ \A m \in DOMAIN labs : \A d \in 0 .. Len(labs[m]) - 1 :
                  m < next \/ (m = next /\ d < depth) => Covers(nodes, SubSeq(labs[m], 1, d))

Holding(t) == MemoryFits(t) /\ RoundFits(t) /\ ReadingsFit(t) /\ ControlFits(t)

\* What SessionKept says, whoever holds the mutex.
Kept ==
    /\ Holds(cells, 0) = Placed(cached)
    /\ \A s \in 1 .. Forks : Holds(cells, s) = {}

\* Nobody is in a call's decodes: its locals are gone, the session is kept.
AtRest ==
    owner = None =>
        /\ plan = {} /\ rows = {} /\ round = <<>> /\ next = 1 /\ depth = 0
        /\ start = 0 /\ nodes = {} /\ readings = {} /\ work = 0
        /\ alive => Kept

\* An error ended the run: nobody is in a call any more.
Ended ==
    ~alive => command = "polygraph" /\ owner = None /\ \A t \in Threads : pc[t] = "idle"

EngineInv ==
    /\ TypeOK /\ DOMAIN answer = Threads /\ answer = [t \in Threads |-> answer[t]]
    /\ IsFiniteSet(plan)
    /\ AtRest /\ Ended
    /\ \A t \in Threads : CallFits(t)
    /\ \A t \in Threads : owner = t => Holding(t)

LEMMA InvInit == Init => EngineInv
<1> SUFFICES ASSUME Init PROVE EngineInv
  OBVIOUS
<1> USE DEF Init
<1>1. TypeOK
  BY EngineAssumption DEF TypeOK, Cells, Entries, Labels, Inside
<1>2. IsFiniteSet(plan)
  BY FS_EmptySet
<1>3. AtRest
  <2>1. Placed(<<>>) = {} /\ \A s : Holds({}, s) = {}
    BY DEF Placed, Holds
  <2>. QED
    BY <2>1 DEF AtRest, Kept
<1>4. Ended
  BY DEF Ended
<1>5. \A t \in Threads : CallFits(t)
  BY DEF CallFits, Limited, Forked, Trial, Cut
<1>6. \A t \in Threads : owner # t
  BY EngineAssumption
<1>. QED
  BY <1>1, <1>2, <1>3, <1>4, <1>5, <1>6 DEF EngineInv

------------------------------------------------------------------------------
(* What a step of thread t leaves to prove, by how it leaves the mutex.    *)

\* In a call: its request, and that the process lives.
LEMMA InCall ==
  ASSUME EngineInv, NEW t \in Threads, pc[t] # "idle"
  PROVE  /\ req[t] \in Requests /\ IsRequest(req[t]) /\ req[t] # NoRequest
         /\ alive = TRUE /\ CallFits(t)
         /\ t # None
<1>1. req[t] \in Requests /\ req[t] # NoRequest
  BY EngineAssumption DEF EngineInv, TypeOK
<1>2. alive = TRUE
  BY DEF EngineInv, Ended, TypeOK
<1>. QED
  BY <1>1, <1>2, RequestAssumption, EngineAssumption DEF EngineInv

\* Outside the mutex: only the thread's place, its request and its answer
\* change.
LEMMA MovesOutside ==
  ASSUME EngineInv, NEW t \in Threads, owner # t, alive = TRUE,
         NEW l \in Labels \ (Inside \cup {"idle"}), NEW r \in Requests, NEW a,
         pc' = [pc EXCEPT ![t] = l], req' = [req EXCEPT ![t] = r],
         answer' = [answer EXCEPT ![t] = a],
         UNCHANGED <<command, cells, cached, owner, alive, frame>>,
         CallFits(t)'
  PROVE  EngineInv'
<1> USE DEF frame
<1>1. ASSUME NEW u \in Threads, u # t
      PROVE  pc'[u] = pc[u] /\ req'[u] = req[u]
  BY <1>1 DEF EngineInv, TypeOK
<1>2. pc'[t] = l /\ req'[t] = r
  BY DEF EngineInv, TypeOK
<1>3. TypeOK'
  <2>1. /\ pc' \in [Threads -> Labels] /\ req' \in [Threads -> Requests \cup {NoRequest}]
    BY DEF EngineInv, TypeOK
  <2>2. \A u \in Threads : /\ (pc[u] = "idle" <=> req[u] = NoRequest)'
                           /\ (pc[u] \in Inside <=> owner = u)'
    BY <1>1, <1>2, EngineAssumption DEF EngineInv, TypeOK
  <2>. QED
    BY <2>1, <2>2 DEF EngineInv, TypeOK
<1>4. (DOMAIN answer = Threads /\ answer = [u \in Threads |-> answer[u]])'
  BY DEF EngineInv
<1>5. IsFiniteSet(plan)' /\ AtRest' /\ Ended'
  BY DEF EngineInv, AtRest, Ended, Kept
<1>6. \A u \in Threads : CallFits(u)'
  <2>. SUFFICES ASSUME NEW u \in Threads, u # t PROVE CallFits(u)'
    OBVIOUS
  <2>. QED
    BY <1>1 DEF EngineInv, CallFits
<1>7. ASSUME NEW u \in Threads, owner' = u PROVE Holding(u)'
  <2>1. u # t /\ Holding(u)
    BY <1>7 DEF EngineInv
  <2>2. pc'[u] = pc[u] /\ req'[u] = req[u]
    BY <1>1, <2>1
  <2>3. Aims(u)' = Aims(u)
    BY <2>2 DEF Aims, Label, Question, Current, Unread
  <2>4. MemoryFits(u)'
    BY <2>1, <2>2, <2>3 DEF Holding, MemoryFits, Question, Current, Unread, InUse, RoundSeqs, ProbeSeqs
  <2>5. RoundFits(u)'
    BY <2>1, <2>2 DEF Holding, RoundFits, Question, Current, Unread
  <2>6. ReadingsFit(u)' /\ ControlFits(u)'
    BY <2>1, <2>2 DEF Holding, ReadingsFit, ControlFits, Question, Current, Unread
  <2>. QED
    BY <2>4, <2>5, <2>6 DEF Holding
<1>. QED
  BY <1>3, <1>4, <1>5, <1>6, <1>7 DEF EngineInv

\* Inside the mutex, or into it: what the step leaves the call is Holding.
LEMMA MovesInside ==
  ASSUME EngineInv, NEW t \in Threads, pc[t] # "idle", owner \in {t, None}, owner' = t,
         NEW l \in Inside, pc' = [pc EXCEPT ![t] = l],
         UNCHANGED <<command, alive, req, answer>>,
         cells' \subseteq Cells, cached' \in Seq(Token),
         plan' \subseteq Entries, IsFiniteSet(plan'),
         next' \in Nat \ {0}, depth' \in Nat, start' \in Nat, work' \in Nat,
         CallFits(t)', Holding(t)'
  PROVE  EngineInv'
<1>1. ASSUME NEW u \in Threads, u # t PROVE pc'[u] = pc[u] /\ owner # u
  BY <1>1, EngineAssumption DEF EngineInv, TypeOK
<1>2. pc'[t] = l /\ alive = TRUE /\ t # None /\ l # "idle" /\ l \in Labels
  BY InCall DEF EngineInv, TypeOK, Inside, Labels
<1>3. TypeOK'
  <2>1. pc' \in [Threads -> Labels]
    BY <1>2 DEF EngineInv, TypeOK
  <2>2. \A u \in Threads : /\ (pc[u] = "idle" <=> req[u] = NoRequest)'
                           /\ (pc[u] \in Inside <=> owner = u)'
    BY <1>1, <1>2 DEF EngineInv, TypeOK
  <2>. QED
    BY <2>1, <2>2 DEF EngineInv, TypeOK
<1>4. (DOMAIN answer = Threads /\ answer = [u \in Threads |-> answer[u]])'
  BY DEF EngineInv
<1>5. IsFiniteSet(plan)' /\ AtRest' /\ Ended'
  BY <1>2 DEF AtRest, Ended
<1>6. \A u \in Threads : CallFits(u)'
  <2>. SUFFICES ASSUME NEW u \in Threads, u # t PROVE CallFits(u)'
    OBVIOUS
  <2>. QED
    BY <1>1 DEF EngineInv, CallFits
<1>. QED
  BY <1>3, <1>4, <1>5, <1>6 DEF EngineInv

\* The call returns, and the mutex with it if the thread held it: the session
\* is kept, unless the process ends.
LEMMA ReturnsKeep ==
  ASSUME EngineInv, NEW t \in Threads, pc[t] # "idle", NEW a, Return(t, a),
         UNCHANGED command,
         owner = t => cells' \subseteq Cells /\ cached' \in Seq(Token) /\ (alive' => Kept'),
         owner # t => UNCHANGED <<cells, cached>>
  PROVE  EngineInv'
<1> USE DEF frame
<1>0. /\ pc' = [pc EXCEPT ![t] = "idle"] /\ req' = [req EXCEPT ![t] = NoRequest]
      /\ answer' = [answer EXCEPT ![t] = a] /\ alive' \in BOOLEAN
      /\ ~alive' => command # "serve"
      /\ owner' = IF owner = t THEN None ELSE owner
  BY InCall DEF Return, Goto, LetGo
<1>1. ASSUME NEW u \in Threads, u # t PROVE pc'[u] = pc[u] /\ req'[u] = req[u]
  BY <1>0, <1>1 DEF EngineInv, TypeOK
<1>2. pc'[t] = "idle" /\ req'[t] = NoRequest /\ alive = TRUE /\ t # None
  BY <1>0, InCall DEF EngineInv, TypeOK
<1>3. ~alive' => /\ command = "polygraph" /\ \A u \in Threads : u = t
  BY <1>0, EngineAssumption DEF EngineInv, TypeOK, AllCommands
<1>4. CASE owner = t
  <2>1. /\ plan' = {} /\ rows' = {} /\ round' = <<>> /\ next' = 1 /\ depth' = 0
        /\ start' = 0 /\ nodes' = {} /\ readings' = {} /\ work' = 0 /\ owner' = None
    BY <1>4, <1>0 DEF Return
  <2>2. TypeOK'
    <3>1. pc' \in [Threads -> Labels] /\ req' \in [Threads -> Requests \cup {NoRequest}]
      BY <1>0 DEF EngineInv, TypeOK, Labels
    <3>2. \A u \in Threads : /\ (pc[u] = "idle" <=> req[u] = NoRequest)'
                             /\ (pc[u] \in Inside <=> owner = u)'
      BY <1>1, <1>2, <1>4, <2>1, EngineAssumption DEF EngineInv, TypeOK, Inside
    <3>. QED
      BY <1>0, <1>4, <2>1, <3>1, <3>2 DEF EngineInv, TypeOK
  <2>3. IsFiniteSet(plan)' /\ AtRest'
    BY <1>4, <2>1, FS_EmptySet DEF AtRest
  <2>4. \A u \in Threads : owner' # u
    BY <2>1, EngineAssumption
  <2>5. Ended'
    BY <1>2, <1>3, <2>1 DEF Ended
  <2>6. \A u \in Threads : CallFits(u)'
    <3>1. CallFits(t)'
      BY <1>2 DEF CallFits, Limited, Forked, Trial, Cut
    <3>2. ASSUME NEW u \in Threads, u # t PROVE CallFits(u)'
      BY <1>1, <3>2 DEF EngineInv, CallFits
    <3>. QED
      BY <3>1, <3>2
  <2>. QED
    BY <1>0, <2>2, <2>3, <2>4, <2>5, <2>6 DEF EngineInv
<1>5. CASE owner # t
  <2>1. UNCHANGED <<cells, cached, owner, frame>>
    BY <1>5, <1>0 DEF Return
  <2>2. TypeOK'
    <3>1. pc' \in [Threads -> Labels] /\ req' \in [Threads -> Requests \cup {NoRequest}]
      BY <1>0 DEF EngineInv, TypeOK, Labels
    <3>2. \A u \in Threads : /\ (pc[u] = "idle" <=> req[u] = NoRequest)'
                             /\ (pc[u] \in Inside <=> owner = u)'
      BY <1>1, <1>2, <1>5, <2>1, EngineAssumption DEF EngineInv, TypeOK, Inside
    <3>. QED
      BY <1>0, <2>1, <3>1, <3>2 DEF EngineInv, TypeOK
  <2>3. IsFiniteSet(plan)' /\ AtRest'
    BY <1>2, <2>1 DEF EngineInv, AtRest, Kept
  <2>4. Ended'
    <3>1. ASSUME ~alive' PROVE owner = None
      BY <1>3, <1>5, <3>1 DEF EngineInv, TypeOK
    <3>. QED
      BY <1>2, <1>3, <2>1, <3>1 DEF Ended
  <2>5. \A u \in Threads : CallFits(u)'
    <3>1. CallFits(t)'
      BY <1>2 DEF CallFits, Limited, Forked, Trial, Cut
    <3>2. ASSUME NEW u \in Threads, u # t PROVE CallFits(u)'
      BY <1>1, <3>2 DEF EngineInv, CallFits
    <3>. QED
      BY <3>1, <3>2
  <2>6. ASSUME NEW u \in Threads, owner' = u PROVE Holding(u)'
    <3>1. u # t /\ Holding(u)
      BY <1>5, <2>1, <2>6 DEF EngineInv
    <3>2. pc'[u] = pc[u] /\ req'[u] = req[u]
      BY <1>1, <3>1
    <3>3. Aims(u)' = Aims(u)
      BY <2>1, <3>2 DEF Aims, Label, Question, Current, Unread
    <3>4. MemoryFits(u)'
      BY <2>1, <3>1, <3>2, <3>3
      DEF Holding, MemoryFits, Question, Current, Unread, InUse, RoundSeqs, ProbeSeqs
    <3>5. RoundFits(u)'
      BY <2>1, <3>1, <3>2 DEF Holding, RoundFits, Question, Current, Unread
    <3>6. ReadingsFit(u)' /\ ControlFits(u)'
      BY <2>1, <3>1, <3>2 DEF Holding, ReadingsFit, ControlFits, Question, Current, Unread
    <3>. QED
      BY <3>4, <3>5, <3>6 DEF Holding
  <2>. QED
    BY <1>0, <2>2, <2>3, <2>4, <2>5, <2>6 DEF EngineInv
<1>. QED
  BY <1>4, <1>5

------------------------------------------------------------------------------
(* The steps outside the mutex.                                            *)

LEMMA AskKeeps ==
  ASSUME EngineInv, NEW t \in Threads, NEW r \in Requests, Ask(t, r), UNCHANGED command
  PROVE  EngineInv'
<1> DEFINE l == IF r.kind = "score" THEN "labels" ELSE r.kind
<1>1. r.kind \in {"score", "control", "split"}
  BY RequestAssumption DEF IsRequest
<1>2. l \in Labels \ (Inside \cup {"idle"})
  BY <1>1 DEF Labels, Inside
<1>3. /\ pc' = [pc EXCEPT ![t] = l] /\ req' = [req EXCEPT ![t] = r]
      /\ answer' = [answer EXCEPT ![t] = NoAnswer] /\ alive = TRUE
      /\ UNCHANGED <<command, cells, cached, owner, alive, frame>>
  BY DEF Ask, Goto, inner, EngineInv, TypeOK
<1>4. owner # t
  BY DEF Ask, EngineInv, TypeOK, Inside
<1>5. CallFits(t)'
  <2>1. pc'[t] = l /\ req'[t] = r
    BY <1>3 DEF EngineInv, TypeOK
  <2>2. r.kind # "score" => command' = "polygraph"
    BY DEF Ask
  <2>. QED
    BY <1>1, <2>1, <2>2 DEF CallFits, Limited, Forked, Trial, Cut
<1>. HIDE DEF l
<1>. QED
  BY <1>2, <1>3, <1>4, <1>5, MovesOutside

\* A call goes on to its next place outside the mutex.
LEMMA GoesOutside ==
  ASSUME EngineInv, NEW t \in Threads, pc[t] # "idle", owner # t,
         NEW l \in Labels \ (Inside \cup {"idle"}), Goto(t, l),
         UNCHANGED <<command, cells, cached, owner, alive, req, answer, frame>>,
         CallFits(t)'
  PROVE  EngineInv'
<1>1. req[t] \in Requests /\ alive = TRUE
  BY InCall
<1>2. req' = [req EXCEPT ![t] = req[t]] /\ answer' = [answer EXCEPT ![t] = answer[t]]
  BY DEF EngineInv, TypeOK
<1>. QED
  BY <1>1, <1>2, MovesOutside DEF Goto

LEMMA TakeLabelsKeeps ==
  ASSUME EngineInv, NEW t \in Threads, TakeLabels(t), UNCHANGED command
  PROVE  EngineInv'
<1>1. owner # t /\ pc[t] = "labels" /\ UNCHANGED <<cells, cached>>
  BY EngineAssumption DEF TakeLabels
<1>2. CASE Tokenless(req[t])
  <2>1. Return(t, Rejected)
    BY <1>2 DEF TakeLabels
  <2>. QED
    BY <1>1, <2>1, ReturnsKeep
<1>3. CASE ~Tokenless(req[t])
  <2>1. Goto(t, "prepare") /\ UNCHANGED <<owner, alive, req, answer, frame>>
    BY <1>3 DEF TakeLabels
  <2>2. CallFits(t)'
    <3>1. pc'[t] = "prepare" /\ req'[t] = req[t] /\ req[t].kind = "score"
      BY <1>1, <2>1, InCall DEF Goto, EngineInv, TypeOK, CallFits
    <3>. QED
      BY <3>1 DEF CallFits, Limited, Forked, Trial, Cut
  <2>3. "prepare" \in Labels \ (Inside \cup {"idle"})
    BY DEF Labels, Inside
  <2>. QED
    BY <1>1, <2>1, <2>2, <2>3, GoesOutside
<1>. QED
  BY <1>2, <1>3

LEMMA PrepareKeeps ==
  ASSUME EngineInv, NEW t \in Threads, Prepare(t), UNCHANGED command
  PROVE  EngineInv'
<1>1. owner # t /\ pc[t] = "prepare" /\ UNCHANGED <<cells, cached>>
  BY DEF Prepare, EngineInv, TypeOK, Inside, inner
<1>2. CASE HasEmptyPrompt(req[t]) \/ ~WithinLimits(req[t])
  <2>1. Return(t, Rejected)
    BY <1>2 DEF Prepare
  <2>. QED
    BY <1>1, <2>1, ReturnsKeep
<1>3. CASE ~HasEmptyPrompt(req[t]) /\ WithinLimits(req[t])
  <2>1. Goto(t, "lock") /\ UNCHANGED <<owner, alive, req, answer, frame>>
    BY <1>3 DEF Prepare
  <2>2. CallFits(t)'
    <3>1. pc'[t] = "lock" /\ req'[t] = req[t] /\ req[t].kind = "score"
      BY <1>1, <2>1, InCall DEF Goto, EngineInv, TypeOK, CallFits
    <3>. QED
      BY <1>3, <3>1 DEF CallFits, Limited, Forked, Trial, Cut
  <2>3. "lock" \in Labels \ (Inside \cup {"idle"})
    BY DEF Labels, Inside
  <2>. QED
    BY <1>1, <2>1, <2>2, <2>3, GoesOutside
<1>. QED
  BY <1>2, <1>3

LEMMA TokenizerFailsKeeps ==
  ASSUME EngineInv, NEW t \in Threads, TokenizerFails(t), UNCHANGED command
  PROVE  EngineInv'
<1>1. /\ pc[t] \in {"labels", "control", "split", "prepare"} /\ UNCHANGED <<cells, cached>>
      /\ Return(t, Failed)
  BY DEF TokenizerFails
<1>2. owner # t
  BY <1>1 DEF EngineInv, TypeOK, Inside
<1>. QED
  BY <1>1, <1>2, ReturnsKeep

------------------------------------------------------------------------------
(* Decoding.                                                               *)

\* The aims of a call are possible, each for its own sequence.
LEMMA AimsType ==
  ASSUME EngineInv, NEW t \in Threads, owner = t
  PROVE  Aims(t) \subseteq Possible
<1> DEFINE r == req[t]
<1>1. /\ pc[t] # "idle" /\ Holding(t) /\ IsRequest(r) /\ CallFits(t)
  BY InCall DEF EngineInv, TypeOK, Inside
<1>2. ASSUME NEW seq \in 0 .. Forks, NEW toks \in Seq(Token), NEW slot \in Nat
      PROVE  Aim(seq, toks, slot) \in Possible
  BY DEF Aim, Possible
<1>3. /\ 0 \in 0 .. Forks /\ 1 \in 0 .. Forks /\ NoSlot \in Nat /\ 1 \in Nat /\ Forks \in Nat
      /\ start \in Nat /\ depth \in Nat
  BY LimitAssumption DEF NoSlot, EngineInv, TypeOK
<1>4. /\ \A n \in DOMAIN r.prompts : r.prompts[n] \in Seq(Token) /\ n \in Nat
      /\ 1 \in DOMAIN r.prompts
  BY <1>1, RequestParts
<1>5. CASE pc[t] = "prefill"
  <2>1. Session(r) \in Seq(Token)
    BY <1>1, <1>5, SessionShared DEF CallFits, Limited
  <2>2. Aims(t) = {Aim(0, Session(r), NoSlot)}
    BY <1>5 DEF Aims
  <2>. QED
    BY <1>2, <1>3, <2>1, <2>2
<1>6. CASE pc[t] = "round"
  <2>1. Len(round) \in Nat /\ Len(round) <= Forks /\ DOMAIN round = 1 .. Len(round)
        /\ \A k \in DOMAIN round : round[k] \in DOMAIN r.prompts
    <3> DEFINE S == {n \in DOMAIN r.prompts : OneToken(r, n)}
    <3>1. round \in Seq(S) /\ S \subseteq DOMAIN r.prompts /\ Len(round) <= Forks
      BY <1>1, <1>6 DEF Holding, RoundFits
    <3>. HIDE DEF S
    <3>. QED
      BY <3>1
  <2>2. Aims(t) = {Aim(k, r.prompts[round[k]], round[k]) : k \in DOMAIN round}
    BY <1>6 DEF Aims
  <2>3. ASSUME NEW k \in DOMAIN round
        PROVE  Aim(k, r.prompts[round[k]], round[k]) \in Possible
    BY <1>2, <1>3, <1>4, <2>1
  <2>. QED
    BY <2>2, <2>3
<1>7. ASSUME pc[t] \in {"root", "probe"} PROVE Question(r) \in Seq(Token)
  <2>1. Unread(r) # {} /\ Unread(r) \subseteq DOMAIN r.prompts /\ DOMAIN r.prompts \subseteq Nat
    BY <1>1, <1>4, <1>7 DEF Holding, RoundFits, Unread
  <2>2. Current(r) \in DOMAIN r.prompts
    BY <2>1, MinOfNaturals DEF Current
  <2>. QED
    BY <1>4, <2>2 DEF Question
<1>8. CASE pc[t] = "root"
  <2>1. Aims(t) = {Aim(1, Question(r), 1)}
    BY <1>8 DEF Aims
  <2>. QED
    BY <1>2, <1>3, <1>7, <1>8, <2>1
<1>9. CASE pc[t] = "probe"
  <2>1. Unread(r) # {} /\ Unread(r) \subseteq DOMAIN r.prompts /\ DOMAIN r.prompts \subseteq Nat
    BY <1>1, <1>4, <1>9 DEF Holding, RoundFits, Unread
  <2>2. Current(r) \in DOMAIN r.prompts
    BY <2>1, MinOfNaturals DEF Current
  <2>3. Probes(r, Current(r)) \subseteq Seq(Token)
    BY <1>1, <2>2, RequestParts, NodesFinite DEF Probes
  <2>4. /\ Len(round) \in Nat /\ Len(round) < Forks /\ DOMAIN round = 1 .. Len(round)
        /\ \A k \in DOMAIN round : round[k] \in Seq(Token)
    <3> DEFINE P == Probes(r, Current(r))
    <3>1. round \in Seq(P) /\ P \subseteq Seq(Token) /\ Len(round) < Forks
      BY <1>1, <1>9, <2>3 DEF Holding, RoundFits
    <3>. HIDE DEF P
    <3>. QED
      BY <3>1
  <2>5. Aims(t) = {Aim(k + 1, Question(r) \o round[k], k) : k \in DOMAIN round}
    BY <1>9 DEF Aims
  <2>6. ASSUME NEW k \in DOMAIN round
        PROVE  Aim(k + 1, Question(r) \o round[k], k) \in Possible
    <3>1. k + 1 \in 0 .. Forks /\ k \in Nat /\ Question(r) \o round[k] \in Seq(Token)
      BY <1>3, <1>7, <1>9, <2>4
    <3>. QED
      BY <1>2, <3>1
  <2>. QED
    BY <2>5, <2>6
<1>10. CASE pc[t] = "whole"
  <2>1. /\ Label(r) \in Seq(Token) /\ depth < Len(Label(r))
    BY <1>1, <1>4, <1>10, RequestParts DEF Holding, ControlFits, Label
  <2>2. r.prompts[1] \o SubSeq(Label(r), 1, depth) \in Seq(Token)
    <3>1. SubSeq(Label(r), 1, depth) \in Seq(Token)
      BY <1>3, <2>1
    <3>. QED
      BY <1>4, <3>1
  <2>3. Aims(t) = {Aim(0, r.prompts[1] \o SubSeq(Label(r), 1, depth), 1)}
    BY <1>10 DEF Aims
  <2>. QED
    BY <1>2, <1>3, <2>2, <2>3
<1>11. CASE pc[t] = "head"
  <2>1. start < Len(r.prompts[1])
    BY <1>1, <1>11 DEF Holding, RoundFits, Cut
  <2>2. SubSeq(r.prompts[1], 1, start) \in Seq(Token)
    BY <1>3, <1>4, <2>1
  <2>3. Aims(t) = {Aim(0, SubSeq(r.prompts[1], 1, start), NoSlot)}
    BY <1>11 DEF Aims
  <2>. QED
    BY <1>2, <1>3, <2>2, <2>3
<1>12. CASE pc[t] = "tail"
  <2>1. Aims(t) = {Aim(0, r.prompts[1], 1)}
    BY <1>12 DEF Aims
  <2>. QED
    BY <1>2, <1>3, <1>4, <2>1
<1>13. CASE pc[t] \in {"rounds", "probes"}
  <2>1. Aims(t) = {}
    BY <1>13 DEF Aims
  <2>. QED
    BY <2>1
<1>. QED
  BY <1>5, <1>6, <1>8, <1>9, <1>10, <1>11, <1>12, <1>13 DEF EngineInv, TypeOK, Inside

\* An aim is on a fork the call uses, or outside of forks on the session's
\* sequence; never on the session under a fork or the root under a probe.
LEMMA AimsApart ==
  ASSUME EngineInv, NEW t \in Threads, owner = t, NEW a \in Aims(t)
  PROVE  /\ a.seq \in InUse(t) \/ (pc[t] \notin Forked /\ a.seq = 0)
         /\ pc[t] \in Forked => a.seq # 0
         /\ pc[t] \in {"probes", "probe"} => a.seq # 1
<1>1. pc[t] \in Inside /\ Holding(t)
  BY DEF EngineInv, TypeOK
<1>2. \A seq, toks, slot : Aim(seq, toks, slot).seq = seq
  BY DEF Aim
<1>3. CASE pc[t] \in {"prefill", "whole", "head", "tail"}
  BY <1>2, <1>3 DEF Aims, Forked
<1>4. CASE pc[t] \in {"rounds", "probes"}
  BY <1>4 DEF Aims
<1>5. CASE pc[t] = "root"
  BY <1>2, <1>5 DEF Aims, InUse
<1>6. CASE pc[t] = "round"
  <2>1. PICK k \in DOMAIN round : a.seq = k
    BY <1>2, <1>6 DEF Aims
  <2>2. DOMAIN round = RoundSeqs
    BY <1>1, <1>6 DEF Holding, RoundFits, RoundSeqs
  <2>. QED
    BY <1>6, <2>1, <2>2 DEF InUse, RoundSeqs
<1>7. CASE pc[t] = "probe"
  <2>1. PICK k \in DOMAIN round : a.seq = k + 1
    BY <1>2, <1>7 DEF Aims
  <2>2. DOMAIN round = 1 .. Len(round) /\ Len(round) \in Nat
    BY <1>1, <1>7 DEF Holding, RoundFits
  <2>3. a.seq \in ProbeSeqs /\ a.seq # 0 /\ a.seq # 1
    BY <2>1, <2>2 DEF ProbeSeqs
  <2>. QED
    BY <1>7, <2>3 DEF InUse
<1>. QED
  BY <1>1, <1>3, <1>4, <1>5, <1>6, <1>7 DEF Inside

\* A part of the plan is decoded: the types, and what it leaves alone.
LEMMA PartDecoded ==
  ASSUME EngineInv, NEW t \in Threads, owner = t, NEW W, W \subseteq plan
  PROVE  /\ Decoded(cells, W) \subseteq Cells
         /\ \A s \in (1 .. Forks) \ InUse(t) : Holds(Decoded(cells, W), s) = {}
         /\ pc[t] \in Forked => Holds(Decoded(cells, W), 0) = Holds(cells, 0)
         /\ pc[t] \in {"probes", "probe"} => Holds(Decoded(cells, W), 1) = Holds(cells, 1)
<1>1. cells \subseteq Cells /\ plan \subseteq Entries /\ W \subseteq Entries
      /\ Decoding(Aims(t), cells, plan, rows)
      /\ \A s \in (1 .. Forks) \ InUse(t) : Holds(cells, s) = {}
  BY DEF EngineInv, TypeOK, Holding, MemoryFits
<1>2. Decoded(cells, W) \subseteq Cells
  BY <1>1, DecodedHolds
<1>3. ASSUME NEW s, \A a \in Aims(t) : a.seq # s
      PROVE  Holds(Decoded(cells, W), s) = Holds(cells, s)
  BY <1>1, <1>3, StaysApart
<1>4. ASSUME NEW s \in (1 .. Forks) \ InUse(t)
      PROVE  Holds(Decoded(cells, W), s) = {}
  <2>1. \A a \in Aims(t) : a.seq # s
    BY AimsApart
  <2>. QED
    BY <1>1, <1>3, <2>1
<1>5. ASSUME pc[t] \in Forked PROVE Holds(Decoded(cells, W), 0) = Holds(cells, 0)
  BY <1>3, <1>5, AimsApart
<1>6. ASSUME pc[t] \in {"probes", "probe"} PROVE Holds(Decoded(cells, W), 1) = Holds(cells, 1)
  BY <1>3, <1>6, AimsApart
<1>. QED
  BY <1>2, <1>4, <1>5, <1>6

LEMMA DecodeWindowKeeps ==
  ASSUME EngineInv, NEW t \in Threads, DecodeWindow(t), UNCHANGED command
  PROVE  EngineInv'
<1> DEFINE W == Window
<1>1. /\ owner = t /\ cells' = Decoded(cells, W) /\ plan' = plan \ W
      /\ rows' = rows \cup {[slot |-> e.slot, ctx |-> HoldsUpTo(cells', e.seq, e.pos)]
                            : e \in {f \in W : f.slot # NoSlot}}
      /\ work' = work + Cardinality(W)
      /\ UNCHANGED <<command, cached, labels, owner, alive, pc, req, answer,
                     round, next, depth, start, nodes, readings>>
  BY DEF DecodeWindow
<1>2. /\ pc[t] \in Inside /\ pc[t] # "idle" /\ Holding(t) /\ cells \subseteq Cells
      /\ plan \subseteq Entries /\ IsFiniteSet(plan) /\ CallFits(t)
      /\ pc = [pc EXCEPT ![t] = pc[t]] /\ work \in Nat
  BY <1>1 DEF EngineInv, TypeOK, Inside
<1>3. W \subseteq plan /\ IsFiniteSet(W) /\ Cardinality(W) \in Nat
  <2>1. W \subseteq plan
    BY DEF Window, First
  <2>. QED
    BY <1>2, <2>1, FS_Subset, FS_CardinalityType
<1>4. \A e \in W : \A f \in plan : Before(f, e) => f \in W
  <2>1. NBatch \in Int
    BY EngineAssumption
  <2>. QED
    BY <1>2, <2>1, FirstIsDown DEF Window
<1>. HIDE DEF W
<1>5. Aims(t) \subseteq Possible /\ Decoding(Aims(t), cells, plan, rows)
  BY <1>1, <1>2, AimsType DEF Holding, MemoryFits
<1>6. Decoding(Aims(t), cells', plan', rows')
  <2>1. Decoding(Aims(t), Decoded(cells, W), plan \ W,
                 rows \cup {[slot |-> e.slot, ctx |-> HoldsUpTo(Decoded(cells, W), e.seq, e.pos)]
                            : e \in {f \in W : f.slot # NoSlot}})
    BY <1>2, <1>3, <1>4, <1>5, GoesOn
  <2>. QED
    BY <1>1, <2>1
<1>7. Aims(t)' = Aims(t)
  BY <1>1 DEF Aims, Label, Question, Current, Unread
<1>8. /\ cells' \subseteq Cells
      /\ \A s \in (1 .. Forks) \ InUse(t) : Holds(cells', s) = {}
      /\ pc[t] \in Forked => Holds(cells', 0) = Holds(cells, 0)
      /\ pc[t] \in {"probes", "probe"} => Holds(cells', 1) = Holds(cells, 1)
  BY <1>1, <1>3, PartDecoded
<1>9. MemoryFits(t)'
  BY <1>1, <1>2, <1>6, <1>7, <1>8
  DEF Holding, MemoryFits, Question, Current, Unread, InUse, RoundSeqs, ProbeSeqs
<1>10. RoundFits(t)'
  BY <1>1, <1>2 DEF Holding, RoundFits, Question, Current, Unread
<1>11. ReadingsFit(t)' /\ ControlFits(t)'
  BY <1>1, <1>2 DEF Holding, ReadingsFit, ControlFits, Question, Current, Unread
<1>12. CallFits(t)'
  BY <1>1, <1>2 DEF CallFits
<1>13. /\ cached' \in Seq(Token) /\ next' \in Nat \ {0} /\ depth' \in Nat /\ start' \in Nat
       /\ work' \in Nat /\ plan' \subseteq Entries /\ IsFiniteSet(plan')
  <2>1. IsFiniteSet(plan \ W)
    BY <1>2, FS_Subset
  <2>. QED
    BY <1>1, <1>2, <1>3, <2>1 DEF EngineInv, TypeOK
<1>14. Holding(t)'
  BY <1>9, <1>10, <1>11 DEF Holding
<1>. QED
  BY <1>1, <1>2, <1>8, <1>12, <1>13, <1>14, MovesInside

\* Whatever a failed window left is a part of the plan on top of the cells.
LEMMA TornPart ==
  ASSUME NEW left \in Torn
  PROVE  \E W : W \subseteq plan /\ left = Decoded(cells, W)
<1>1. PICK k : left = Decoded(cells, First(k, Window))
  BY DEF Torn
<1>2. First(k, Window) \subseteq plan
  BY DEF First, Window
<1>. QED
  BY <1>1, <1>2

LEMMA PrefillFailsKeeps ==
  ASSUME EngineInv, NEW t \in Threads, PrefillFails(t), UNCHANGED command
  PROVE  EngineInv'
<1>1. cells' = {} /\ cached' = <<>> /\ Return(t, Failed) /\ owner = t /\ pc[t] # "idle"
  BY DEF PrefillFails, Fails, At
<1>2. Kept'
  BY <1>1 DEF Kept, Holds, Placed
<1>. QED
  BY <1>1, <1>2, ReturnsKeep

LEMMA ForksFailKeeps ==
  ASSUME EngineInv, NEW t \in Threads, ForksFail(t), UNCHANGED command
  PROVE  EngineInv'
<1>1. PICK l \in {"round", "root", "probe"} :
        /\ Fails(t, l) /\ Return(t, Failed) /\ UNCHANGED <<cached, labels>>
        /\ \E left \in Torn :
              cells' = SeqRm(left, CASE l = "round" -> RoundSeqs
                                     [] l = "root" -> {1}
                                     [] l = "probe" -> {1} \cup ProbeSeqs, 1)
  BY DEF ForksFail
<1>2. owner = t /\ pc[t] = l /\ pc[t] # "idle" /\ Holding(t) /\ cached \in Seq(Token)
  BY <1>1 DEF Fails, At, EngineInv, TypeOK
<1>3. PICK left \in Torn : cells' = SeqRm(left, InUse(t), 1)
  BY <1>1, <1>2 DEF InUse
<1>4. PICK W : W \subseteq plan /\ left = Decoded(cells, W)
  BY TornPart
<1>5. /\ left \subseteq Cells /\ \A s \in (1 .. Forks) \ InUse(t) : Holds(left, s) = {}
      /\ Holds(left, 0) = Placed(cached)
  <2>1. pc[t] \in Forked
    BY <1>2 DEF Forked
  <2>. QED
    BY <1>2, <1>4, <2>1, PartDecoded DEF Holding, MemoryFits
<1>6. /\ cells' \subseteq Cells
      /\ \A s : Holds(cells', s) =
                   IF s \in InUse(t) THEN HoldsUpTo(left, s, 1 - 1) ELSE Holds(left, s)
  <2>1. 1 \in Nat
    OBVIOUS
  <2>2. /\ SeqRm(left, InUse(t), 1) \subseteq Cells
        /\ \A s : Holds(SeqRm(left, InUse(t), 1), s) =
                     IF s \in InUse(t) THEN HoldsUpTo(left, s, 1 - 1) ELSE Holds(left, s)
    BY <1>5, <2>1, SeqRmHolds
  <2>. QED
    BY <1>3, <2>2
<1>7. ASSUME NEW s \in InUse(t) PROVE Holds(cells', s) = {}
  <2>1. Holds(left, s) \subseteq (Nat \ {0}) \X Token
    BY <1>5, HoldsType
  <2>2. \A h \in Holds(left, s) : h[1] \in Nat \ {0}
    BY <2>1
  <2>3. HoldsUpTo(left, s, 1 - 1) = {}
    BY <2>2 DEF HoldsUpTo
  <2>. QED
    BY <1>6, <2>3
<1>8. 0 \notin InUse(t)
  BY <1>2 DEF InUse, RoundSeqs, ProbeSeqs
<1>9. Kept'
  BY <1>1, <1>5, <1>6, <1>7, <1>8 DEF Kept
<1>. QED
  BY <1>1, <1>2, <1>6, <1>9, ReturnsKeep

LEMMA ReadingFailsKeeps ==
  ASSUME EngineInv, NEW t \in Threads, ReadingFails(t), UNCHANGED command
  PROVE  EngineInv'
<1>1. PICK l \in {"whole", "head", "tail"} :
        Fails(t, l) /\ cells' \in Torn /\ Return(t, Failed) /\ UNCHANGED <<cached, labels>>
  BY DEF ReadingFails
<1>2. owner = t /\ pc[t] = l /\ pc[t] # "idle" /\ CallFits(t) /\ cached \in Seq(Token)
  BY <1>1 DEF Fails, At, EngineInv, TypeOK
<1>3. ~alive'
  BY <1>1, <1>2 DEF Return, Failed, CallFits, Trial, Cut
<1>4. cells' \subseteq Cells
  <2>1. PICK W : W \subseteq plan /\ cells' = Decoded(cells, W)
    BY <1>1, TornPart
  <2>. QED
    BY <1>2, <2>1, PartDecoded
<1>. QED
  BY <1>1, <1>2, <1>3, <1>4, ReturnsKeep

------------------------------------------------------------------------------
(* The session.                                                            *)

LEMMA PlacedUpTo ==
  ASSUME NEW q \in Seq(Token), NEW l \in 0 .. Len(q), NEW C, NEW s, Holds(C, s) = Placed(q)
  PROVE  HoldsUpTo(C, s, l) = Placed(SubSeq(q, 1, l))
<1>1. DOMAIN q = 1 .. Len(q) /\ Len(q) \in Nat
  OBVIOUS
<1>2. DOMAIN SubSeq(q, 1, l) = 1 .. l /\ \A i \in 1 .. l : SubSeq(q, 1, l)[i] = q[i]
  BY <1>1
<1>3. Placed(SubSeq(q, 1, l)) = {<<i, q[i]>> : i \in 1 .. l}
  BY <1>2 DEF Placed
<1>4. HoldsUpTo(C, s, l) = {h \in {<<i, q[i]>> : i \in 1 .. Len(q)} : h[1] <= l}
  BY <1>1 DEF HoldsUpTo, Placed
<1>5. ASSUME NEW i \in 1 .. Len(q) PROVE <<i, q[i]>>[1] <= l <=> i \in 1 .. l
  BY <1>1
<1>. QED
  BY <1>1, <1>3, <1>4, <1>5

\* The session is cut to what the kept one shares with it: sequence 0 is a
\* beginning of it, the forks are empty.
LEMMA BeginScoreCuts ==
  ASSUME EngineInv, NEW t \in Threads, BeginScore(t)
  PROVE  LET s == Session(req[t])
         IN  /\ s \in Seq(Token) /\ start' \in 0 .. Len(s)
             /\ cached' \in Seq(Token) /\ cells' \subseteq Cells
             /\ Holds(cells', 0) = Placed(SubSeq(s, 1, start'))
             /\ \A k \in 1 .. Forks : Holds(cells', k) = {}
<1> DEFINE s == Session(req[t])
           l == Len(Reuse(s))
<1>1. /\ pc[t] = "lock" /\ owner = None /\ cached' = Stays(s) /\ start' = Len(cached')
      /\ cells' = IF Reuse(s) = cached THEN cells
                  ELSE IF Clears(s) THEN {} ELSE SeqRm(cells, {0}, l + 1)
  BY DEF BeginScore
<1>2. /\ alive = TRUE /\ Kept /\ cells \subseteq Cells /\ cached \in Seq(Token)
      /\ s \in Seq(Token) /\ Len(s) \in Nat
  <2>1. IsRequest(req[t]) /\ alive = TRUE /\ ~HasEmptyPrompt(req[t])
    BY <1>1, InCall DEF CallFits, Limited
  <2>2. s \in Seq(Token)
    BY <2>1, SessionShared
  <2>. HIDE DEF s
  <2>. QED
    BY <1>1, <2>1, <2>2 DEF EngineInv, TypeOK, AtRest
<1>. HIDE DEF s
<1>3. /\ l \in 0 .. Len(cached) /\ l <= Len(s) /\ l \in Nat /\ Len(cached) \in Nat
      /\ Reuse(s) = SubSeq(cached, 1, l) /\ Reuse(s) = SubSeq(s, 1, l)
  <2>1. Reuse(s) = LongestCommonPrefix({cached, s})
    BY DEF Reuse
  <2>2. Len(cached) \in Nat
    BY <1>2
  <2> DEFINE c == LongestCommonPrefix({cached, s})
  <2>3. /\ Len(c) \in 0 .. Len(cached) /\ Len(c) <= Len(s)
        /\ c = SubSeq(cached, 1, Len(c)) /\ c = SubSeq(s, 1, Len(c))
    BY <1>2, CommonPrefixOfTwo
  <2>. HIDE DEF c
  <2>4. Reuse(s) = c
    BY <2>1 DEF c
  <2>. QED
    BY <2>2, <2>3, <2>4
<1>4. CASE Reuse(s) = cached
  <2>1. cached' = SubSeq(s, 1, l) /\ cells' = cells /\ start' = l
    BY <1>1, <1>3, <1>4 DEF Stays, Clears
  <2>2. cached' = cached
    BY <1>1, <1>4 DEF Stays, Clears
  <2>3. start' \in 0 .. Len(s)
    BY <1>2, <1>3, <2>1
  <2>4. Holds(cells', 0) = Placed(SubSeq(s, 1, start'))
    BY <1>2, <2>1, <2>2 DEF Kept
  <2>. QED
    BY <1>2, <2>1, <2>2, <2>3, <2>4 DEF Kept, s
<1>5. CASE Reuse(s) # cached /\ Clears(s)
  <2>1. cached' = <<>> /\ cells' = {} /\ start' = 0
    BY <1>1, <1>5 DEF Stays
  <2>2. SubSeq(s, 1, 0) = <<>>
    BY SubSeqEmpty
  <2>. QED
    BY <1>2, <2>1, <2>2 DEF Holds, Placed, s
<1>6. CASE Reuse(s) # cached /\ ~Clears(s)
  <2>1. cached' = SubSeq(s, 1, l) /\ cells' = SeqRm(cells, {0}, l + 1) /\ start' = l
    BY <1>1, <1>3, <1>6 DEF Stays
  <2>2. SubSeq(s, 1, l) \in Seq(Token)
    BY <1>2, <1>3
  <2>3. /\ cells' \subseteq Cells
        /\ \A k : Holds(cells', k) =
                     IF k \in {0} THEN HoldsUpTo(cells, k, l + 1 - 1) ELSE Holds(cells, k)
    <3>1. l + 1 \in Nat
      BY <1>3
    <3>. QED
      BY <1>2, <2>1, <3>1, SeqRmHolds
  <2>4. HoldsUpTo(cells, 0, l) = Placed(SubSeq(cached, 1, l))
    BY <1>2, <1>3, PlacedUpTo DEF Kept
  <2>5. l + 1 - 1 = l
    BY <1>3
  <2>6. Holds(cells', 0) = Placed(SubSeq(s, 1, l))
    BY <1>3, <2>3, <2>4, <2>5
  <2>7. \A k \in 1 .. Forks : Holds(cells', k) = {}
    BY <1>2, <2>3 DEF Kept
  <2>. QED
    BY <1>2, <1>3, <2>1, <2>2, <2>3, <2>6, <2>7 DEF s
<1>. QED
  BY <1>4, <1>5, <1>6

LEMMA BeginScoreKeeps ==
  ASSUME EngineInv, NEW t \in Threads, BeginScore(t), UNCHANGED command
  PROVE  EngineInv'
<1> DEFINE s == Session(req[t])
           a == Aim(0, s, NoSlot)
<1>1. /\ pc[t] = "lock" /\ owner = None /\ owner' = t /\ pc' = [pc EXCEPT ![t] = "prefill"]
      /\ plan' = Chunk(SubSeq(s, start' + 1, Len(s)), start', 0, NoSlot)
      /\ UNCHANGED <<command, alive, req, answer, rows, round, next, depth, nodes,
                     readings, work>>
  BY DEF BeginScore, Goto
<1>2. /\ s \in Seq(Token) /\ start' \in 0 .. Len(s) /\ Len(s) \in Nat
      /\ cached' \in Seq(Token) /\ cells' \subseteq Cells
      /\ Holds(cells', 0) = Placed(SubSeq(s, 1, start'))
      /\ \A k \in 1 .. Forks : Holds(cells', k) = {}
  BY BeginScoreCuts
<1>3. /\ rows = {} /\ round = <<>> /\ next = 1 /\ depth = 0 /\ nodes = {} /\ readings = {}
      /\ work = 0 /\ pc'[t] = "prefill" /\ CallFits(t)
  BY <1>1 DEF EngineInv, TypeOK, AtRest
<1>. HIDE DEF s
<1>4. a \in Possible /\ a.toks = s /\ a.seq = 0 /\ a.slot = NoSlot
  BY <1>2, LimitAssumption DEF Possible, Aim, NoSlot
<1>5. Decoding({a}, cells', plan', {}) /\ plan' \subseteq Entries /\ IsFiniteSet(plan')
  <2>. HIDE DEF a
  <2>1. /\ start' \in Nat /\ start' <= Len(a.toks) /\ ~ (a.slot # NoSlot)
        /\ Holds(cells', a.seq) = Placed(SubSeq(a.toks, 1, start'))
        /\ plan' = Chunk(SubSeq(a.toks, start' + 1, Len(a.toks)), start', a.seq, a.slot)
    BY <1>1, <1>2, <1>4
  <2>. QED
    BY <1>4, <2>1, StartsOne
<1>6. Aims(t)' = {a}
  BY <1>1, <1>3 DEF Aims, s
<1>7. MemoryFits(t)'
  BY <1>1, <1>2, <1>3, <1>5, <1>6 DEF MemoryFits, Forked, Trial, Cut
<1>8. RoundFits(t)' /\ ReadingsFit(t)' /\ ControlFits(t)'
  BY <1>1, <1>3 DEF RoundFits, ReadingsFit, ControlFits, Forked, Cut
<1>9. CallFits(t)'
  BY <1>1, <1>3 DEF CallFits, Limited, Forked, Trial, Cut
<1>10. "prefill" \in Inside /\ 1 \in Nat \ {0} /\ 0 \in Nat /\ start' \in Nat
  BY <1>2 DEF Inside
<1>11. Holding(t)'
  BY <1>7, <1>8 DEF Holding
<1>. QED
  BY <1>1, <1>2, <1>3, <1>5, <1>9, <1>10, <1>11, MovesInside

LEMMA EndPrefillKeeps ==
  ASSUME EngineInv, NEW t \in Threads, EndPrefill(t), UNCHANGED command
  PROVE  EngineInv'
<1> DEFINE s == Session(req[t])
<1>1. /\ owner = t /\ pc[t] = "prefill" /\ plan = {} /\ cached' = s
      /\ pc' = [pc EXCEPT ![t] = "rounds"]
      /\ UNCHANGED <<command, cells, labels, owner, alive, req, answer, frame>>
  BY DEF EndPrefill, At, Goto
<1>2. /\ Holding(t) /\ CallFits(t) /\ pc'[t] = "rounds" /\ TypeOK
  BY <1>1 DEF EngineInv, TypeOK
<1>3. s \in Seq(Token)
  BY <1>1, <1>2, InCall, SessionShared DEF CallFits, Limited
<1>. HIDE DEF s
<1>4. Aims(t) = {Aim(0, s, NoSlot)}
  BY <1>1 DEF Aims, s
<1>5. Decoding({Aim(0, s, NoSlot)}, cells, {}, rows)
  BY <1>1, <1>2, <1>4 DEF Holding, MemoryFits
<1>6. Holds(cells, 0) = Placed(s) /\ rows = {}
  <2>1. Aim(0, s, NoSlot).seq = 0 /\ Aim(0, s, NoSlot).toks = s /\ Aim(0, s, NoSlot).slot = NoSlot
    BY DEF Aim
  <2>. HIDE DEF s
  <2>2. \A x \in rows : FALSE
    BY <1>5, <2>1 DEF Decoding
  <2>. QED
    BY <1>5, <2>1, <2>2, Ends
<1>7. Aims(t)' = {}
  BY <1>2 DEF Aims
<1>8. MemoryFits(t)'
  <2>1. Decoding({}, cells, {}, {})
    BY DEF Decoding
  <2>2. s = Session(req[t])
    BY DEF s
  <2>. QED
    BY <1>1, <1>2, <1>6, <1>7, <2>1, <2>2 DEF frame, Holding, MemoryFits, InUse, Trial, Cut
<1>9. RoundFits(t)' /\ ReadingsFit(t)' /\ ControlFits(t)'
  <2>1. RoundFits(t)'
    BY <1>1, <1>2 DEF frame, Holding, RoundFits, Cut
  <2>2. readings = {} /\ nodes = {}
    BY <1>1, <1>2 DEF Holding, ReadingsFit, Forked
  <2>. QED
    BY <1>1, <1>2, <2>1, <2>2 DEF frame, ReadingsFit, ControlFits
<1>10. CallFits(t)'
  BY <1>1, <1>2 DEF CallFits, Limited, Forked, Trial, Cut
<1>11. Holding(t)' /\ "rounds" \in Inside
  BY <1>8, <1>9 DEF Holding, Inside
<1>. QED
  BY <1>1, <1>2, <1>3, <1>10, <1>11, MovesInside DEF frame, EngineInv, TypeOK

------------------------------------------------------------------------------
(* One-token labels, in rounds of forks.                                   *)

\* A sequence removed from its first position on holds nothing.
LEMMA SeqRmAll ==
  ASSUME NEW C \in SUBSET Cells, NEW seqs
  PROVE  /\ SeqRm(C, seqs, 1) \subseteq Cells
         /\ \A s \in seqs : Holds(SeqRm(C, seqs, 1), s) = {}
         /\ \A s : s \notin seqs => Holds(SeqRm(C, seqs, 1), s) = Holds(C, s)
<1>1. SeqRm(C, seqs, 1) \subseteq Cells
  BY SeqRmHolds
<1>2. ASSUME NEW s
      PROVE  Holds(SeqRm(C, seqs, 1), s) =
                IF s \in seqs THEN HoldsUpTo(C, s, 1 - 1) ELSE Holds(C, s)
  BY SeqRmHolds
<1>3. ASSUME NEW s PROVE HoldsUpTo(C, s, 1 - 1) = {}
  <2>1. \A h \in Holds(C, s) : h[1] \in Nat \ {0}
    BY HoldsType
  <2>. QED
    BY <2>1 DEF HoldsUpTo
<1>. QED
  BY <1>1, <1>2, <1>3

\* Between decodes nothing is planned and no row is left.
LEMMA BetweenDecodes ==
  ASSUME EngineInv, NEW t \in Threads, owner = t, pc[t] \in {"rounds", "probes"}
  PROVE  /\ plan = {} /\ rows = {} /\ Holding(t) /\ CallFits(t) /\ IsRequest(req[t])
         /\ ~HasEmptyPrompt(req[t]) /\ WithinLimits(req[t]) /\ req[t].kind = "score"
         /\ cached = Session(req[t]) /\ Holds(cells, 0) = Placed(Session(req[t]))
<1>1. Holding(t) /\ CallFits(t) /\ IsRequest(req[t]) /\ pc[t] \in Forked
  BY InCall DEF EngineInv, Forked
<1>2. Aims(t) = {}
  BY DEF Aims
<1>3. Decoding({}, cells, plan, rows)
  BY <1>1, <1>2 DEF Holding, MemoryFits
<1>4. plan = {} /\ rows = {}
  BY <1>3 DEF Decoding
<1>. QED
  BY <1>1, <1>4 DEF Holding, MemoryFits, CallFits, Limited, Forked

\* A call within the limits always has room for a round.
LEMMA HasRoom ==
  ASSUME EngineInv, NEW t \in Threads, At(t, "rounds"), next <= Len(Single(req[t]))
  PROVE  /\ RoundSize(req[t], next) \in 1 .. Forks
         /\ next + RoundSize(req[t], next) - 1 <= Len(Single(req[t]))
         /\ LET taken == next .. next + RoundSize(req[t], next) - 1
            IN  Shared(req[t]) + SumFunctionOnSet(Tails(req[t], taken), taken) <= NCtx
<1> DEFINE r == req[t]
           S == {n \in DOMAIN r.prompts : OneToken(r, n)}
<1>1. IsRequest(r) /\ ~HasEmptyPrompt(r) /\ WithinLimits(r)
  BY BetweenDecodes DEF At
<1>2. Single(r) \in Seq(S)
  BY <1>1, SingleType
<1>3. next \in 1 .. Len(Single(r))
  <2>. HIDE DEF S
  <2>1. Len(Single(r)) \in Nat
    BY <1>2
  <2>. QED
    BY <2>1 DEF EngineInv, TypeOK
<1>. QED
  BY <1>1, <1>3, RoundSizeIs

LEMMA StartRoundKeeps ==
  ASSUME EngineInv, NEW t \in Threads, StartRound(t), UNCHANGED command
  PROVE  EngineInv'
<1> DEFINE r == req[t]
           n == RoundSize(r, next)
           S == {m \in DOMAIN r.prompts : OneToken(r, m)}
           f == [k \in 1 .. n |-> Aim(k, r.prompts[round'[k]], round'[k])]
<1>1. owner = t /\ pc[t] = "rounds" /\ next <= Len(Single(r)) /\ UNCHANGED <<cached, labels>>
  BY DEF StartRound, At
<1>2. n \in 1 .. Forks /\ next + n - 1 <= Len(Single(r)) /\ n # 0
  BY <1>1, HasRoom DEF At
<1>3. /\ round' = SubSeq(Single(r), next, next + n - 1)
      /\ cells' = SeqCp(cells, 0, 1 .. Len(round'))
      /\ plan' = UNION {Chunk(Suffix(r, round'[k]), Shared(r), k, round'[k])
                        : k \in DOMAIN round'}
      /\ pc' = [pc EXCEPT ![t] = "round"]
      /\ UNCHANGED <<owner, alive, req, answer, rows, next, depth, start, nodes,
                     readings, work>>
  BY <1>2 DEF StartRound, Goto
<1>4. /\ plan = {} /\ rows = {} /\ Holding(t) /\ CallFits(t) /\ IsRequest(r)
      /\ ~HasEmptyPrompt(r) /\ cached = Session(r) /\ Holds(cells, 0) = Placed(Session(r))
      /\ pc'[t] = "round" /\ TypeOK
  BY <1>1, <1>3, BetweenDecodes DEF EngineInv, TypeOK
<1>5. Single(r) \in Seq(S) /\ S \subseteq DOMAIN r.prompts
  BY <1>4, SingleType
<1>6. round' \in Seq(S) /\ Len(round') = n /\ DOMAIN round' = 1 .. n
      /\ \A k \in 1 .. n : round'[k] \in S
  <2>. HIDE DEF n, S
  <2>1. next \in Nat /\ next >= 1 /\ n \in Nat /\ Len(Single(r)) \in Nat /\ n >= 1
    BY <1>2, <1>4, <1>5, LimitAssumption DEF TypeOK
  <2>2. \A i \in next .. next + n - 1 : Single(r)[i] \in S
    BY <1>2, <1>5, <2>1
  <2>3. next <= next + n - 1 /\ next + n - 1 - next + 1 = n /\ next + n - 1 \in Int
    BY <2>1
  <2>4. round' \in Seq(S) /\ Len(round') = n
    BY <1>3, <2>1, <2>2, <2>3, SubSeqProperties
  <2>. QED
    BY <2>1, <2>4
<1>7. \A s \in 1 .. Forks : Holds(cells, s) = {}
  BY <1>1, <1>4 DEF Holding, MemoryFits, InUse
<1>8. /\ cells' \subseteq Cells
      /\ \A s \in 1 .. n : Holds(cells', s) = Placed(Session(r))
      /\ \A s \in (1 .. Forks) \ (1 .. n) : Holds(cells', s) = {}
      /\ Holds(cells', 0) = Placed(Session(r))
  <2> DEFINE to == 1 .. n
  <2>1. /\ 0 \in 0 .. Forks /\ to \subseteq 0 .. Forks /\ to \subseteq 1 .. Forks /\ 0 \notin to
        /\ cells \subseteq Cells
    BY <1>2, <1>4, LimitAssumption DEF TypeOK
  <2>2. cells' = SeqCp(cells, 0, to)
    BY <1>3, <1>6
  <2>. HIDE DEF to
  <2>3. /\ \A s \in to : Holds(cells, s) = {}
        /\ cells \in SUBSET Cells /\ to \in SUBSET (0 .. Forks)
    BY <1>7, <2>1
  <2>4. /\ cells' \subseteq Cells /\ \A s \in to : Holds(cells', s) = Holds(cells, 0)
        /\ \A s : s \notin to => Holds(cells', s) = Holds(cells, s)
    <3>1. cells' \subseteq Cells
      BY <2>2, <2>3, SeqCpHolds
    <3>2. ASSUME NEW s \in to PROVE Holds(cells', s) = Holds(cells, 0)
      BY <2>2, <2>3, SeqCpHolds
    <3>3. ASSUME NEW s, s \notin to PROVE Holds(cells', s) = Holds(cells, s)
      BY <2>2, <2>3, <3>3, SeqCpHolds, SMTT(20)
    <3>. QED
      BY <3>1, <3>2, <3>3
  <2>5. \A s \in (1 .. Forks) \ to : Holds(cells', s) = {}
    BY <1>7, <2>4
  <2>. QED
    BY <1>4, <2>1, <2>4, <2>5 DEF to
<1>9. /\ Shared(r) \in Nat /\ Session(r) \in Seq(Token)
      /\ \A m \in S : /\ m \in Nat /\ r.prompts[m] \in Seq(Token) /\ Len(r.prompts[m]) \in Nat
                      /\ Shared(r) < Len(r.prompts[m])
                      /\ SubSeq(r.prompts[m], 1, Shared(r)) = Session(r)
  <2>. HIDE DEF S
  <2>1. /\ Shared(r) \in Nat /\ Session(r) \in Seq(Token)
        /\ \A m \in DOMAIN r.prompts :
              /\ Shared(r) < Len(r.prompts[m])
              /\ SubSeq(r.prompts[m], 1, Shared(r)) = Session(r)
    BY <1>4, SessionShared
  <2>2. \A m \in DOMAIN r.prompts :
              m \in Nat /\ r.prompts[m] \in Seq(Token) /\ Len(r.prompts[m]) \in Nat
    BY <1>4, RequestParts
  <2>. QED
    BY <1>5, <2>1, <2>2
<1>. HIDE DEF S, n
<1>10. ASSUME NEW k \in 1 .. n
       PROVE  /\ f[k] \in Possible /\ f[k].seq = k /\ f[k].slot = round'[k]
              /\ f[k].toks = r.prompts[round'[k]]
  <2>1. k \in 0 .. Forks
    BY <1>2, LimitAssumption
  <2>. QED
    BY <1>6, <1>9, <2>1 DEF Aim, Possible
<1>11. /\ Decoding({f[k] : k \in 1 .. n}, cells', plan', {})
       /\ plan' \subseteq Entries /\ IsFiniteSet(plan')
  <2>1. f \in [1 .. n -> Possible]
    BY <1>10
  <2>. HIDE DEF f
  <2>2. ASSUME NEW k \in 1 .. n
        PROVE  /\ Shared(r) <= Len(f[k].toks) /\ Shared(r) < Len(f[k].toks)
               /\ Holds(cells', f[k].seq) = Placed(SubSeq(f[k].toks, 1, Shared(r)))
               /\ Chunk(Suffix(r, round'[k]), Shared(r), k, round'[k]) =
                    Chunk(SubSeq(f[k].toks, Shared(r) + 1, Len(f[k].toks)), Shared(r),
                          f[k].seq, f[k].slot)
    <3>1. round'[k] \in S
      BY <1>6
    <3>2. /\ f[k].toks = r.prompts[round'[k]] /\ f[k].seq = k /\ f[k].slot = round'[k]
      BY <1>10
    <3>3. Shared(r) < Len(f[k].toks) /\ Len(f[k].toks) \in Nat
          /\ SubSeq(f[k].toks, 1, Shared(r)) = Session(r)
      BY <1>9, <3>1, <3>2
    <3>4. Shared(r) <= Len(f[k].toks)
      BY <1>9, <3>3
    <3>5. Holds(cells', f[k].seq) = Placed(SubSeq(f[k].toks, 1, Shared(r)))
      BY <1>8, <3>2, <3>3
    <3>6. Suffix(r, round'[k]) = SubSeq(f[k].toks, Shared(r) + 1, Len(f[k].toks))
      BY <3>2 DEF Suffix
    <3>. QED
      BY <3>2, <3>3, <3>4, <3>5, <3>6
  <2>3. plan' = UNION {Chunk(SubSeq(f[k].toks, Shared(r) + 1, Len(f[k].toks)), Shared(r),
                             f[k].seq, f[k].slot) : k \in 1 .. n}
    BY <1>3, <1>6, <2>2, ZenonT(40)
  <2>4. \A j, k \in 1 .. n : f[j].seq = f[k].seq => j = k
    BY <1>10
  <2>5. n \in Nat
    <3>1. Forks \in Nat
      BY LimitAssumption
    <3>. QED
      BY <1>2, <3>1
  <2>6. \A k \in 1 .. n :
           Shared(r) <= Len(f[k].toks) /\ (f[k].slot # NoSlot => Shared(r) < Len(f[k].toks))
    BY <2>2
  <2>7. \A k \in 1 .. n : Holds(cells', f[k].seq) = Placed(SubSeq(f[k].toks, 1, Shared(r)))
    BY <2>2
  <2>8. Shared(r) \in Nat
    BY <1>9
  <2>. QED
    BY <2>1, <2>3, <2>4, <2>5, <2>6, <2>7, <2>8, StartsRound, ZenonT(40)
<1>12. Aims(t)' = {f[k] : k \in 1 .. n}
  BY <1>3, <1>4, <1>6 DEF Aims
<1>. HIDE DEF f
<1>13. MemoryFits(t)'
  <2>1. Decoding(Aims(t)', cells', plan', rows')
    BY <1>3, <1>4, <1>11, <1>12
  <2>2. InUse(t)' = 1 .. n
    BY <1>4, <1>6 DEF InUse, RoundSeqs
  <2>. QED
    BY <1>1, <1>3, <1>4, <1>8, <2>1, <2>2 DEF MemoryFits, Trial, Cut
<1>14. RoundFits(t)'
  BY <1>2, <1>3, <1>4, <1>6, LimitAssumption DEF RoundFits, Cut, S
<1>15. ReadingsFit(t)' /\ ControlFits(t)'
  BY <1>1, <1>3, <1>4 DEF Holding, ReadingsFit, ControlFits, Forked
<1>16. CallFits(t)'
  BY <1>1, <1>3, <1>4 DEF CallFits, Limited, Forked, Trial, Cut
<1>17. Holding(t)' /\ "round" \in Inside /\ pc[t] # "idle"
  BY <1>1, <1>13, <1>14, <1>15 DEF Holding, Inside
<1>18. cached' \in Seq(Token) /\ next' \in Nat \ {0} /\ depth' \in Nat /\ start' \in Nat
       /\ work' \in Nat
  BY <1>1, <1>3, <1>4 DEF TypeOK
<1>. QED
  BY <1>1, <1>3, <1>8, <1>11, <1>16, <1>17, <1>18, MovesInside

\* A reading of all the nodes of a prompt's labels is the reference's.
LEMMA ReadingIsReference ==
  ASSUME NEW r, IsRequest(r), NEW n \in DOMAIN r.prompts, NEW read,
         ReadUnder(r.prompts[n], read),
         \A m \in DOMAIN r.cands[n] : \A d \in 0 .. Len(r.cands[n][m]) - 1 :
            Covers(read, SubSeq(r.cands[n][m], 1, d))
  PROVE  Marks(r.cands[n], read) = Reference(r)[n]
<1> DEFINE labs == r.cands[n]
           p == r.prompts[n]
<1>1. labs \in Seq(Seq(Token))
  BY RequestParts
<1>2. /\ \A m \in DOMAIN labs : \A d \in 0 .. Len(labs[m]) - 1 :
            Covers(read, SubSeq(labs[m], 1, d))
      /\ ReadUnder(p, read)
  OBVIOUS
<1>3. Reference(r)[n] = Marks(labs, Truth(labs, p))
  BY DEF Reference, Truth
<1>. HIDE DEF labs, p
<1>4. Marks(labs, read) = Marks(labs, Truth(labs, p))
  BY <1>1, <1>2, MarksAreReference
<1>. QED
  BY <1>3, <1>4 DEF labs

\* One-token labels need the end of their prompt alone.
LEMMA OneTokenReading ==
  ASSUME NEW r, IsRequest(r), NEW n \in DOMAIN r.prompts, OneToken(r, n),
         NEW ctx, ctx = Placed(r.prompts[n])
  PROVE  Marks(r.cands[n], {[node |-> <<>>, ctx |-> ctx]}) = Reference(r)[n]
<1> DEFINE read == {[node |-> <<>>, ctx |-> ctx]}
<1>1. r.prompts[n] \in Seq(Token) /\ r.cands[n] \in Seq(Seq(Token))
  BY RequestParts
<1>2. r.prompts[n] \o <<>> = r.prompts[n] /\ <<>> \in Seq(Token)
  BY <1>1, ConcatEmptySeq
<1>3. ReadUnder(r.prompts[n], read)
  <2> DEFINE x == [node |-> <<>>, ctx |-> ctx]
  <2>1. x.node = <<>> /\ x.ctx = ctx
    OBVIOUS
  <2>2. x.node \in Seq(Token) /\ x.ctx = Placed(r.prompts[n] \o x.node)
    BY <1>2, <2>1
  <2>. HIDE DEF x
  <2>3. ReadUnder(r.prompts[n], {x})
    BY <2>2 DEF ReadUnder
  <2>. QED
    BY <2>3 DEF x
<1>4. Covers(read, <<>>)
  BY DEF Covers
<1>. HIDE DEF read
<1>5. \A m \in DOMAIN r.cands[n] : \A d \in 0 .. Len(r.cands[n][m]) - 1 :
         Covers(read, SubSeq(r.cands[n][m], 1, d))
  <2>1. \A m \in DOMAIN r.cands[n] : \A d \in 0 .. Len(r.cands[n][m]) - 1 :
           SubSeq(r.cands[n][m], 1, d) = <<>>
    BY <1>1, OneTokenNodes DEF OneToken
  <2>. QED
    BY <1>4, <2>1
<1>6. Marks(r.cands[n], read) = Reference(r)[n]
  BY <1>3, <1>5, ReadingIsReference
<1>. QED
  BY <1>6 DEF read

\* The fingerprint of the trie being read.
LEMMA CurrentIs ==
  ASSUME NEW r, IsRequest(r), Unread(r) # {}
  PROVE  /\ Current(r) \in DOMAIN r.prompts /\ Current(r) \in Nat
         /\ Question(r) \in Seq(Token)
<1>1. Unread(r) \subseteq DOMAIN r.prompts /\ DOMAIN r.prompts \subseteq Nat
  BY RequestParts DEF Unread
<1>2. Current(r) \in DOMAIN r.prompts
  BY <1>1, MinOfNaturals DEF Current
<1>. QED
  BY <1>1, <1>2, RequestParts DEF Question

\* What every fork leaves as it was: the session, and what the call may be.
LEMMA InFork ==
  ASSUME EngineInv, NEW t \in Threads, owner = t, pc[t] \in Forked
  PROVE  /\ Holding(t) /\ CallFits(t) /\ IsRequest(req[t]) /\ pc[t] # "idle" /\ TypeOK
         /\ ~HasEmptyPrompt(req[t]) /\ WithinLimits(req[t]) /\ req[t].kind = "score"
         /\ cached = Session(req[t]) /\ Holds(cells, 0) = Placed(cached)
         /\ cells \in SUBSET Cells
         /\ \A s \in (1 .. Forks) \ InUse(t) : Holds(cells, s) = {}
<1>1. Holding(t) /\ CallFits(t) /\ IsRequest(req[t]) /\ pc[t] # "idle" /\ TypeOK
  BY InCall DEF EngineInv, Forked
<1>. QED
  BY <1>1 DEF Holding, MemoryFits, CallFits, Limited, Forked, TypeOK

\* The forks of a decode are removed: the session alone is held.
LEMMA ForksGone ==
  ASSUME EngineInv, NEW t \in Threads, owner = t, pc[t] \in Forked,
         NEW seqs, InUse(t) \subseteq seqs, 0 \notin seqs,
         cells' = SeqRm(cells, seqs, 1)
  PROVE  /\ cells' \subseteq Cells /\ Holds(cells', 0) = Placed(cached)
         /\ \A s \in 1 .. Forks : Holds(cells', s) = {}
<1>1. /\ cells \in SUBSET Cells /\ Holds(cells, 0) = Placed(cached)
      /\ \A s \in (1 .. Forks) \ InUse(t) : Holds(cells, s) = {}
  BY InFork
<1>2. /\ cells' \subseteq Cells
      /\ \A s \in seqs : Holds(cells', s) = {}
      /\ \A s : s \notin seqs => Holds(cells', s) = Holds(cells, s)
  <2>1. PICK C \in SUBSET Cells : C = cells
    BY <1>1
  <2>2. cells' = SeqRm(C, seqs, 1)
    BY <2>1
  <2>3. /\ SeqRm(C, seqs, 1) \subseteq Cells
        /\ \A s \in seqs : Holds(SeqRm(C, seqs, 1), s) = {}
        /\ \A s : s \notin seqs => Holds(SeqRm(C, seqs, 1), s) = Holds(C, s)
    BY SeqRmAll
  <2>. QED
    BY <2>1, <2>2, <2>3, Zenon
<1>3. Holds(cells', 0) = Placed(cached)
  BY <1>1, <1>2
<1>4. ASSUME NEW s \in 1 .. Forks PROVE Holds(cells', s) = {}
  BY <1>1, <1>2
<1>. QED
  BY <1>2, <1>3, <1>4

\* A fingerprint, or a round of them, was read: the call is between decodes.
LEMMA BackToRounds ==
  ASSUME EngineInv, NEW t \in Threads, owner = t, pc[t] \in Forked,
         pc' = [pc EXCEPT ![t] = "rounds"],
         UNCHANGED <<command, cached, owner, alive, req, answer, depth, start, work>>,
         plan' = {}, rows' = {}, round' = <<>>, nodes' = {}, next' \in Nat \ {0},
         cells' \subseteq Cells, Holds(cells', 0) = Placed(cached),
         \A s \in 1 .. Forks : Holds(cells', s) = {},
         \A y \in readings' : /\ y.n \in DOMAIN req[t].prompts
                              /\ y.marks = Reference(req[t])[y.n]
  PROVE  EngineInv'
<1>1. /\ Holding(t) /\ CallFits(t) /\ pc[t] # "idle" /\ TypeOK /\ cached = Session(req[t])
      /\ pc'[t] = "rounds"
  BY InFork DEF TypeOK
<1>2. MemoryFits(t)'
  <2>1. Aims(t)' = {}
    BY <1>1 DEF Aims
  <2>2. Decoding({}, cells', {}, {})
    BY DEF Decoding
  <2>. QED
    BY <1>1, <2>1, <2>2 DEF MemoryFits, Trial, Cut
<1>3. RoundFits(t)' /\ ReadingsFit(t)' /\ ControlFits(t)'
  BY <1>1 DEF RoundFits, ReadingsFit, ControlFits, Cut, Forked
<1>4. CallFits(t)'
  BY <1>1 DEF CallFits, Limited, Forked, Trial, Cut
<1>5. /\ cached' \in Seq(Token) /\ depth' \in Nat /\ start' \in Nat /\ work' \in Nat
      /\ plan' \subseteq Entries /\ IsFiniteSet(plan')
  BY <1>1, FS_EmptySet DEF TypeOK
<1>6. Holding(t)' /\ "rounds" \in Inside
  BY <1>2, <1>3 DEF Holding, Inside
<1>. QED
  BY <1>1, <1>4, <1>5, <1>6, MovesInside

LEMMA EndRoundKeeps ==
  ASSUME EngineInv, NEW t \in Threads, EndRound(t), UNCHANGED command
  PROVE  EngineInv'
<1> DEFINE r == req[t]
           new == {[n |-> x.slot, evaluated |-> SuffixLen(r, x.slot),
                    marks |-> Marks(r.cands[x.slot], {[node |-> <<>>, ctx |-> x.ctx]})]
                   : x \in rows}
           S == {m \in DOMAIN r.prompts : OneToken(r, m)}
<1>1. /\ owner = t /\ pc[t] = "round" /\ pc[t] \in Forked /\ plan = {}
      /\ cells' = SeqRm(cells, RoundSeqs, 1)
      /\ readings' = readings \cup new
      /\ rows' = {} /\ round' = <<>> /\ next' = next + Len(round)
      /\ pc' = [pc EXCEPT ![t] = "rounds"]
      /\ UNCHANGED <<cached, labels, owner, alive, req, answer, plan, depth, start,
                     nodes, work>>
  BY DEF EndRound, At, Goto, Forked
<1>2. Holding(t) /\ IsRequest(r) /\ TypeOK
  BY <1>1, InFork
<1>3. /\ round \in Seq(S) /\ Len(round) \in Nat /\ DOMAIN round = 1 .. Len(round)
      /\ \A k \in DOMAIN round : round[k] \in S
  <2>1. round \in Seq(S)
    BY <1>1, <1>2 DEF Holding, RoundFits
  <2>. HIDE DEF S
  <2>. QED
    BY <2>1
<1>4. ASSUME NEW x \in rows
      PROVE  x.slot \in S /\ x.ctx = Placed(r.prompts[x.slot])
  <2>1. Decoding(Aims(t), cells, {}, rows)
    BY <1>1, <1>2 DEF Holding, MemoryFits
  <2>2. PICK a \in Aims(t) : x = [slot |-> a.slot, ctx |-> Placed(a.toks)]
    BY <2>1 DEF Decoding
  <2>3. PICK k \in DOMAIN round : a = Aim(k, r.prompts[round[k]], round[k])
    BY <1>1 DEF Aims
  <2>4. a.slot = round[k] /\ a.toks = r.prompts[round[k]]
    BY <2>3 DEF Aim
  <2>5. x.slot = round[k] /\ x.ctx = Placed(r.prompts[round[k]])
    BY <2>2, <2>4
  <2>. HIDE DEF S
  <2>. QED
    BY <1>3, <2>5
<1>5. ASSUME NEW y \in new
      PROVE  y.n \in DOMAIN r.prompts /\ y.marks = Reference(r)[y.n]
  <2> DEFINE mk(x) == Marks(r.cands[x.slot], {[node |-> <<>>, ctx |-> x.ctx]})
             evaluated(x) == SuffixLen(r, x.slot)
  <2>1. PICK x \in rows : y.n = x.slot /\ y.marks = mk(x)
    <3>. HIDE DEF mk, evaluated
    <3>1. new = {[n |-> x.slot, evaluated |-> evaluated(x), marks |-> mk(x)] : x \in rows}
      BY DEF mk, evaluated
    <3>2. PICK x \in rows : y = [n |-> x.slot, evaluated |-> evaluated(x), marks |-> mk(x)]
      BY <3>1
    <3>. QED
      BY <3>2
  <2>2. x.slot \in DOMAIN r.prompts /\ OneToken(r, x.slot) /\ x.ctx = Placed(r.prompts[x.slot])
    BY <1>4
  <2>3. Marks(r.cands[x.slot], {[node |-> <<>>, ctx |-> x.ctx]}) = Reference(r)[x.slot]
    BY <1>2, <2>2, OneTokenReading
  <2>. QED
    BY <2>1, <2>2, <2>3
<1>. HIDE DEF new, S
<1>6. \A y \in readings' : y.n \in DOMAIN r.prompts /\ y.marks = Reference(r)[y.n]
  BY <1>1, <1>2, <1>5 DEF Holding, ReadingsFit
<1>7. /\ cells' \subseteq Cells /\ Holds(cells', 0) = Placed(cached)
      /\ \A s \in 1 .. Forks : Holds(cells', s) = {}
  <2>1. InUse(t) = RoundSeqs /\ 0 \notin RoundSeqs
    BY <1>1 DEF InUse, RoundSeqs
  <2>. QED
    BY <1>1, <2>1, ForksGone
<1>8. next' \in Nat \ {0} /\ nodes' = {}
  BY <1>1, <1>2, <1>3 DEF TypeOK, Holding, ReadingsFit
<1>. QED
  BY <1>1, <1>6, <1>7, <1>8, BackToRounds

------------------------------------------------------------------------------
(* Labels of several tokens: a root and its probes.                        *)

LEMMA StartRootKeeps ==
  ASSUME EngineInv, NEW t \in Threads, StartRoot(t), UNCHANGED command
  PROVE  EngineInv'
<1> DEFINE r == req[t]
           a == Aim(1, Question(r), 1)
<1>1. /\ owner = t /\ pc[t] = "rounds" /\ pc[t] \in Forked /\ Unread(r) # {}
      /\ cells' = SeqCp(cells, 0, {1})
      /\ plan' = Chunk(Suffix(r, Current(r)), Shared(r), 1, 1)
      /\ pc' = [pc EXCEPT ![t] = "root"]
      /\ UNCHANGED <<command, cached, labels, owner, alive, req, answer, rows, round, next,
                     depth, start, nodes, readings, work>>
  BY DEF StartRoot, At, Goto, Forked
<1>2. /\ Holding(t) /\ CallFits(t) /\ IsRequest(r) /\ pc[t] # "idle" /\ TypeOK
      /\ ~HasEmptyPrompt(r) /\ cached = Session(r) /\ Holds(cells, 0) = Placed(Session(r))
      /\ cells \in SUBSET Cells /\ pc'[t] = "root" /\ rows = {}
      /\ \A s \in 1 .. Forks : Holds(cells, s) = {}
  <2>1. InUse(t) = {}
    BY <1>1 DEF InUse
  <2>. QED
    BY <1>1, <2>1, InFork, BetweenDecodes DEF TypeOK
<1>3. /\ Current(r) \in DOMAIN r.prompts /\ Question(r) \in Seq(Token)
      /\ Question(r) = r.prompts[Current(r)]
  BY <1>1, <1>2, CurrentIs DEF Question
<1>4. /\ Shared(r) \in Nat /\ Shared(r) < Len(Question(r)) /\ Len(Question(r)) \in Nat
      /\ SubSeq(Question(r), 1, Shared(r)) = Session(r)
  BY <1>2, <1>3, SessionShared
<1>5. a \in Possible /\ a.toks = Question(r) /\ a.seq = 1 /\ a.slot = 1
  <2>1. 1 \in 0 .. Forks
    BY LimitAssumption
  <2>. QED
    BY <1>3, <2>1 DEF Aim, Possible
<1>6. /\ cells' \subseteq Cells /\ Holds(cells', 1) = Placed(Session(r))
      /\ Holds(cells', 0) = Placed(Session(r))
      /\ \A s \in (1 .. Forks) \ {1} : Holds(cells', s) = {}
  <2> DEFINE to == {1}
  <2>1. to \in SUBSET (0 .. Forks) /\ (\A s \in to : Holds(cells, s) = {}) /\ 0 \notin to
    BY <1>2, LimitAssumption
  <2>2. cells' = SeqCp(cells, 0, to) /\ 1 \in to
    BY <1>1
  <2>. HIDE DEF to
  <2>3. cells' \subseteq Cells
    BY <1>2, <2>1, <2>2, SeqCpHolds
  <2>4. Holds(cells', 1) = Holds(cells, 0)
    BY <1>2, <2>1, <2>2, SeqCpHolds
  <2>5. ASSUME NEW s, s \notin to PROVE Holds(cells', s) = Holds(cells, s)
    BY <1>2, <2>1, <2>2, <2>5, SeqCpHolds
  <2>. QED
    BY <1>2, <2>1, <2>3, <2>4, <2>5 DEF to
<1>. HIDE DEF a
<1>7. Decoding({a}, cells', plan', {}) /\ plan' \subseteq Entries /\ IsFiniteSet(plan')
  <2>1. /\ Shared(r) <= Len(a.toks) /\ Shared(r) < Len(a.toks)
        /\ Holds(cells', a.seq) = Placed(SubSeq(a.toks, 1, Shared(r)))
    <3>1. Shared(r) <= Len(Question(r))
      BY <1>4
    <3>. QED
      BY <1>4, <1>5, <1>6, <3>1, Zenon
  <2>2. plan' = Chunk(SubSeq(a.toks, Shared(r) + 1, Len(a.toks)), Shared(r), a.seq, a.slot)
    BY <1>1, <1>3, <1>5 DEF Suffix
  <2>. QED
    BY <1>4, <1>5, <2>1, <2>2, StartsOne
<1>8. /\ Unread(r)' = Unread(r) /\ Current(r)' = Current(r) /\ Question(r)' = Question(r)
      /\ Session(r)' = Session(r)
  BY <1>1 DEF Unread, Current, Question
<1>9. Aims(t)' = {a}
  BY <1>2, <1>8 DEF Aims, a
<1>10. MemoryFits(t)'
  <2>1. InUse(t)' = {1}
    BY <1>2 DEF InUse
  <2>. QED
    BY <1>1, <1>2, <1>6, <1>7, <1>8, <1>9, <2>1 DEF MemoryFits, Trial, Cut
<1>11. RoundFits(t)'
  BY <1>1, <1>2, <1>8 DEF Holding, RoundFits, Cut
<1>12. ReadingsFit(t)' /\ ControlFits(t)'
  BY <1>1, <1>2, <1>8 DEF Holding, ReadingsFit, ControlFits, Forked
<1>13. CallFits(t)'
  BY <1>1, <1>2 DEF CallFits, Limited, Forked, Trial, Cut
<1>14. Holding(t)' /\ "root" \in Inside
  BY <1>10, <1>11, <1>12 DEF Holding, Inside
<1>15. cached' \in Seq(Token) /\ next' \in Nat \ {0} /\ depth' \in Nat /\ start' \in Nat
       /\ work' \in Nat
  BY <1>1, <1>2 DEF TypeOK
<1>. QED
  BY <1>1, <1>2, <1>6, <1>7, <1>13, <1>14, <1>15, MovesInside

\* The root is read: the end of the question, with all of it in sight.
LEMMA RootRead ==
  ASSUME EngineInv, NEW t \in Threads, owner = t, pc[t] = "root", plan = {}
  PROVE  /\ Holds(cells, 1) = Placed(Question(req[t]))
         /\ {[node |-> <<>>, ctx |-> x.ctx] : x \in rows} =
               {[node |-> <<>>, ctx |-> Placed(Question(req[t]))]}
<1> DEFINE q == Question(req[t])
           a == Aim(1, q, 1)
<1>1. Decoding(Aims(t), cells, {}, rows)
  BY DEF EngineInv, Holding, MemoryFits
<1>2. a.seq = 1 /\ a.toks = q /\ a.slot = 1 /\ a.slot # NoSlot
  BY DEF Aim, NoSlot
<1>3. Aims(t) = {a}
  BY DEF Aims
<1>. HIDE DEF a
<1>4. Holds(cells, 1) = Placed(q)
  BY <1>1, <1>2, <1>3, ZenonT(40) DEF Decoding, ToCome
<1>5. rows = {[slot |-> 1, ctx |-> Placed(q)]}
  <2>1. \A x \in rows : x = [slot |-> 1, ctx |-> Placed(q)]
    BY <1>1, <1>2, <1>3 DEF Decoding
  <2>2. [slot |-> 1, ctx |-> Placed(q)] \in rows
    BY <1>1, <1>2, <1>3 DEF Decoding
  <2>. QED
    BY <2>1, <2>2
<1>. QED
  BY <1>4, <1>5

\* check_limits let nothing through that a trie has no forks for, unless the
\* engine has one fork alone.
LEMMA EndRootKeeps ==
  ASSUME EngineInv, NEW t \in Threads, EndRoot(t), UNCHANGED command
  PROVE  EngineInv'
<1> DEFINE r == req[t]
           q == Question(r)
<1>1. /\ owner = t /\ pc[t] = "root" /\ pc[t] \in Forked /\ plan = {}
      /\ UNCHANGED <<command, cached, labels>>
  BY DEF EndRoot, At, Forked
<1>2. /\ Holding(t) /\ CallFits(t) /\ IsRequest(r) /\ pc[t] # "idle" /\ TypeOK
      /\ cached = Session(r) /\ Holds(cells, 0) = Placed(cached)
      /\ cells \in SUBSET Cells
  BY <1>1, InFork
<1>3. CASE NeedsMoreForks(r)
  <2>1. cells' = SeqRm(cells, {1}, 1) /\ Return(t, Rejected)
    BY <1>3 DEF EndRoot
  <2>2. cells' \subseteq Cells /\ Kept'
    <3>1. InUse(t) = {1}
      BY <1>1 DEF InUse
    <3>. QED
      BY <1>1, <2>1, <3>1, ForksGone DEF Kept
  <2>3. cached' \in Seq(Token)
    BY <1>1, <1>2 DEF TypeOK
  <2>. QED
    BY <1>1, <1>2, <2>1, <2>2, <2>3, ReturnsKeep
<1>4. CASE ~NeedsMoreForks(r)
  <2>1. /\ nodes' = {[node |-> <<>>, ctx |-> x.ctx] : x \in rows} /\ rows' = {}
        /\ pc' = [pc EXCEPT ![t] = "probes"]
        /\ UNCHANGED <<cells, owner, alive, req, answer, plan, round, next,
                       depth, start, readings, work>>
    BY <1>4 DEF EndRoot, Goto
  <2>2. /\ Unread(r)' = Unread(r) /\ Current(r)' = Current(r) /\ Question(r)' = q
        /\ Session(r)' = Session(r) /\ pc'[t] = "probes"
    BY <1>2, <2>1 DEF Unread, Current, Question, TypeOK
  <2>3. Holds(cells, 1) = Placed(q) /\ nodes' = {[node |-> <<>>, ctx |-> Placed(q)]}
    BY <1>1, <2>1, RootRead
  <2>4. MemoryFits(t)'
    <3>1. Aims(t)' = {} /\ InUse(t)' = {1} /\ InUse(t) = {1}
      BY <1>1, <2>2 DEF Aims, InUse
    <3>2. Decoding({}, cells', {}, {})
      BY DEF Decoding
    <3>. QED
      BY <1>1, <1>2, <2>1, <2>2, <2>3, <3>1, <3>2 DEF Holding, MemoryFits, Trial, Cut
  <2>5. RoundFits(t)'
    BY <1>1, <1>2, <2>1, <2>2 DEF Holding, RoundFits, Cut
  <2>6. ReadUnder(q, nodes') /\ Covers(nodes', <<>>)
    <3> DEFINE x == [node |-> <<>>, ctx |-> Placed(q)]
    <3>1. x.node = <<>> /\ x.ctx = Placed(q)
      OBVIOUS
    <3>2. q \in Seq(Token)
      BY <1>1, <1>2, CurrentIs DEF Holding, RoundFits
    <3>3. q \o <<>> = q /\ <<>> \in Seq(Token)
      BY <3>2, ConcatEmptySeq
    <3>4. nodes' = {x}
      BY <2>3
    <3>. HIDE DEF x
    <3>. QED
      BY <3>1, <3>3, <3>4 DEF ReadUnder, Covers
  <2>7. ReadingsFit(t)' /\ ControlFits(t)'
    BY <1>1, <1>2, <2>1, <2>2, <2>6 DEF Holding, ReadingsFit, ControlFits, Forked
  <2>8. CallFits(t)'
    BY <1>1, <1>2, <2>1, <2>2 DEF CallFits, Limited, Forked, Trial, Cut
  <2>9. Holding(t)' /\ "probes" \in Inside
    BY <2>4, <2>5, <2>7 DEF Holding, Inside
  <2>10. /\ cached' \in Seq(Token) /\ next' \in Nat \ {0} /\ depth' \in Nat /\ start' \in Nat
         /\ work' \in Nat /\ plan' \subseteq Entries /\ IsFiniteSet(plan')
         /\ cells' \subseteq Cells
    BY <1>1, <1>2, <2>1 DEF TypeOK, EngineInv
  <2>. QED
    BY <1>1, <1>2, <2>1, <2>8, <2>9, <2>10, MovesInside
<1>. QED
  BY <1>3, <1>4

\* The probes left are nodes of labels, each of some tokens.
LEMMA ProbesLeftType ==
  ASSUME NEW r, IsRequest(r), Unread(r) # {}
  PROVE  /\ Probes(r, Current(r)) \subseteq Seq(Token) /\ <<>> \notin Probes(r, Current(r))
         /\ ProbesLeft(r) \subseteq Probes(r, Current(r))
         /\ IsFiniteSet(ProbesLeft(r))
<1>1. r.cands[Current(r)] \in Seq(Seq(Token))
  BY CurrentIs, RequestParts
<1>2. /\ Nodes(Range(r.cands[Current(r)])) \subseteq Seq(Token)
      /\ IsFiniteSet(Nodes(Range(r.cands[Current(r)])))
  BY <1>1, NodesFinite
<1>3. ProbesLeft(r) \subseteq Nodes(Range(r.cands[Current(r)]))
  BY DEF ProbesLeft, Probes
<1>4. IsFiniteSet(ProbesLeft(r))
  BY <1>2, <1>3, FS_Subset
<1>. QED
  BY <1>2, <1>4 DEF ProbesLeft, Probes

\* The probes of a round: some of those left, one fork kept for the root.
LEMMA ProbesOfRound ==
  ASSUME NEW r, IsRequest(r), Unread(r) # {},
         NEW some \in kSubset(FreeForks(r), ProbesLeft(r))
  PROVE  LET chosen == SetToSeq(some)
         IN  /\ chosen \in Seq(Probes(r, Current(r)))
             /\ Len(chosen) \in Nat /\ Len(chosen) < Forks
             /\ DOMAIN chosen = 1 .. Len(chosen)
             /\ \A k \in 1 .. Len(chosen) : chosen[k] \in Seq(Token) /\ chosen[k] # <<>>
<1> DEFINE P == Probes(r, Current(r))
           chosen == SetToSeq(some)
<1>1. /\ P \subseteq Seq(Token) /\ <<>> \notin P /\ ProbesLeft(r) \subseteq P
      /\ IsFiniteSet(ProbesLeft(r))
  BY ProbesLeftType
<1>2. some \subseteq ProbesLeft(r) /\ Cardinality(some) = FreeForks(r)
  BY DEF kSubset
<1>3. IsFiniteSet(some) /\ some \subseteq P
  BY <1>1, <1>2, FS_Subset
<1>4. chosen \in Seq(some) /\ Len(chosen) = Cardinality(some)
  BY <1>3, SetToSeqOfFinite
<1>. HIDE DEF chosen, P
<1>5. Len(chosen) \in Nat /\ DOMAIN chosen = 1 .. Len(chosen)
      /\ \A k \in 1 .. Len(chosen) : chosen[k] \in some
  BY <1>4
<1>6. chosen \in Seq(P)
  BY <1>3, <1>4
<1>7. FreeForks(r) < Forks
  <2> DEFINE c == Cardinality(ProbesLeft(r))
             M == {Forks - 1, c}
  <2>1. c \in Nat
    BY <1>1, FS_CardinalityType
  <2>2. Forks \in Nat /\ Forks - 1 \in Nat
    BY LimitAssumption
  <2>3. FreeForks(r) = Min(M)
    BY DEF FreeForks
  <2>. HIDE DEF c
  <2>4. M \subseteq Nat /\ Forks - 1 \in M /\ M # {}
    BY <2>1, <2>2
  <2>. HIDE DEF M
  <2>5. Min(M) =< Forks - 1 /\ Min(M) \in Nat
    BY <2>4, MinOfNaturals
  <2>. QED
    BY <2>2, <2>3, <2>5
<1>8. Len(chosen) < Forks
  BY <1>2, <1>4, <1>7
<1>. QED
  BY <1>1, <1>3, <1>5, <1>6, <1>8 DEF chosen, P

LEMMA StartProbesKeeps ==
  ASSUME EngineInv, NEW t \in Threads, StartProbes(t), UNCHANGED command
  PROVE  EngineInv'
<1> DEFINE r == req[t]
           q == Question(r)
           n == Len(round')
           to == 2 .. n + 1
           f == [k \in 1 .. n |-> Aim(k + 1, q \o round'[k], k)]
<1>1. /\ owner = t /\ pc[t] = "probes" /\ pc[t] \in Forked
      /\ cells' = SeqCp(cells, 1, to)
      /\ plan' = UNION {Chunk(round'[k], Len(r.prompts[Current(r)]), k + 1, k)
                        : k \in DOMAIN round'}
      /\ pc' = [pc EXCEPT ![t] = "probe"]
      /\ UNCHANGED <<command, cached, labels, owner, alive, req, answer, rows, next, depth,
                     start, nodes, readings, work>>
  BY DEF StartProbes, At, Goto, Forked
<1>2. /\ Holding(t) /\ CallFits(t) /\ IsRequest(r) /\ pc[t] # "idle" /\ TypeOK
      /\ cached = Session(r) /\ Holds(cells, 0) = Placed(Session(r))
      /\ Holds(cells, 1) = Placed(q) /\ Unread(r) # {}
      /\ cells \in SUBSET Cells /\ pc'[t] = "probe" /\ rows = {}
      /\ \A s \in (1 .. Forks) \ {1} : Holds(cells, s) = {}
  <2>1. InUse(t) = {1}
    BY <1>1 DEF InUse
  <2>2. Holding(t) /\ pc'[t] = "probe"
    BY <1>1, InFork DEF TypeOK
  <2>3. Holds(cells, 1) = Placed(q) /\ Unread(r) # {}
    BY <1>1, <2>2 DEF Holding, MemoryFits, RoundFits
  <2>. QED
    BY <1>1, <2>1, <2>2, <2>3, InFork, BetweenDecodes
<1>3. q = r.prompts[Current(r)] /\ q \in Seq(Token) /\ Len(q) \in Nat
  BY <1>2, CurrentIs DEF Question
<1>4. /\ round' \in Seq(Probes(r, Current(r))) /\ n \in Nat /\ n < Forks
      /\ DOMAIN round' = 1 .. n
      /\ \A k \in 1 .. n : round'[k] \in Seq(Token) /\ round'[k] # <<>>
  <2>1. PICK some \in kSubset(FreeForks(r), ProbesLeft(r)) : round' = SetToSeq(some)
    BY DEF StartProbes
  <2>. QED
    BY <1>2, <2>1, ProbesOfRound
<1>. HIDE DEF n, q
<1>5. Forks \in Nat /\ n + 1 <= Forks
  BY <1>4, LimitAssumption
<1>6. to \in SUBSET (0 .. Forks) /\ 0 \notin to /\ 1 \notin to /\ to \subseteq 1 .. Forks
      /\ \A k \in 1 .. n : k + 1 \in to
  BY <1>4, <1>5
<1>. HIDE DEF to
<1>7. /\ cells' \subseteq Cells /\ Holds(cells', 0) = Placed(Session(r))
      /\ Holds(cells', 1) = Placed(q)
      /\ \A s \in to : Holds(cells', s) = Placed(q)
      /\ \A s \in (1 .. Forks) \ ({1} \cup to) : Holds(cells', s) = {}
  <2>1. /\ \A s \in to : Holds(cells, s) = {}
        /\ cells \in SUBSET Cells /\ to \in SUBSET (0 .. Forks)
        /\ cells' = SeqCp(cells, 1, to)
    BY <1>1, <1>2, <1>6
  <2>2. cells' \subseteq Cells
    BY <2>1, SeqCpHolds
  <2>3. ASSUME NEW s \in to PROVE Holds(cells', s) = Holds(cells, 1)
    BY <2>1, SeqCpHolds
  <2>4. ASSUME NEW s, s \notin to PROVE Holds(cells', s) = Holds(cells, s)
    BY <2>1, <2>4, SeqCpHolds
  <2>. QED
    BY <1>2, <1>6, <2>2, <2>3, <2>4
<1>8. ASSUME NEW k \in 1 .. n
      PROVE  /\ f[k] \in Possible /\ f[k].seq = k + 1 /\ f[k].slot = k
             /\ f[k].toks = q \o round'[k]
             /\ q \o round'[k] \in Seq(Token)
             /\ Len(q) <= Len(f[k].toks) /\ Len(q) < Len(f[k].toks)
             /\ SubSeq(f[k].toks, 1, Len(q)) = q
             /\ SubSeq(f[k].toks, Len(q) + 1, Len(f[k].toks)) = round'[k]
  <2>1. k + 1 \in 0 .. Forks /\ k \in Nat
    BY <1>4, <1>5
  <2> DEFINE p == round'[k]
             c == q \o p
  <2>2. /\ c \in Seq(Token) /\ Len(c) = Len(q) + Len(p)
        /\ SubSeq(c, 1, Len(q)) = q /\ SubSeq(c, Len(q) + 1, Len(c)) = p
    <3>1. p \in Seq(Token) /\ q \in Seq(Token)
      BY <1>3, <1>4
    <3>. HIDE DEF p
    <3>. QED
      BY <3>1, ConcatParts
  <2>3. Len(p) \in Nat /\ Len(p) > 0
    <3>1. p \in Seq(Token) /\ p # <<>>
      BY <1>4
    <3>. HIDE DEF p
    <3>. QED
      BY <3>1
  <2>. HIDE DEF c, p
  <2>4. Len(q) <= Len(c) /\ Len(q) < Len(c)
    BY <1>3, <2>2, <2>3
  <2>5. f[k] = Aim(k + 1, c, k)
    BY DEF c, p
  <2>6. f[k] \in Possible /\ f[k].seq = k + 1 /\ f[k].slot = k /\ f[k].toks = c
    BY <2>1, <2>2, <2>5 DEF Aim, Possible
  <2>. QED
    BY <2>2, <2>4, <2>6 DEF c, p
<1>9. /\ Decoding({f[k] : k \in 1 .. n}, cells', plan', {})
      /\ plan' \subseteq Entries /\ IsFiniteSet(plan')
  <2>1. f \in [1 .. n -> Possible]
    BY <1>8
  <2>. HIDE DEF f
  <2>2. ASSUME NEW k \in 1 .. n
        PROVE  /\ Holds(cells', f[k].seq) = Placed(SubSeq(f[k].toks, 1, Len(q)))
               /\ Chunk(round'[k], Len(r.prompts[Current(r)]), k + 1, k) =
                    Chunk(SubSeq(f[k].toks, Len(q) + 1, Len(f[k].toks)), Len(q),
                          f[k].seq, f[k].slot)
    <3>1. Holds(cells', k + 1) = Placed(q)
      BY <1>6, <1>7
    <3>. QED
      BY <1>3, <1>8, <3>1
  <2>3. plan' = UNION {Chunk(SubSeq(f[k].toks, Len(q) + 1, Len(f[k].toks)), Len(q),
                             f[k].seq, f[k].slot) : k \in 1 .. n}
    BY <1>1, <1>4, <2>2
  <2>4. \A j, k \in 1 .. n : f[j].seq = f[k].seq => j = k
    <3>1. ASSUME NEW j \in 1 .. n, NEW k \in 1 .. n, f[j].seq = f[k].seq PROVE j = k
      <4>1. j + 1 = k + 1 /\ j \in Int /\ k \in Int
        BY <1>8, <3>1
      <4>. QED
        BY <4>1
    <3>. QED
      BY <3>1
  <2>5. \A k \in 1 .. n :
           Len(q) <= Len(f[k].toks) /\ (f[k].slot # NoSlot => Len(q) < Len(f[k].toks))
    BY <1>8
  <2>6. \A k \in 1 .. n : Holds(cells', f[k].seq) = Placed(SubSeq(f[k].toks, 1, Len(q)))
    BY <2>2
  <2> DEFINE at == Len(q)
  <2>7. at \in Nat /\ n \in Nat
    BY <1>3, <1>4
  <2>. HIDE DEF at
  <2>8. /\ \A k \in 1 .. n : at <= Len(f[k].toks) /\ (f[k].slot # NoSlot => at < Len(f[k].toks))
        /\ \A k \in 1 .. n : Holds(cells', f[k].seq) = Placed(SubSeq(f[k].toks, 1, at))
        /\ plan' = UNION {Chunk(SubSeq(f[k].toks, at + 1, Len(f[k].toks)), at,
                                f[k].seq, f[k].slot) : k \in 1 .. n}
    BY <2>3, <2>5, <2>6 DEF at
  <2>. QED
    BY <2>1, <2>4, <2>7, <2>8, StartsRound
<1>10. /\ Unread(r)' = Unread(r) /\ Current(r)' = Current(r) /\ Question(r)' = q
       /\ Session(r)' = Session(r) /\ Probes(r, Current(r))' = Probes(r, Current(r))
  BY <1>1 DEF Unread, Current, Question, q
<1>11. Aims(t)' = {f[k] : k \in 1 .. n}
  BY <1>2, <1>4, <1>10 DEF Aims
<1>. HIDE DEF f
<1>12. MemoryFits(t)'
  <2>1. InUse(t)' = {1} \cup to
    BY <1>2 DEF InUse, ProbeSeqs, to, n
  <2>2. Decoding(Aims(t)', cells', plan', rows')
    BY <1>1, <1>2, <1>9, <1>11
  <2>. QED
    BY <1>1, <1>2, <1>7, <1>10, <2>1, <2>2 DEF MemoryFits, Trial, Cut
<1>13. RoundFits(t)'
  BY <1>1, <1>2, <1>4, <1>10 DEF Holding, RoundFits, Cut, n
<1>14. ReadingsFit(t)' /\ ControlFits(t)'
  BY <1>1, <1>2, <1>10 DEF Holding, ReadingsFit, ControlFits, Forked, q
<1>15. CallFits(t)'
  BY <1>1, <1>2 DEF CallFits, Limited, Forked, Trial, Cut
<1>16. Holding(t)' /\ "probe" \in Inside
  BY <1>12, <1>13, <1>14 DEF Holding, Inside
<1>17. cached' \in Seq(Token) /\ next' \in Nat \ {0} /\ depth' \in Nat /\ start' \in Nat
       /\ work' \in Nat
  BY <1>1, <1>2 DEF TypeOK
<1>. QED
  BY <1>1, <1>2, <1>7, <1>9, <1>15, <1>16, <1>17, MovesInside

LEMMA EndProbesKeeps ==
  ASSUME EngineInv, NEW t \in Threads, EndProbes(t), UNCHANGED command
  PROVE  EngineInv'
<1> DEFINE r == req[t]
           q == Question(r)
           P == Probes(r, Current(r))
           new == {[node |-> round[x.slot], ctx |-> x.ctx] : x \in rows}
<1>1. /\ owner = t /\ pc[t] = "probe" /\ pc[t] \in Forked /\ plan = {}
      /\ cells' = SeqRm(cells, ProbeSeqs, 1)
      /\ nodes' = nodes \cup new /\ rows' = {} /\ round' = <<>>
      /\ pc' = [pc EXCEPT ![t] = "probes"]
      /\ UNCHANGED <<command, cached, labels, owner, alive, req, answer, plan, next, depth,
                     start, readings, work>>
  BY DEF EndProbes, At, Goto, Forked
<1>2. /\ Holding(t) /\ CallFits(t) /\ IsRequest(r) /\ pc[t] # "idle" /\ TypeOK
      /\ cached = Session(r) /\ Holds(cells, 0) = Placed(Session(r))
      /\ cells \in SUBSET Cells /\ pc'[t] = "probes"
      /\ \A s \in (1 .. Forks) \ InUse(t) : Holds(cells, s) = {}
  BY <1>1, InFork DEF TypeOK
<1>3. /\ Holds(cells, 1) = Placed(q) /\ Unread(r) # {} /\ round \in Seq(P)
      /\ ReadUnder(q, nodes) /\ Covers(nodes, <<>>)
      /\ InUse(t) = {1} \cup ProbeSeqs
  BY <1>1, <1>2 DEF Holding, MemoryFits, RoundFits, ReadingsFit, InUse
<1>4. P \subseteq Seq(Token)
  BY <1>2, <1>3, ProbesLeftType
<1>5. \A k \in DOMAIN round : round[k] \in Seq(Token)
  <2>. HIDE DEF P
  <2>. QED
    BY <1>3, <1>4
<1>6. ASSUME NEW x \in rows
      PROVE  round[x.slot] \in Seq(Token) /\ x.ctx = Placed(q \o round[x.slot])
  <2>1. Decoding(Aims(t), cells, {}, rows)
    BY <1>1, <1>2 DEF Holding, MemoryFits
  <2>2. PICK a \in Aims(t) : x = [slot |-> a.slot, ctx |-> Placed(a.toks)]
    BY <2>1 DEF Decoding
  <2>3. PICK k \in DOMAIN round : a = Aim(k + 1, q \o round[k], k)
    BY <1>1 DEF Aims
  <2>4. a.slot = k /\ a.toks = q \o round[k]
    BY <2>3 DEF Aim
  <2>5. x.slot = k /\ x.ctx = Placed(q \o round[k])
    BY <2>2, <2>4
  <2>. QED
    BY <1>5, <2>5
<1>. HIDE DEF q, P
<1>7. ReadUnder(q, nodes') /\ Covers(nodes', <<>>)
  <2>1. ASSUME NEW y \in new PROVE y.node \in Seq(Token) /\ y.ctx = Placed(q \o y.node)
    <3>1. PICK x \in rows : y = [node |-> round[x.slot], ctx |-> x.ctx]
      OBVIOUS
    <3>2. y.node = round[x.slot] /\ y.ctx = x.ctx
      BY <3>1
    <3>. QED
      BY <1>6, <3>2
  <2>. HIDE DEF new
  <2>. QED
    BY <1>1, <1>3, <2>1 DEF ReadUnder, Covers
<1>. HIDE DEF new
<1>8. /\ cells' \subseteq Cells /\ Holds(cells', 0) = Placed(Session(r))
      /\ Holds(cells', 1) = Placed(q)
      /\ \A s \in (1 .. Forks) \ {1} : Holds(cells', s) = {}
  <2>1. 0 \notin ProbeSeqs /\ 1 \notin ProbeSeqs
    BY DEF ProbeSeqs
  <2>2. cells' \subseteq Cells
    BY <1>1, <1>2, SeqRmAll
  <2>3. ASSUME NEW s, s \notin ProbeSeqs PROVE Holds(cells', s) = Holds(cells, s)
    BY <1>1, <1>2, <2>3, SeqRmAll
  <2>4. ASSUME NEW s \in ProbeSeqs PROVE Holds(cells', s) = {}
    BY <1>1, <1>2, SeqRmAll
  <2>. QED
    BY <1>2, <1>3, <2>1, <2>2, <2>3, <2>4
<1>9. /\ Unread(r)' = Unread(r) /\ Current(r)' = Current(r) /\ Question(r)' = q
      /\ Session(r)' = Session(r)
  BY <1>1 DEF Unread, Current, Question, q
<1>10. MemoryFits(t)'
  <2>1. Aims(t)' = {} /\ InUse(t)' = {1}
    BY <1>2 DEF Aims, InUse
  <2>2. Decoding({}, cells', {}, {})
    BY DEF Decoding
  <2>. QED
    BY <1>1, <1>2, <1>8, <1>9, <2>1, <2>2 DEF MemoryFits, Trial, Cut
<1>11. RoundFits(t)'
  BY <1>1, <1>2, <1>3, <1>9 DEF RoundFits, Cut
<1>12. ReadingsFit(t)' /\ ControlFits(t)'
  BY <1>1, <1>2, <1>7, <1>9 DEF Holding, ReadingsFit, ControlFits, Forked
<1>13. CallFits(t)'
  BY <1>1, <1>2 DEF CallFits, Limited, Forked, Trial, Cut
<1>14. Holding(t)' /\ "probes" \in Inside
  BY <1>10, <1>11, <1>12 DEF Holding, Inside
<1>15. cached' \in Seq(Token) /\ next' \in Nat \ {0} /\ depth' \in Nat /\ start' \in Nat
       /\ work' \in Nat /\ plan' \subseteq Entries /\ IsFiniteSet(plan')
  BY <1>1, <1>2, FS_EmptySet DEF TypeOK
<1>. QED
  BY <1>1, <1>2, <1>8, <1>13, <1>14, <1>15, MovesInside

LEMMA EndTrieKeeps ==
  ASSUME EngineInv, NEW t \in Threads, EndTrie(t), UNCHANGED command
  PROVE  EngineInv'
<1> DEFINE r == req[t]
           n == Current(r)
           marks == Marks(r.cands[n], nodes)
           evaluated == SuffixLen(r, n) + ProbeTokens(r, n)
<1>1. /\ owner = t /\ pc[t] = "probes" /\ pc[t] \in Forked /\ ProbesLeft(r) = {}
      /\ cells' = SeqRm(cells, {1}, 1)
      /\ nodes' = {} /\ pc' = [pc EXCEPT ![t] = "rounds"]
      /\ UNCHANGED <<command, cached, labels, owner, alive, req, answer, plan, rows, round,
                     next, depth, start, work>>
  BY DEF EndTrie, At, Goto, Forked
<1>2. readings' = readings \cup {[n |-> n, marks |-> marks, evaluated |-> evaluated]}
  BY DEF EndTrie
<1>3. /\ Holding(t) /\ IsRequest(r) /\ TypeOK /\ plan = {} /\ rows = {}
  BY <1>1, InFork, BetweenDecodes
<1>4. /\ round = <<>> /\ Unread(r) # {} /\ ReadUnder(Question(r), nodes) /\ Covers(nodes, <<>>)
      /\ \A y \in readings : y.n \in DOMAIN r.prompts /\ y.marks = Reference(r)[y.n]
  BY <1>1, <1>3 DEF Holding, RoundFits, ReadingsFit
<1>5. n \in DOMAIN r.prompts /\ Question(r) = r.prompts[n]
  BY <1>3, <1>4, CurrentIs DEF Question
<1>6. marks = Reference(r)[n]
  <2>1. ASSUME NEW m \in DOMAIN r.cands[n], NEW d \in 0 .. Len(r.cands[n][m]) - 1
        PROVE  Covers(nodes, SubSeq(r.cands[n][m], 1, d))
    <3> DEFINE node == SubSeq(r.cands[n][m], 1, d)
    <3>1. node \in Nodes(Range(r.cands[n]))
      BY DEF Nodes, Range
    <3>. HIDE DEF node
    <3>2. node = <<>> \/ node \in Probes(r, n)
      BY <3>1 DEF Probes
    <3>3. \A p \in Probes(r, n) : \E x \in nodes : x.node = p
      BY <1>1 DEF ProbesLeft
    <3>4. Covers(nodes, node)
      BY <1>4, <3>2, <3>3 DEF Covers
    <3>. QED
      BY <3>4 DEF node
  <2>2. ReadUnder(r.prompts[n], nodes)
    BY <1>4, <1>5
  <2>. HIDE DEF n
  <2>. QED
    BY <1>3, <1>5, <2>1, <2>2, ReadingIsReference
<1>. HIDE DEF n, marks, evaluated
<1>7. \A y \in readings' : y.n \in DOMAIN r.prompts /\ y.marks = Reference(r)[y.n]
  <2> DEFINE y == [n |-> n, marks |-> marks, evaluated |-> evaluated]
  <2>1. y.n = n /\ y.marks = marks
    OBVIOUS
  <2>. HIDE DEF y
  <2>2. y.n \in DOMAIN r.prompts /\ y.marks = Reference(r)[y.n]
    BY <1>5, <1>6, <2>1
  <2>3. readings' = readings \cup {y}
    BY <1>2 DEF y
  <2>. QED
    BY <1>4, <2>2, <2>3
<1>8. /\ cells' \subseteq Cells /\ Holds(cells', 0) = Placed(cached)
      /\ \A s \in 1 .. Forks : Holds(cells', s) = {}
  <2>1. InUse(t) = {1} /\ 0 \notin {1}
    BY <1>1 DEF InUse
  <2>. QED
    BY <1>1, <2>1, ForksGone
<1>9. next' \in Nat \ {0}
  BY <1>1, <1>3 DEF TypeOK
<1>. QED
  BY <1>1, <1>3, <1>4, <1>7, <1>8, <1>9, BackToRounds

\* The answer of a scored call is the reference's.
LEMMA ScoresAreReference ==
  ASSUME EngineInv, NEW t \in Threads, Done(t)
  PROVE  LET scores == Scores(req[t])
         IN  [n \in DOMAIN scores |-> scores[n].marks] = Reference(req[t])
<1> DEFINE r == req[t]
           x(n) == CHOOSE y \in readings : y.n = n
           mk(n) == x(n).evaluated + Charged(r, n)
           ch(n) == IF n = 1 THEN start ELSE Shared(r)
<1>1. owner = t /\ pc[t] = "rounds" /\ pc[t] \in Forked /\ Unread(r) = {}
  BY DEF Done, At, Forked
<1>2. \A y \in readings : y.n \in DOMAIN r.prompts /\ y.marks = Reference(r)[y.n]
  BY <1>1, InFork DEF Holding, ReadingsFit
<1>3. ASSUME NEW n \in DOMAIN r.prompts PROVE x(n).marks = Reference(r)[n]
  <2>1. \E y \in readings : y.n = n
    BY <1>1 DEF Unread
  <2>2. x(n) \in readings /\ x(n).n = n
    BY <2>1
  <2>. QED
    BY <1>2, <2>2
<1>4. Scores(r) = [n \in DOMAIN r.prompts |->
                     [marks |-> x(n).marks, prompt_evaluated |-> mk(n), prompt_cached |-> ch(n)]]
  BY DEF Scores
<1>. HIDE DEF x, mk, ch
<1>5. /\ DOMAIN Scores(r) = DOMAIN r.prompts
      /\ \A n \in DOMAIN r.prompts : Scores(r)[n].marks = Reference(r)[n]
  BY <1>3, <1>4
<1>6. Reference(r) = [n \in DOMAIN r.prompts |-> Reference(r)[n]]
  BY DEF Reference
<1>. QED
  BY <1>5, <1>6

LEMMA EndScoreKeeps ==
  ASSUME EngineInv, NEW t \in Threads, EndScore(t), UNCHANGED command
  PROVE  EngineInv'
<1>1. /\ owner = t /\ pc[t] = "rounds" /\ pc[t] \in Forked /\ UNCHANGED <<cells, cached>>
      /\ Return(t, Scored(Scores(req[t])))
  BY DEF EndScore, Done, At, Forked, inner
<1>2. /\ Holds(cells, 0) = Placed(cached) /\ cells \subseteq Cells /\ TypeOK /\ pc[t] # "idle"
      /\ \A s \in 1 .. Forks : Holds(cells, s) = {}
  <2>1. InUse(t) = {}
    BY <1>1 DEF InUse
  <2>. QED
    BY <1>1, <2>1, InFork
<1>3. cells' \subseteq Cells /\ cached' \in Seq(Token) /\ Kept'
  BY <1>1, <1>2 DEF Kept, TypeOK
<1>. QED
  BY <1>1, <1>2, <1>3, ReturnsKeep

------------------------------------------------------------------------------
(* The polygraph's readings.                                               *)

\* Between calls, every local is as Init left it.
LEMMA Entering ==
  ASSUME EngineInv, NEW t \in Threads, owner = None, pc[t] \in {"control", "split"}
  PROVE  /\ rows = {} /\ round = <<>> /\ next = 1 /\ depth = 0 /\ start = 0 /\ nodes = {}
         /\ readings = {} /\ work = 0
         /\ IsRequest(req[t]) /\ CallFits(t) /\ pc[t] # "idle" /\ owner # t /\ TypeOK
         /\ req[t].prompts[1] \in Seq(Token) /\ req[t].prompts[1] # <<>>
         /\ Len(req[t].prompts[1]) \in Nat /\ Len(req[t].prompts[1]) > 0
         /\ req[t].cands[1] \in Seq(Seq(Token)) /\ 1 \in DOMAIN req[t].cands[1]
<1>1. IsRequest(req[t]) /\ CallFits(t) /\ pc[t] # "idle" /\ owner # t
  BY InCall
<1>2. req[t].kind # "score"
  BY <1>1 DEF CallFits
<1>3. /\ req[t].prompts[1] \in Seq(Token) /\ req[t].cands[1] \in Seq(Seq(Token))
      /\ Len(req[t].cands[1]) \in Nat \ {0} /\ DOMAIN req[t].cands[1] = 1 .. Len(req[t].cands[1])
  BY <1>1, RequestParts
<1>4. req[t].prompts[1] # <<>>
  BY <1>1, <1>2 DEF IsRequest
<1>5. 1 \in DOMAIN req[t].cands[1]
  BY <1>3
<1>6. Len(req[t].prompts[1]) \in Nat /\ Len(req[t].prompts[1]) > 0
  <2> DEFINE p == req[t].prompts[1]
  <2>1. p \in Seq(Token) /\ p # <<>>
    BY <1>3, <1>4
  <2>. HIDE DEF p
  <2>2. Len(p) \in Nat /\ Len(p) > 0
    BY <2>1
  <2>. QED
    BY <2>2 DEF p
<1>. QED
  BY <1>1, <1>3, <1>4, <1>5, <1>6 DEF EngineInv, AtRest

\* A label's decode starts: the whole prompt, from an empty cache.
LEMMA WholeStarts ==
  ASSUME NEW r, NEW p, p = r.prompts[1], p \in Seq(Token), Len(p) > 0, NEW label
  PROVE  /\ Decoding({Aim(0, p \o SubSeq(label, 1, 0), 1)}, {}, Whole(r), {})
         /\ Whole(r) \subseteq Entries /\ IsFiniteSet(Whole(r))
<1> DEFINE a == Aim(0, p \o SubSeq(label, 1, 0), 1)
<1>1. p \o SubSeq(label, 1, 0) = p
  <2>1. SubSeq(label, 1, 0) = <<>>
    BY SubSeqEmpty
  <2>. QED
    BY <2>1, ConcatEmptySeq
<1>2. a \in Possible /\ a.seq = 0 /\ a.toks = p /\ a.slot = 1
  BY <1>1, LimitAssumption DEF Aim, Possible
<1>3. SubSeq(p, 0 + 1, Len(p)) = p /\ SubSeq(p, 1, 0) = <<>>
  <2>1. SubSeq(p, 1, Len(p)) = p
    BY SubSeqFull
  <2>2. SubSeq(p, 1, 0) = <<>>
    BY SubSeqEmpty
  <2>. QED
    BY <2>1, <2>2
<1>. HIDE DEF a
<1>4. /\ 0 \in Nat /\ 0 <= Len(a.toks) /\ 0 < Len(a.toks)
      /\ Holds({}, a.seq) = Placed(SubSeq(a.toks, 1, 0))
  <2>1. Holds({}, a.seq) = {} /\ Placed(<<>>) = {}
    BY DEF Holds, Placed
  <2>2. 0 \in Nat /\ 0 <= Len(p)
    OBVIOUS
  <2>. QED
    BY <1>2, <1>3, <2>1, <2>2, Zenon
<1>5. Whole(r) = Chunk(SubSeq(a.toks, 0 + 1, Len(a.toks)), 0, a.seq, a.slot)
  BY <1>2, <1>3 DEF Whole
<1>6. Decoding({a}, {}, Whole(r), {}) /\ Whole(r) \subseteq Entries /\ IsFiniteSet(Whole(r))
  BY <1>2, <1>4, <1>5, StartsOne
<1>. QED
  BY <1>6 DEF a

LEMMA BeginControlKeeps ==
  ASSUME EngineInv, NEW t \in Threads, BeginControl(t), UNCHANGED command
  PROVE  EngineInv'
<1> DEFINE r == req[t]
           p == r.prompts[1]
           labs == r.cands[1]
<1>1. pc[t] = "control" /\ owner = None
  BY DEF BeginControl
<1>2. /\ rows = {} /\ round = <<>> /\ next = 1 /\ depth = 0 /\ start = 0 /\ nodes = {}
      /\ readings = {} /\ work = 0
      /\ IsRequest(r) /\ CallFits(t) /\ pc[t] # "idle" /\ owner # t /\ TypeOK
      /\ p \in Seq(Token) /\ Len(p) \in Nat /\ Len(p) > 0
      /\ labs \in Seq(Seq(Token)) /\ 1 \in DOMAIN labs
  BY <1>1, Entering
<1>3. CASE Tokenless(r)
  <2>1. Return(t, Rejected) /\ UNCHANGED <<cells, cached>>
    BY <1>3 DEF BeginControl
  <2>. QED
    BY <1>2, <2>1, ReturnsKeep
<1>4. CASE ~Tokenless(r)
  <2>1. /\ owner' = t /\ cached' = <<>> /\ cells' = {} /\ plan' = Whole(r)
        /\ pc' = [pc EXCEPT ![t] = "whole"]
        /\ UNCHANGED <<alive, req, answer, rows, round, next, depth, start, nodes,
                       readings, work>>
    BY <1>4 DEF BeginControl, Goto
  <2>2. pc'[t] = "whole"
    BY <1>2, <2>1 DEF TypeOK
  <2>3. /\ Decoding({Aim(0, p \o SubSeq(labs[1], 1, 0), 1)}, {}, Whole(r), {})
        /\ Whole(r) \subseteq Entries /\ IsFiniteSet(Whole(r))
    BY <1>2, WholeStarts
  <2>4. Aims(t)' = {Aim(0, p \o SubSeq(labs[1], 1, 0), 1)}
    BY <1>2, <2>1, <2>2 DEF Aims, Label
  <2>5. MemoryFits(t)'
    <3>1. \A s : Holds({}, s) = {}
      BY DEF Holds
    <3>. QED
      BY <1>2, <2>1, <2>2, <2>3, <2>4, <3>1 DEF MemoryFits, Forked
  <2>6. RoundFits(t)' /\ ReadingsFit(t)'
    BY <1>2, <2>1, <2>2 DEF RoundFits, ReadingsFit, Forked, Cut
  <2>7. ControlFits(t)'
    <3>1. labs[1] # <<>> /\ labs[1] \in Seq(Token)
      <4>1. 1 \in DOMAIN r.cands
        BY <1>2, RequestParts DEF IsRequest
      <4>. QED
        BY <1>2, <1>4, <4>1 DEF Tokenless, Range
    <3>2. 0 < Len(labs[1])
      BY <3>1
    <3>3. ReadUnder(p, {})
      BY DEF ReadUnder
    <3>4. \A m \in DOMAIN labs : m \in Nat /\ ~ (m < 1)
      BY <1>2
    <3>5. \A d \in Nat : ~ (d < 0)
      OBVIOUS
    <3>. HIDE DEF labs, p
    <3>6. \A m \in DOMAIN labs : \A d \in 0 .. Len(labs[m]) - 1 :
             m < 1 \/ (m = 1 /\ d < 0) => Covers({}, SubSeq(labs[m], 1, d))
      BY <3>4, <3>5
    <3>. QED
      BY <1>2, <2>1, <3>2, <3>3, <3>6 DEF ControlFits, labs, p
  <2>8. CallFits(t)'
    BY <1>1, <1>2, <1>4, <2>1, <2>2 DEF CallFits, Limited, Forked, Trial, Cut
  <2>9. Holding(t)' /\ "whole" \in Inside
    BY <2>5, <2>6, <2>7 DEF Holding, Inside
  <2>10. /\ cached' \in Seq(Token) /\ next' \in Nat \ {0} /\ depth' \in Nat /\ start' \in Nat
         /\ work' \in Nat /\ cells' \subseteq Cells
    BY <1>2, <2>1 DEF TypeOK
  <2>. QED
    BY <1>1, <1>2, <2>1, <2>3, <2>8, <2>9, <2>10, MovesInside
<1>. QED
  BY <1>3, <1>4

\* What a label's decode has read, with what was read before.
ReadNow(r) ==
    nodes \cup {[node |-> SubSeq(Label(r), 1, depth), ctx |-> x.ctx] : x \in rows}

LEMMA WholeRead ==
  ASSUME EngineInv, NEW t \in Threads, owner = t, pc[t] = "whole", plan = {}
  PROVE  LET r == req[t]
             labs == r.cands[1]
         IN  /\ Holds(cells, 0) = Placed(r.prompts[1] \o SubSeq(Label(r), 1, depth))
             /\ ReadUnder(r.prompts[1], ReadNow(r))
             /\ \A m \in DOMAIN labs : \A d \in 0 .. Len(labs[m]) - 1 :
                   m < next \/ (m = next /\ d <= depth)
                   => Covers(ReadNow(r), SubSeq(labs[m], 1, d))
<1> DEFINE r == req[t]
           labs == r.cands[1]
           p == r.prompts[1]
           node == SubSeq(Label(r), 1, depth)
           a == Aim(0, p \o node, 1)
<1>1. Decoding(Aims(t), cells, {}, rows) /\ ControlFits(t) /\ depth \in Nat /\ IsRequest(r)
  BY InCall DEF EngineInv, Holding, MemoryFits, TypeOK
<1>2. /\ next \in DOMAIN labs /\ depth < Len(labs[next]) /\ ReadUnder(p, nodes)
      /\ \A m \in DOMAIN labs : \A d \in 0 .. Len(labs[m]) - 1 :
            m < next \/ (m = next /\ d < depth) => Covers(nodes, SubSeq(labs[m], 1, d))
      /\ Label(r) = labs[next]
  BY <1>1 DEF ControlFits, Label
<1>3. labs \in Seq(Seq(Token)) /\ Label(r) \in Seq(Token)
  BY <1>1, <1>2, RequestParts
<1>4. node \in Seq(Token)
  <2> DEFINE c == Label(r)
  <2>1. c \in Seq(Token) /\ depth \in Nat /\ depth < Len(c)
    BY <1>1, <1>2, <1>3
  <2>. HIDE DEF c
  <2>2. SubSeq(c, 1, depth) \in Seq(Token)
    BY <2>1
  <2>. QED
    BY <2>2 DEF c
<1>5. Aims(t) = {a}
  BY DEF Aims
<1>. HIDE DEF node
<1>6. a.seq = 0 /\ a.toks = p \o node /\ a.slot = 1 /\ a.slot # NoSlot
  BY DEF Aim, NoSlot
<1>. HIDE DEF a
<1>7. Holds(cells, 0) = Placed(p \o node)
  <2>1. Holds(cells, a.seq) = Placed(a.toks)
    BY <1>1, <1>5, Ends
  <2>. QED
    BY <1>6, <2>1
<1>8. rows = {[slot |-> 1, ctx |-> Placed(p \o node)]}
  <2>1. \A x \in rows : x = [slot |-> 1, ctx |-> Placed(p \o node)]
    BY <1>1, <1>5, <1>6 DEF Decoding
  <2>2. [slot |-> 1, ctx |-> Placed(p \o node)] \in rows
    BY <1>1, <1>5, <1>6 DEF Decoding
  <2>. QED
    BY <2>1, <2>2
<1> DEFINE z == [node |-> node, ctx |-> Placed(p \o node)]
<1>9. ReadNow(r) = nodes \cup {z}
  BY <1>8 DEF ReadNow, node
<1>10. z.node = node /\ z.ctx = Placed(p \o node)
  OBVIOUS
<1>. HIDE DEF z
<1>11. ReadUnder(p, ReadNow(r))
  BY <1>2, <1>4, <1>9, <1>10 DEF ReadUnder
<1>12. ASSUME NEW m \in DOMAIN labs, NEW d \in 0 .. Len(labs[m]) - 1,
              m < next \/ (m = next /\ d <= depth)
       PROVE  Covers(ReadNow(r), SubSeq(labs[m], 1, d))
  <2>1. CASE m < next \/ (m = next /\ d < depth)
    <3>1. Covers(nodes, SubSeq(labs[m], 1, d))
      BY <1>2, <2>1
    <3>. QED
      BY <1>9, <3>1 DEF Covers
  <2>2. CASE m = next /\ d = depth
    <3>1. SubSeq(labs[m], 1, d) = node
      BY <1>2, <2>2 DEF node
    <3>. QED
      BY <1>9, <1>10, <3>1 DEF Covers
  <2>3. d \in Int
    OBVIOUS
  <2>. QED
    BY <1>1, <1>12, <2>1, <2>2, <2>3
<1>. QED
  BY <1>7, <1>11, <1>12 DEF node

\* The next token of the label being read, one more in sight.
LEMMA NextTokenStarts ==
  ASSUME NEW p \in Seq(Token), NEW label \in Seq(Token), NEW d \in Nat, d + 1 < Len(label),
         NEW mem, Holds(mem, 0) = Placed(p \o SubSeq(label, 1, d))
  PROVE  LET todo == Chunk(<<label[d + 1]>>, Len(p) + d, 0, 1)
         IN  /\ Decoding({Aim(0, p \o SubSeq(label, 1, d + 1), 1)}, mem, todo, {})
             /\ todo \subseteq Entries /\ IsFiniteSet(todo)
<1> DEFINE prior == SubSeq(label, 1, d)
           one == <<label[d + 1]>>
           base == p \o prior
           toks == p \o SubSeq(label, 1, d + 1)
           a == Aim(0, toks, 1)
           at == Len(p) + d
<1>1. /\ d \in 0 .. Len(label) - 1 /\ label[d + 1] \in Token /\ Len(p) \in Nat
      /\ prior \in Seq(Token) /\ Len(prior) = d /\ one \in Seq(Token) /\ Len(one) = 1
  OBVIOUS
<1>2. SubSeq(label, 1, d + 1) = prior \o one
  BY <1>1, LongerPrefix
<1>. HIDE DEF prior, one
<1>3. base \in Seq(Token) /\ Len(base) = at
  <2>1. base \in Seq(Token) /\ Len(base) = Len(p) + Len(prior)
    BY <1>1, ConcatParts
  <2>. HIDE DEF base
  <2>. QED
    BY <1>1, <2>1
<1>4. toks = base \o one
  <2>1. prior \in Seq(Token) /\ one \in Seq(Token)
    BY <1>1
  <2>2. (p \o prior) \o one = p \o (prior \o one)
    BY <2>1, ConcatAssociative, SMTT(20)
  <2>. QED
    BY <1>2, <2>2
<1>. HIDE DEF base, toks
<1>5. /\ toks \in Seq(Token) /\ Len(toks) = Len(base) + Len(one)
      /\ SubSeq(toks, 1, Len(base)) = base
      /\ SubSeq(toks, Len(base) + 1, Len(toks)) = one
  <2>1. base \in Seq(Token) /\ one \in Seq(Token)
    BY <1>1, <1>3
  <2>2. /\ base \o one \in Seq(Token) /\ Len(base \o one) = Len(base) + Len(one)
        /\ SubSeq(base \o one, 1, Len(base)) = base
        /\ SubSeq(base \o one, Len(base) + 1, Len(base \o one)) = one
    BY <2>1, ConcatParts
  <2>. QED
    BY <1>4, <2>2
<1>6. at \in Nat
  BY <1>1
<1>. HIDE DEF at
<1>7. /\ SubSeq(toks, 1, at) = base /\ SubSeq(toks, at + 1, Len(toks)) = one
      /\ Len(toks) = at + 1
  BY <1>1, <1>3, <1>5
<1>8. a \in Possible /\ a.seq = 0 /\ a.toks = toks /\ a.slot = 1
  BY <1>5, LimitAssumption DEF Aim, Possible
<1>. HIDE DEF a
<1>9. at <= Len(a.toks) /\ at < Len(a.toks)
  <2>1. at <= at + 1 /\ at < at + 1
    BY <1>6
  <2>. QED
    BY <1>7, <1>8, <2>1, Zenon
<1>10. Holds(mem, a.seq) = Placed(SubSeq(a.toks, 1, at))
  BY <1>7, <1>8 DEF base, prior
<1> DEFINE todo == Chunk(one, at, 0, 1)
<1>11. todo = Chunk(SubSeq(a.toks, at + 1, Len(a.toks)), at, a.seq, a.slot)
  BY <1>7, <1>8
<1>. HIDE DEF todo
<1>12. Decoding({a}, mem, todo, {}) /\ todo \subseteq Entries /\ IsFiniteSet(todo)
  BY <1>6, <1>8, <1>9, <1>10, <1>11, StartsOne
<1>. QED
  BY <1>12 DEF a, toks, todo, one, at

LEMMA EndWholeKeeps ==
  ASSUME EngineInv, NEW t \in Threads, EndWhole(t), UNCHANGED command
  PROVE  EngineInv'
<1> DEFINE r == req[t]
           p == r.prompts[1]
           labs == r.cands[1]
           label == Label(r)
           last == OneToken(r, 1) \/ (next = Len(labs) /\ depth + 1 = Len(label))
<1>1. owner = t /\ pc[t] = "whole" /\ plan = {} /\ UNCHANGED <<cached, labels>>
  BY DEF EndWhole, At
<1>2. /\ Holding(t) /\ CallFits(t) /\ IsRequest(r) /\ pc[t] # "idle" /\ TypeOK
      /\ cached = <<>> /\ readings = {} /\ round = <<>>
  BY <1>1, InCall DEF EngineInv, Holding, MemoryFits, RoundFits, ReadingsFit, Trial, Forked
<1>3. /\ p \in Seq(Token) /\ labs \in Seq(Seq(Token)) /\ DOMAIN labs = 1 .. Len(labs)
      /\ Len(labs) \in Nat
  BY <1>2, RequestParts
<1>4. /\ next \in DOMAIN labs /\ depth < Len(label) /\ depth \in Nat /\ label = labs[next]
      /\ next \in Nat
  BY <1>1, <1>2 DEF Holding, ControlFits, Label, TypeOK
<1>5. label \in Seq(Token) /\ Len(label) \in Nat
  BY <1>3, <1>4
<1>. HIDE DEF label
<1>6. /\ Holds(cells, 0) = Placed(p \o SubSeq(label, 1, depth))
      /\ ReadUnder(p, ReadNow(r))
      /\ \A m \in DOMAIN labs : \A d \in 0 .. Len(labs[m]) - 1 :
            m < next \/ (m = next /\ d <= depth) => Covers(ReadNow(r), SubSeq(labs[m], 1, d))
  BY <1>1, WholeRead DEF label
<1>7. CASE last
  <2>1. cells' = {} /\ \E a : Return(t, a)
    BY <1>7 DEF EndWhole, label, Label
  <2>2. Kept'
    BY <1>1, <1>2, <2>1 DEF Kept, Holds, Placed
  <2>3. cached' \in Seq(Token)
    BY <1>1, <1>2
  <2>. QED
    BY <1>1, <1>2, <2>1, <2>2, <2>3, ReturnsKeep
<1>8. CASE ~last
  <2>1. /\ nodes' = ReadNow(r) /\ rows' = {}
        /\ UNCHANGED <<owner, alive, pc, req, answer, round, start, readings, work>>
        /\ IF depth + 1 < Len(label)
           THEN /\ plan' = Chunk(<<label[depth + 1]>>, Len(p) + depth, 0, 1)
                /\ depth' = depth + 1
                /\ UNCHANGED <<cells, next>>
           ELSE /\ plan' = Whole(r) /\ cells' = {}
                /\ next' = next + 1 /\ depth' = 0
    BY <1>8 DEF EndWhole, label, Label, ReadNow
  <2>2. CallFits(t)' /\ "whole" \in Inside /\ pc' = [pc EXCEPT ![t] = "whole"]
    BY <1>1, <1>2, <2>1 DEF CallFits, Inside, TypeOK
  <2>3. RoundFits(t)' /\ ReadingsFit(t)'
    BY <1>1, <1>2, <2>1 DEF RoundFits, ReadingsFit, Forked, Cut
  <2>4. cached' \in Seq(Token) /\ start' \in Nat /\ work' \in Nat
    BY <1>1, <1>2, <2>1 DEF TypeOK
  <2>5. CASE depth + 1 < Len(label)
    <3>1. /\ plan' = Chunk(<<label[depth + 1]>>, Len(p) + depth, 0, 1)
          /\ depth' = depth + 1 /\ UNCHANGED <<cells, next>>
      BY <2>1, <2>5
    <3>2. /\ Decoding({Aim(0, p \o SubSeq(label, 1, depth + 1), 1)}, cells, plan', {})
          /\ plan' \subseteq Entries /\ IsFiniteSet(plan')
      BY <1>3, <1>4, <1>5, <1>6, <2>5, <3>1, NextTokenStarts
    <3>3. Aims(t)' = {Aim(0, p \o SubSeq(label, 1, depth + 1), 1)}
      BY <1>1, <2>1, <3>1 DEF Aims, Label, label
    <3>4. MemoryFits(t)'
      <4>1. InUse(t) = {} /\ InUse(t)' = {}
        BY <1>1, <2>1 DEF InUse
      <4>. QED
        BY <1>1, <1>2, <2>1, <3>1, <3>2, <3>3, <4>1 DEF Holding, MemoryFits, Forked
    <3>5. ControlFits(t)'
      <4>1. depth + 1 \in Nat /\ \A d \in Nat : d < depth + 1 => d <= depth
        BY <1>4
      <4>2. \A m \in DOMAIN labs : \A d \in 0 .. Len(labs[m]) - 1 :
               m < next \/ (m = next /\ d < depth + 1)
               => Covers(ReadNow(r), SubSeq(labs[m], 1, d))
        BY <1>6, <4>1
      <4>3. label = labs[next]
        BY <1>4
      <4>. QED
        BY <1>1, <1>4, <1>6, <2>1, <2>5, <3>1, <4>2, <4>3 DEF ControlFits
    <3>6. Holding(t)' /\ next' \in Nat \ {0} /\ depth' \in Nat /\ cells' \subseteq Cells
      BY <1>2, <1>4, <2>3, <3>1, <3>4, <3>5 DEF Holding, TypeOK
    <3>. QED
      BY <1>1, <1>2, <2>1, <2>2, <2>4, <3>2, <3>6, MovesInside
  <2>6. CASE ~ (depth + 1 < Len(label))
    <3>1. plan' = Whole(r) /\ cells' = {} /\ next' = next + 1 /\ depth' = 0
      BY <2>1, <2>6
    <3>2. depth + 1 = Len(label) /\ next # Len(labs)
      BY <1>4, <1>5, <1>8, <2>6
    <3>3. next + 1 \in DOMAIN labs /\ next + 1 \in Nat \ {0}
      BY <1>3, <1>4, <3>2
    <3>4. 0 < Len(labs[next + 1])
      <4>1. ~Tokenless(r) /\ 1 \in DOMAIN r.cands
        BY <1>1, <1>2, RequestParts DEF CallFits, IsRequest
      <4>2. labs[next + 1] # <<>>
        BY <3>3, <4>1 DEF Tokenless, Range
      <4>3. labs[next + 1] \in Seq(Token)
        BY <1>3, <3>3
      <4>. HIDE DEF labs
      <4>. QED
        BY <4>2, <4>3
    <3>5. p # <<>>
      BY <1>1, <1>2 DEF CallFits, IsRequest
    <3>6. Len(p) > 0
      <4>. HIDE DEF p
      <4>. QED
        BY <1>3, <3>5
    <3>7. /\ Decoding({Aim(0, p \o SubSeq(labs[next + 1], 1, 0), 1)}, {}, Whole(r), {})
          /\ Whole(r) \subseteq Entries /\ IsFiniteSet(Whole(r))
      BY <1>3, <3>6, WholeStarts
    <3>8. Aims(t)' = {Aim(0, p \o SubSeq(labs[next + 1], 1, 0), 1)}
      BY <1>1, <2>1, <3>1 DEF Aims, Label
    <3>9. MemoryFits(t)'
      <4>1. \A s : Holds({}, s) = {}
        BY DEF Holds
      <4>. QED
        BY <1>1, <1>2, <2>1, <3>1, <3>7, <3>8, <4>1 DEF MemoryFits, Forked
    <3>10. ControlFits(t)'
      <4>1. ASSUME NEW m \in DOMAIN labs, NEW d \in 0 .. Len(labs[m]) - 1,
                   m < next + 1 \/ (m = next + 1 /\ d < 0)
            PROVE  Covers(ReadNow(r), SubSeq(labs[m], 1, d))
        <5>1. m \in Int /\ d \in Int /\ d >= 0
          BY <1>3
        <5>2. m < next \/ m = next
          BY <1>4, <4>1, <5>1
        <5>3. m = next => d <= depth
          <6>1. ASSUME m = next PROVE d <= depth
            <7>1. Len(labs[m]) = depth + 1
              BY <1>4, <3>2, <6>1
            <7>. QED
              BY <1>4, <7>1
          <6>. QED
            BY <6>1
        <5>. QED
          BY <1>6, <5>2, <5>3
      <4>. QED
        BY <1>1, <1>6, <2>1, <3>1, <3>3, <3>4, <4>1 DEF ControlFits
    <3>11. Holding(t)' /\ next' \in Nat \ {0} /\ depth' \in Nat /\ cells' \subseteq Cells
      BY <2>3, <3>1, <3>3, <3>9, <3>10 DEF Holding
    <3>. QED
      BY <1>1, <1>2, <2>1, <2>2, <2>4, <3>1, <3>7, <3>11, MovesInside
  <2>. QED
    BY <2>5, <2>6
<1>. QED
  BY <1>7, <1>8

LEMMA BeginSplitKeeps ==
  ASSUME EngineInv, NEW t \in Threads, BeginSplit(t), UNCHANGED command
  PROVE  EngineInv'
<1> DEFINE r == req[t]
           p == r.prompts[1]
           at == Min({r.at, Len(p) - 1})
           toks == SubSeq(p, 1, at)
           a == Aim(0, toks, NoSlot)
<1>1. pc[t] = "split" /\ owner = None
  BY DEF BeginSplit
<1>2. /\ rows = {} /\ round = <<>> /\ next = 1 /\ depth = 0 /\ start = 0 /\ nodes = {}
      /\ readings = {} /\ work = 0
      /\ IsRequest(r) /\ CallFits(t) /\ pc[t] # "idle" /\ owner # t /\ TypeOK
      /\ p \in Seq(Token) /\ Len(p) \in Nat /\ Len(p) > 0
  BY <1>1, Entering
<1>3. CASE ~OneToken(r, 1)
  <2>1. Return(t, Rejected) /\ UNCHANGED <<cells, cached>>
    BY <1>3 DEF BeginSplit
  <2>. QED
    BY <1>2, <2>1, ReturnsKeep
<1>4. CASE OneToken(r, 1)
  <2>1. /\ owner' = t /\ cached' = <<>> /\ cells' = {}
        /\ plan' = Chunk(toks, 0, 0, NoSlot) /\ start' = at
        /\ pc' = [pc EXCEPT ![t] = "head"]
        /\ UNCHANGED <<alive, req, answer, rows, round, next, depth, nodes, readings, work>>
    BY <1>4 DEF BeginSplit, Goto
  <2>2. pc'[t] = "head"
    BY <1>2, <2>1 DEF TypeOK
  <2>3. at \in Nat /\ at < Len(p)
    <3> DEFINE m == Len(p) - 1
               M == {r.at, m}
    <3>1. m \in Nat /\ r.at \in Nat /\ m < Len(p)
      BY <1>2, SMTT(20) DEF IsRequest
    <3>. HIDE DEF m
    <3>2. M \subseteq Nat /\ M # {} /\ m \in M
      BY <3>1
    <3>3. at = Min(M)
      BY DEF m
    <3>. HIDE DEF M, at
    <3>4. at \in M /\ at =< m
      BY <3>2, <3>3, MinOfNaturals
    <3>. QED
      BY <1>2, <3>1, <3>2, <3>4
  <2>. HIDE DEF at
  <2>4. toks \in Seq(Token) /\ Len(toks) \in Nat
    <3>. HIDE DEF p
    <3>. QED
      BY <1>2, <2>3
  <2>. HIDE DEF toks
  <2>5. a \in Possible /\ a.seq = 0 /\ a.toks = toks /\ a.slot = NoSlot
    BY <2>4, LimitAssumption DEF Aim, Possible, NoSlot
  <2>. HIDE DEF a
  <2>6. /\ 0 \in Nat /\ 0 <= Len(a.toks) /\ ~ (a.slot # NoSlot)
        /\ Holds({}, a.seq) = Placed(SubSeq(a.toks, 1, 0))
        /\ plan' = Chunk(SubSeq(a.toks, 0 + 1, Len(a.toks)), 0, a.seq, a.slot)
    <3>1. SubSeq(toks, 1, 0) = <<>> /\ SubSeq(toks, 1, Len(toks)) = toks
      BY <2>4, SubSeqEmpty, SubSeqFull
    <3>2. Holds({}, a.seq) = {} /\ Placed(<<>>) = {}
      BY DEF Holds, Placed
    <3>3. 0 \in Nat /\ 0 <= Len(toks) /\ 0 + 1 = 1
      BY <2>4
    <3>4. SubSeq(a.toks, 0 + 1, Len(a.toks)) = toks
      BY <2>5, <3>1, <3>3, Zenon
    <3>5. plan' = Chunk(toks, 0, 0, NoSlot)
      BY <2>1
    <3>. QED
      BY <2>5, <3>1, <3>2, <3>3, <3>4, <3>5, Zenon
  <2>7. Decoding({a}, {}, plan', {}) /\ plan' \subseteq Entries /\ IsFiniteSet(plan')
    BY <2>5, <2>6, StartsOne
  <2>8. Aims(t)' = {a}
    BY <2>1, <2>2 DEF Aims, a, toks
  <2>9. MemoryFits(t)'
    <3>1. \A s : Holds({}, s) = {}
      BY DEF Holds
    <3>. QED
      BY <1>2, <2>1, <2>2, <2>7, <2>8, <3>1 DEF MemoryFits, Forked
  <2>10. RoundFits(t)' /\ ReadingsFit(t)' /\ ControlFits(t)'
    BY <1>2, <2>1, <2>2, <2>3 DEF RoundFits, ReadingsFit, ControlFits, Forked, Cut
  <2>11. CallFits(t)'
    BY <1>1, <1>2, <1>4, <2>1, <2>2 DEF CallFits, Limited, Forked, Trial, Cut
  <2>12. Holding(t)' /\ "head" \in Inside
    BY <2>9, <2>10 DEF Holding, Inside
  <2>13. /\ cached' \in Seq(Token) /\ next' \in Nat \ {0} /\ depth' \in Nat /\ start' \in Nat
         /\ work' \in Nat /\ cells' \subseteq Cells
    BY <1>2, <2>1, <2>3 DEF TypeOK
  <2>. QED
    BY <1>1, <1>2, <2>1, <2>7, <2>11, <2>12, <2>13, MovesInside
<1>. QED
  BY <1>3, <1>4

LEMMA EndHeadKeeps ==
  ASSUME EngineInv, NEW t \in Threads, EndHead(t), UNCHANGED command
  PROVE  EngineInv'
<1> DEFINE r == req[t]
           p == r.prompts[1]
           head == Aim(0, SubSeq(p, 1, start), NoSlot)
           a == Aim(0, p, 1)
<1>1. /\ owner = t /\ pc[t] = "head" /\ plan = {}
      /\ plan' = Chunk(SubSeq(p, start + 1, Len(p)), start, 0, 1)
      /\ pc' = [pc EXCEPT ![t] = "tail"]
      /\ UNCHANGED <<command, cells, cached, owner, alive, req, answer, rows, round, next,
                     depth, start, nodes, readings, work>>
  BY DEF EndHead, At, Goto, inner
<1>2. /\ Holding(t) /\ CallFits(t) /\ IsRequest(r) /\ pc[t] # "idle" /\ TypeOK
      /\ pc'[t] = "tail"
  BY <1>1, InCall DEF EngineInv, TypeOK
<1>3. p \in Seq(Token) /\ Len(p) \in Nat /\ start \in Nat /\ start < Len(p)
  BY <1>1, <1>2, RequestParts DEF Holding, RoundFits, Cut, TypeOK
<1>4. Aims(t) = {head} /\ Aims(t)' = {a}
  BY <1>1, <1>2 DEF Aims
<1>5. Decoding({head}, cells, {}, rows)
  BY <1>1, <1>2, <1>4 DEF Holding, MemoryFits
<1>. HIDE DEF p
<1>6. /\ head.seq = 0 /\ head.toks = SubSeq(p, 1, start) /\ head.slot = NoSlot
      /\ a \in Possible /\ a.seq = 0 /\ a.toks = p /\ a.slot = 1
  BY <1>3, LimitAssumption DEF Aim, Possible
<1>. HIDE DEF head, a
<1>7. Holds(cells, 0) = Placed(SubSeq(p, 1, start)) /\ rows = {}
  <2>1. Holds(cells, head.seq) = Placed(head.toks)
    BY <1>5, Ends
  <2>2. \A x \in rows : FALSE
    BY <1>5, <1>6 DEF Decoding
  <2>. QED
    BY <1>6, <2>1, <2>2
<1>8. Decoding({a}, cells, plan', {}) /\ plan' \subseteq Entries /\ IsFiniteSet(plan')
  <2>1. start <= Len(p)
    BY <1>3
  <2>2. /\ start <= Len(a.toks) /\ start < Len(a.toks)
        /\ Holds(cells, a.seq) = Placed(SubSeq(a.toks, 1, start))
    BY <1>3, <1>6, <1>7, <2>1, Zenon
  <2>3. plan' = Chunk(SubSeq(a.toks, start + 1, Len(a.toks)), start, a.seq, a.slot)
    BY <1>1, <1>6
  <2>4. start \in Nat
    BY <1>3
  <2>. QED
    BY <1>6, <2>2, <2>3, <2>4, StartsOne
<1>9. MemoryFits(t)'
  <2>1. InUse(t) = {} /\ InUse(t)' = {}
    BY <1>1, <1>2 DEF InUse
  <2>. QED
    BY <1>1, <1>2, <1>4, <1>7, <1>8, <2>1 DEF Holding, MemoryFits, Forked, Trial, Cut
<1>10. RoundFits(t)'
  BY <1>1, <1>2 DEF Holding, RoundFits, Cut
<1>11. ReadingsFit(t)' /\ ControlFits(t)'
  BY <1>1, <1>2 DEF Holding, ReadingsFit, ControlFits, Forked
<1>12. CallFits(t)'
  BY <1>1, <1>2 DEF CallFits, Limited, Forked, Trial, Cut
<1>13. Holding(t)' /\ "tail" \in Inside
  BY <1>9, <1>10, <1>11 DEF Holding, Inside
<1>14. /\ cached' \in Seq(Token) /\ next' \in Nat \ {0} /\ depth' \in Nat /\ start' \in Nat
       /\ work' \in Nat /\ cells' \subseteq Cells
  BY <1>1, <1>2 DEF TypeOK
<1>. QED
  BY <1>1, <1>2, <1>8, <1>12, <1>13, <1>14, MovesInside

LEMMA EndTailKeeps ==
  ASSUME EngineInv, NEW t \in Threads, EndTail(t), UNCHANGED command
  PROVE  EngineInv'
<1>1. /\ owner = t /\ pc[t] = "tail" /\ cells' = {} /\ cached' = cached
      /\ \E a : Return(t, a)
  BY DEF EndTail, At
<1>2. cached = <<>> /\ pc[t] # "idle"
  BY <1>1 DEF EngineInv, Holding, MemoryFits, Trial, Cut
<1>3. Kept' /\ cached' \in Seq(Token) /\ cells' \subseteq Cells
  BY <1>1, <1>2 DEF Kept, Holds, Placed
<1>. QED
  BY <1>1, <1>2, <1>3, ReturnsKeep

------------------------------------------------------------------------------
(* The theorems.                                                           *)

LEMMA NextKeeps == EngineInv /\ [Next]_vars => EngineInv'
<1> SUFFICES ASSUME EngineInv, [Next]_vars PROVE EngineInv'
  OBVIOUS
<1>1. CASE UNCHANGED vars
  <2>1. UNCHANGED <<command, cells, cached, labels, owner, alive, pc, req, answer, plan, rows,
                    round, next, depth, start, nodes, readings, work>>
    BY <1>1 DEF vars, inner, frame
  <2>2. TypeOK' /\ AtRest' /\ Ended' /\ IsFiniteSet(plan)'
    BY <2>1 DEF EngineInv, TypeOK, AtRest, Ended, Kept
  <2>3. (DOMAIN answer = Threads /\ answer = [u \in Threads |-> answer[u]])'
    BY <2>1 DEF EngineInv
  <2>4. \A u \in Threads : CallFits(u)'
    BY <2>1 DEF EngineInv, CallFits
  <2>5. ASSUME NEW u \in Threads, owner' = u PROVE Holding(u)'
    <3>1. Holding(u)
      BY <2>1, <2>5 DEF EngineInv
    <3>2. Aims(u)' = Aims(u)
      BY <2>1 DEF Aims, Label, Question, Current, Unread
    <3>3. MemoryFits(u)'
      BY <2>1, <3>1, <3>2
      DEF Holding, MemoryFits, Question, Current, Unread, InUse, RoundSeqs, ProbeSeqs
    <3>4. RoundFits(u)'
      BY <2>1, <3>1 DEF Holding, RoundFits, Question, Current, Unread
    <3>5. ReadingsFit(u)' /\ ControlFits(u)'
      BY <2>1, <3>1 DEF Holding, ReadingsFit, ControlFits, Question, Current, Unread
    <3>. QED
      BY <3>3, <3>4, <3>5 DEF Holding
  <2>. QED
    BY <2>2, <2>3, <2>4, <2>5 DEF EngineInv
<1>2. CASE Next
  <2>1. PICK t \in Threads : Step(t) \/ \E r \in Requests : Ask(t, r)
    BY <1>2 DEF Next
  <2>2. UNCHANGED command
    BY <1>2 DEF Next
  <2>3. CASE \E r \in Requests : Ask(t, r)
    BY <2>2, <2>3, AskKeeps
  <2>4. CASE Step(t)
    <3>1. CASE TakeLabels(t) \/ Prepare(t) \/ TokenizerFails(t)
      BY <2>2, <3>1, TakeLabelsKeeps, PrepareKeeps, TokenizerFailsKeeps
    <3>2. CASE DecodeWindow(t) \/ PrefillFails(t) \/ ForksFail(t) \/ ReadingFails(t)
      BY <2>2, <3>2, DecodeWindowKeeps, PrefillFailsKeeps, ForksFailKeeps, ReadingFailsKeeps
    <3>3. CASE BeginScore(t) \/ EndPrefill(t) \/ StartRound(t) \/ EndRound(t)
      BY <2>2, <3>3, BeginScoreKeeps, EndPrefillKeeps, StartRoundKeeps, EndRoundKeeps
    <3>4. CASE StartRoot(t) \/ EndRoot(t) \/ StartProbes(t) \/ EndProbes(t) \/ EndTrie(t)
      BY <2>2, <3>4, StartRootKeeps, EndRootKeeps, StartProbesKeeps, EndProbesKeeps,
         EndTrieKeeps
    <3>5. CASE EndScore(t)
      BY <2>2, <3>5, EndScoreKeeps
    <3>6. CASE BeginControl(t) \/ EndWhole(t) \/ BeginSplit(t) \/ EndHead(t) \/ EndTail(t)
      BY <2>2, <3>6, BeginControlKeeps, EndWholeKeeps, BeginSplitKeeps, EndHeadKeeps,
         EndTailKeeps
    <3>. QED
      BY <2>4, <3>1, <3>2, <3>3, <3>4, <3>5, <3>6 DEF Step
  <2>. QED
    BY <2>1, <2>3, <2>4
<1>. QED
  BY <1>1, <1>2

LEMMA Invariant == SafeSpec => []EngineInv
<1>1. Init => EngineInv
  BY InvInit
<1>2. EngineInv /\ [Next]_vars => EngineInv'
  BY NextKeeps
<1>. QED
  BY <1>1, <1>2, PTL DEF SafeSpec

\* The types, and the mutex: at every moment a thread is past its lock exactly
\* while it holds it, and no cell is on a sequence past n_seq_max.
THEOREM TypeCorrect == SafeSpec => []TypeOK
<1>1. EngineInv => TypeOK
  BY DEF EngineInv
<1>. QED
  BY <1>1, Invariant, PTL

\* Whatever succeeded, failed or was refused before, and at whatever window of
\* whatever decode: once the mutex is free, sequence 0 holds exactly the
\* tokens `cached` says, and no fork of a round or of a trie is left.
THEOREM SessionIsKept == SafeSpec => []SessionKept
<1>1. EngineInv => SessionKept
  BY DEF EngineInv, AtRest, Kept, SessionKept
<1>. QED
  BY <1>1, Invariant, PTL

------------------------------------------------------------------------------
(* How a call ends: with the reading of its own prompts, with a refusal of *)
(* what is its caller's fault, or with an error.                           *)

AnsweredRight(t) ==
    \E scores : /\ Return(t, Scored(scores))
                /\ [n \in DOMAIN scores |-> scores[n].marks] = Reference(req[t])

Refused(t) ==
    /\ Return(t, Rejected) /\ MayRefuse(req[t])
    /\ Forks >= 2 => owner # t /\ UNCHANGED <<cells, cached>>

\* A reading of the polygraph has one prompt: what is read of it is all.
LEMMA OneReading ==
  ASSUME NEW r, IsRequest(r), r.kind # "score", NEW read,
         Marks(r.cands[1], read) = Reference(r)[1]
  PROVE  \E scores : /\ Reading(r, read) = Scored(scores)
                     /\ [n \in DOMAIN scores |-> scores[n].marks] = Reference(r)
<1> DEFINE m == Marks(r.cands[1], read)
           x == [marks |-> m, prompt_evaluated |-> work, prompt_cached |-> 0]
<1>1. Reading(r, read) = Scored(<<x>>)
  BY DEF Reading
<1>2. x.marks = m /\ m = Reference(r)[1]
  OBVIOUS
<1>3. DOMAIN r.prompts = {1}
  BY RequestParts DEF IsRequest
<1>4. DOMAIN Reference(r) = {1} /\ Reference(r) = [n \in {1} |-> Reference(r)[n]]
  BY <1>3 DEF Reference
<1>. HIDE DEF m, x
<1>5. DOMAIN <<x>> = {1} /\ <<x>>[1] = x
  OBVIOUS
<1>6. [n \in DOMAIN <<x>> |-> <<x>>[n].marks] = [n \in {1} |-> Reference(r)[n]]
  BY <1>2, <1>5
<1>7. [n \in DOMAIN <<x>> |-> <<x>>[n].marks] = Reference(r)
  BY <1>4, <1>6
<1>. QED
  BY <1>1, <1>7

\* The end of a split reading's prompt, all of it in sight.
LEMMA TailRead ==
  ASSUME EngineInv, NEW t \in Threads, owner = t, pc[t] = "tail", plan = {}
  PROVE  {[node |-> <<>>, ctx |-> x.ctx] : x \in rows} =
            {[node |-> <<>>, ctx |-> Placed(req[t].prompts[1])]}
<1> DEFINE p == req[t].prompts[1]
           a == Aim(0, p, 1)
<1>1. Decoding(Aims(t), cells, {}, rows)
  BY DEF EngineInv, Holding, MemoryFits
<1>2. a.seq = 0 /\ a.toks = p /\ a.slot = 1 /\ a.slot # NoSlot
  BY DEF Aim, NoSlot
<1>3. Aims(t) = {a}
  BY DEF Aims
<1>. HIDE DEF a
<1>4. rows = {[slot |-> 1, ctx |-> Placed(p)]}
  <2>1. \A x \in rows : x = [slot |-> 1, ctx |-> Placed(p)]
    BY <1>1, <1>2, <1>3 DEF Decoding
  <2>2. [slot |-> 1, ctx |-> Placed(p)] \in rows
    BY <1>1, <1>2, <1>3 DEF Decoding
  <2>. QED
    BY <2>1, <2>2
<1>. QED
  BY <1>4

LEMMA EndTailAnswers ==
  ASSUME EngineInv, NEW t \in Threads, EndTail(t)
  PROVE  AnsweredRight(t)
<1> DEFINE r == req[t]
           read == {[node |-> <<>>, ctx |-> x.ctx] : x \in rows}
           ctx == Placed(r.prompts[1])
<1>1. owner = t /\ pc[t] = "tail" /\ plan = {} /\ Return(t, Reading(r, read))
  BY DEF EndTail, At
<1>2. IsRequest(r) /\ CallFits(t)
  BY <1>1, InCall
<1>3. OneToken(r, 1) /\ r.kind # "score" /\ 1 \in DOMAIN r.prompts
  BY <1>1, <1>2, RequestParts DEF CallFits, Cut
<1>4. read = {[node |-> <<>>, ctx |-> ctx]}
  BY <1>1, TailRead
<1>5. Marks(r.cands[1], {[node |-> <<>>, ctx |-> ctx]}) = Reference(r)[1]
  BY <1>2, <1>3, OneTokenReading
<1>. HIDE DEF read
<1>6. Marks(r.cands[1], read) = Reference(r)[1]
  BY <1>4, <1>5
<1>7. PICK scores : /\ Reading(r, read) = Scored(scores)
                    /\ [n \in DOMAIN scores |-> scores[n].marks] = Reference(r)
  BY <1>2, <1>3, <1>6, OneReading
<1>8. Return(t, Scored(scores))
  BY <1>1, <1>7 DEF read
<1>. QED
  BY <1>7, <1>8 DEF AnsweredRight

LEMMA EndWholeAnswers ==
  ASSUME EngineInv, NEW t \in Threads, EndWhole(t)
  PROVE  UNCHANGED <<req, answer>> \/ AnsweredRight(t)
<1> DEFINE r == req[t]
           labs == r.cands[1]
           label == Label(r)
           last == OneToken(r, 1) \/ (next = Len(labs) /\ depth + 1 = Len(label))
<1>1. owner = t /\ pc[t] = "whole" /\ plan = {}
  BY DEF EndWhole, At
<1>2. Holding(t) /\ CallFits(t) /\ IsRequest(r)
  BY <1>1, InCall DEF EngineInv
<1>3. r.kind # "score" /\ 1 \in DOMAIN r.prompts /\ r.kind = "control"
  BY <1>1, <1>2, RequestParts DEF CallFits
<1>4. labs \in Seq(Seq(Token)) /\ DOMAIN labs = 1 .. Len(labs) /\ Len(labs) \in Nat
  BY <1>2, RequestParts
<1>5. /\ next \in DOMAIN labs /\ depth < Len(label) /\ depth \in Nat /\ label = labs[next]
      /\ next \in Nat
  BY <1>1, <1>2 DEF Holding, ControlFits, Label, TypeOK, EngineInv
<1>6. label \in Seq(Token) /\ Len(label) \in Nat
  BY <1>4, <1>5, SMTT(20)
<1>. HIDE DEF label
<1>7. /\ ReadUnder(r.prompts[1], ReadNow(r))
      /\ \A m \in DOMAIN labs : \A d \in 0 .. Len(labs[m]) - 1 :
            m < next \/ (m = next /\ d <= depth) => Covers(ReadNow(r), SubSeq(labs[m], 1, d))
  BY <1>1, WholeRead DEF label
<1>8. CASE ~last
  BY <1>8 DEF EndWhole, label, Label
<1>9. CASE last
  <2>1. Return(t, Reading(r, ReadNow(r)))
    BY <1>9 DEF EndWhole, label, Label, ReadNow
  <2>2. \A m \in DOMAIN labs : \A d \in 0 .. Len(labs[m]) - 1 :
           Covers(ReadNow(r), SubSeq(labs[m], 1, d))
    <3>1. CASE OneToken(r, 1)
      <4>1. \A c \in Range(labs) : Len(c) = 1
        BY <3>1 DEF OneToken
      <4>2. \A m \in DOMAIN labs : \A d \in 0 .. Len(labs[m]) - 1 : SubSeq(labs[m], 1, d) = <<>>
        BY <1>4, <4>1, OneTokenNodes
      <4>3. 0 \in 0 .. Len(labs[next]) - 1 /\ next = next /\ 0 <= depth
        BY <1>5, <1>6
      <4>4. Covers(ReadNow(r), SubSeq(labs[next], 1, 0))
        BY <1>5, <1>7, <4>3
      <4>5. Covers(ReadNow(r), <<>>)
        BY <1>5, <4>2, <4>3, <4>4
      <4>. QED
        BY <4>2, <4>5
    <3>2. CASE next = Len(labs) /\ depth + 1 = Len(label)
      <4>1. ASSUME NEW m \in DOMAIN labs, NEW d \in 0 .. Len(labs[m]) - 1
            PROVE  m < next \/ (m = next /\ d <= depth)
        <5>1. m \in Nat /\ m <= next /\ d \in Nat
          BY <1>4, <3>2
        <5>2. m = next => Len(labs[m]) - 1 = depth
          BY <1>5, <3>2
        <5>3. m = next => d <= depth
          BY <5>2
        <5>. QED
          BY <1>5, <5>1, <5>3
      <4>. QED
        BY <1>7, <4>1
    <3>. QED
      BY <1>9, <3>1, <3>2
  <2>3. Marks(r.cands[1], ReadNow(r)) = Reference(r)[1]
    BY <1>2, <1>3, <1>7, <2>2, ReadingIsReference
  <2>4. PICK scores : /\ Reading(r, ReadNow(r)) = Scored(scores)
                      /\ [n \in DOMAIN scores |-> scores[n].marks] = Reference(r)
    BY <1>2, <1>3, <2>3, OneReading
  <2>5. Return(t, Scored(scores))
    BY <2>1, <2>4
  <2>. QED
    BY <2>4, <2>5 DEF AnsweredRight
<1>. QED
  BY <1>8, <1>9

LEMMA EndScoreAnswers ==
  ASSUME EngineInv, NEW t \in Threads, EndScore(t)
  PROVE  AnsweredRight(t)
<1>1. Done(t) /\ Return(t, Scored(Scores(req[t])))
  BY DEF EndScore
<1>2. [n \in DOMAIN Scores(req[t]) |-> Scores(req[t])[n].marks] = Reference(req[t])
  BY <1>1, ScoresAreReference
<1>. QED
  BY <1>1, <1>2 DEF AnsweredRight

\* The engine with one fork alone has none for a trie: the refusal the code
\* makes late, after the root was decoded.
LEMMA EndRootRefuses ==
  ASSUME EngineInv, NEW t \in Threads, EndRoot(t)
  PROVE  UNCHANGED <<req, answer>> \/ Refused(t)
<1> DEFINE r == req[t]
           n == Current(r)
<1>1. CASE ~NeedsMoreForks(r)
  BY <1>1 DEF EndRoot
<1>2. CASE NeedsMoreForks(r)
  <2>1. Return(t, Rejected) /\ Forks < 2 /\ Probes(r, n) # {}
    BY <1>2 DEF EndRoot, NeedsMoreForks
  <2>2. owner = t /\ pc[t] = "root" /\ pc[t] \in Forked
    BY DEF EndRoot, At, Forked
  <2>3. IsRequest(r) /\ r.kind = "score" /\ Unread(r) # {}
    BY <2>2, InFork DEF Holding, RoundFits
  <2>4. n \in DOMAIN r.prompts /\ r.cands[n] \in Seq(Seq(Token))
    BY <2>3, CurrentIs, RequestParts
  <2>5. ~OneToken(r, n)
    <3>. SUFFICES ASSUME OneToken(r, n) PROVE FALSE
      OBVIOUS
    <3>. HIDE DEF n
    <3>1. \A c \in Range(r.cands[n]) : Len(c) = 1
      BY DEF OneToken
    <3>2. \A m \in DOMAIN r.cands[n] : \A d \in 0 .. Len(r.cands[n][m]) - 1 :
             SubSeq(r.cands[n][m], 1, d) = <<>>
      BY <2>4, <3>1, OneTokenNodes
    <3>3. \A c \in Range(r.cands[n]) : \A d \in 0 .. Len(c) - 1 : SubSeq(c, 1, d) = <<>>
      BY <3>2 DEF Range
    <3>. QED
      BY <2>1, <3>3 DEF Probes, Nodes
  <2>6. MayRefuse(r)
    BY <2>1, <2>3, <2>4, <2>5 DEF MayRefuse
  <2>7. ~ (Forks >= 2)
    BY <2>1, LimitAssumption
  <2>. QED
    BY <2>1, <2>6, <2>7 DEF Refused
<1>. QED
  BY <1>1, <1>2

\* Before any decode: a label of no token, an empty prompt or one past its
\* limits, a split reading with labels of several tokens.
LEMMA EntriesRefuse ==
  ASSUME EngineInv, NEW t \in Threads,
         TakeLabels(t) \/ Prepare(t) \/ BeginControl(t) \/ BeginSplit(t)
  PROVE  UNCHANGED <<req, answer>> \/ Refused(t)
<1> DEFINE r == req[t]
<1>1. pc[t] \in {"labels", "prepare", "control", "split"}
  BY DEF TakeLabels, Prepare, BeginControl, BeginSplit
<1>2. CallFits(t) /\ IsRequest(r) /\ owner # t
  BY <1>1, InCall DEF EngineInv, TypeOK, Inside
<1>3. CASE TakeLabels(t)
  <2>1. CASE Tokenless(r)
    <3>1. Return(t, Rejected) /\ UNCHANGED <<cells, cached>>
      BY <1>3, <2>1 DEF TakeLabels
    <3>. QED
      BY <1>2, <2>1, <3>1 DEF Refused, MayRefuse
  <2>2. CASE ~Tokenless(r)
    BY <1>3, <2>2 DEF TakeLabels
  <2>. QED
    BY <2>1, <2>2
<1>4. CASE Prepare(t)
  <2>1. CASE HasEmptyPrompt(r) \/ ~WithinLimits(r)
    <3>1. Return(t, Rejected) /\ UNCHANGED <<cells, cached>>
      BY <1>4, <2>1 DEF Prepare, inner
    <3>2. r.kind = "score"
      BY <1>2, <1>4 DEF Prepare, CallFits
    <3>. QED
      BY <1>2, <2>1, <3>1, <3>2 DEF Refused, MayRefuse
  <2>2. CASE ~ (HasEmptyPrompt(r) \/ ~WithinLimits(r))
    BY <1>4, <2>2 DEF Prepare
  <2>. QED
    BY <2>1, <2>2
<1>5. CASE BeginControl(t)
  <2>1. CASE Tokenless(r)
    <3>1. Return(t, Rejected) /\ UNCHANGED <<cells, cached>>
      BY <1>5, <2>1 DEF BeginControl
    <3>. QED
      BY <1>2, <2>1, <3>1 DEF Refused, MayRefuse
  <2>2. CASE ~Tokenless(r)
    BY <1>5, <2>2 DEF BeginControl
  <2>. QED
    BY <2>1, <2>2
<1>6. CASE BeginSplit(t)
  <2>1. CASE ~OneToken(r, 1)
    <3>1. Return(t, Rejected) /\ UNCHANGED <<cells, cached>>
      BY <1>6, <2>1 DEF BeginSplit
    <3>2. r.kind = "split" /\ 1 \in DOMAIN r.prompts
      BY <1>2, <1>6, RequestParts DEF BeginSplit, CallFits
    <3>. QED
      BY <1>2, <2>1, <3>1, <3>2 DEF Refused, MayRefuse
  <2>2. CASE OneToken(r, 1)
    BY <1>6, <2>2 DEF BeginSplit
  <2>. QED
    BY <2>1, <2>2
<1>. QED
  BY <1>3, <1>4, <1>5, <1>6

\* Every step of a call goes on, fails, refuses or answers.
LEMMA StepEnds ==
  ASSUME EngineInv, NEW t \in Threads, Step(t)
  PROVE  UNCHANGED <<req, answer>> \/ Return(t, Failed) \/ Refused(t) \/ AnsweredRight(t)
<1>1. CASE TakeLabels(t) \/ Prepare(t) \/ BeginControl(t) \/ BeginSplit(t)
  BY <1>1, EntriesRefuse
<1>2. CASE TokenizerFails(t) \/ PrefillFails(t) \/ ForksFail(t) \/ ReadingFails(t)
  BY <1>2 DEF TokenizerFails, PrefillFails, ForksFail, ReadingFails
<1>3. CASE DecodeWindow(t) \/ BeginScore(t) \/ EndPrefill(t)
  BY <1>3 DEF DecodeWindow, BeginScore, EndPrefill
<1>4. CASE StartRound(t)
  <2>1. RoundSize(req[t], next) # 0
    BY <1>4, HasRoom DEF StartRound
  <2>. QED
    BY <1>4, <2>1 DEF StartRound
<1>5. CASE EndRound(t) \/ StartRoot(t) \/ StartProbes(t) \/ EndProbes(t) \/ EndTrie(t)
  BY <1>5 DEF EndRound, StartRoot, StartProbes, EndProbes, EndTrie
<1>6. CASE EndRoot(t)
  BY <1>6, EndRootRefuses
<1>7. CASE EndScore(t)
  BY <1>7, EndScoreAnswers
<1>8. CASE EndWhole(t)
  BY <1>8, EndWholeAnswers
<1>9. CASE EndHead(t)
  BY <1>9 DEF EndHead
<1>10. CASE EndTail(t)
  BY <1>10, EndTailAnswers
<1>. QED
  BY <1>1, <1>2, <1>3, <1>4, <1>5, <1>6, <1>7, <1>8, <1>9, <1>10 DEF Step

\* A refusal costs nothing, where a trie has its forks: it leaves the kept
\* session and the context as they were, and was made before any token.
THEOREM RefusalsCostNothing ==
  ASSUME Forks >= 2
  PROVE  SafeSpec => RefusalCostsNothing
<1> DEFINE Costless ==
              \A t \in Threads : answer'[t] = Rejected /\ answer[t] # Rejected =>
                 (owner = t => work = 0) /\ UNCHANGED <<cells, cached>>
<1>1. ASSUME EngineInv, [Next]_vars PROVE [Costless]_vars
  <2>. SUFFICES ASSUME NEW t \in Threads, answer'[t] = Rejected, answer[t] # Rejected
                PROVE  (owner = t => work = 0) /\ UNCHANGED <<cells, cached>>
    OBVIOUS
  <2>0. answer = [u \in Threads |-> answer[u]]
    BY <1>1 DEF EngineInv
  <2>1. Next
    BY <1>1 DEF vars
  <2>2. PICK u \in Threads : Step(u) \/ \E r \in Requests : Ask(u, r)
    BY <2>1 DEF Next
  <2>3. ~ \E r \in Requests : Ask(u, r)
    BY <2>0 DEF Ask, NoAnswer, Rejected
  <2>4. UNCHANGED <<req, answer>> \/ Return(u, Failed) \/ Refused(u) \/ AnsweredRight(u)
    BY <1>1, <2>2, <2>3, StepEnds
  <2>5. ~ UNCHANGED <<req, answer>>
    OBVIOUS
  <2>6. ~ Return(u, Failed) /\ ~ AnsweredRight(u)
    <3>1. Failed.status # Rejected.status /\ \A s : Scored(s).status # Rejected.status
      BY DEF Failed, Scored, Rejected
    <3>2. ASSUME NEW a, Return(u, a) PROVE a = Rejected
      BY <2>0, <3>2 DEF Return
    <3>. QED
      BY <3>1, <3>2 DEF AnsweredRight
  <2>7. Refused(u) /\ u = t
    BY <2>0, <2>4, <2>5, <2>6 DEF Refused, Return
  <2>. QED
    BY <2>7 DEF Refused
<1>. QED
  BY <1>1, Invariant, PTL DEF SafeSpec, RefusalCostsNothing

------------------------------------------------------------------------------
(* The engine implements Scoring: the answers, less what they cost.        *)

Shown(a) ==
    IF a.status = "scored"
    THEN [status |-> "scored", marks |-> [n \in DOMAIN a.scores |-> a.scores[n].marks]]
    ELSE a

LEMMA SameReference == \A r : Abstract!Reference(r) = Reference(r)
BY DEF Abstract!Reference, Reference, Abstract!Marks, Marks, Abstract!Terms, Terms,
       Abstract!Placed, Placed, Abstract!Nodes, Nodes, Range, Abstract!Range

LEMMA SameRefusals == \A r : Abstract!MayRefuse(r) <=> MayRefuse(r)
BY DEF MayRefuse, HasEmptyPrompt, Tokenless, OneToken, WithinLimits, Shared, ForkPoint,
       CommonLen, Min, Max, SuffixLen, MapThenSumSet, MapThenFoldSet, LongestCommonPrefix,
       CommonPrefixes, Prefixes, IsPrefix, Range,
       Abstract!MayRefuse, Abstract!HasEmptyPrompt, Abstract!Tokenless, Abstract!OneToken,
       Abstract!WithinLimits, Abstract!Shared, Abstract!ForkPoint, Abstract!CommonLen,
       Abstract!Min, Abstract!Max, Abstract!SuffixLen, Abstract!MapThenSumSet,
       Abstract!MapThenFoldSet, Abstract!LongestCommonPrefix, Abstract!CommonPrefixes,
       Abstract!Prefixes, Abstract!IsPrefix, Abstract!Range

\* The answers shown are kept apart by thread, as the engine's are.
LEMMA ShownExcept ==
  ASSUME EngineInv, NEW t \in Threads, NEW a, answer' = [answer EXCEPT ![t] = a],
         NEW b, b = Shown(a)
  PROVE  [u \in Threads |-> Shown(answer[u])]' =
            [[u \in Threads |-> Shown(answer[u])] EXCEPT ![t] = b]
<1> DEFINE s(x) == Shown(x)
<1>1. \A u \in Threads : answer'[u] = IF u = t THEN a ELSE answer[u]
  BY DEF EngineInv
<1>2. [u \in Threads |-> Shown(answer[u])]' = [u \in Threads |-> s(answer'[u])]
  OBVIOUS
<1>3. b = s(a)
  OBVIOUS
<1>. HIDE DEF s
<1>4. [u \in Threads |-> s(answer'[u])] = [[u \in Threads |-> s(answer[u])] EXCEPT ![t] = b]
  <2>1. \A u \in Threads : s(answer'[u]) = IF u = t THEN b ELSE s(answer[u])
    BY <1>1, <1>3
  <2>. QED
    BY <2>1, Zenon
<1>. QED
  BY <1>2, <1>4 DEF s

\* Every step but Ask is of a thread in a call.
LEMMA StepsInCall ==
  ASSUME EngineInv, NEW t \in Threads, Step(t)
  PROVE  pc[t] # "idle"
<1>1. owner = t => pc[t] \in Inside
  BY DEF EngineInv, TypeOK
<1>2. owner = t => pc[t] # "idle"
  BY <1>1 DEF Inside
<1>3. \/ owner = t
      \/ pc[t] \in {"labels", "prepare", "lock", "control", "split"}
  BY DEF Step, TakeLabels, Prepare, TokenizerFails, DecodeWindow, PrefillFails, ForksFail,
         ReadingFails, BeginScore, EndPrefill, StartRound, EndRound, StartRoot, EndRoot,
         StartProbes, EndProbes, EndTrie, EndScore, Done, BeginControl, EndWhole, BeginSplit,
         EndHead, EndTail, Fails, At
<1>. QED
  BY <1>2, <1>3

\* A step of the engine is a step of Scoring, or nothing it shows.
LEMMA StepRefines ==
  ASSUME EngineInv, [Next]_vars
  PROVE  [Abstract!Next]_Abstract!vars
<1> DEFINE shown == [u \in Threads |-> Shown(answer[u])]
<1>1. Abstract!vars = <<req, shown>>
  BY DEF Abstract!vars, Shown
<1>2. CASE UNCHANGED <<req, answer>>
  <2>1. UNCHANGED <<req, shown>>
    BY <1>2
  <2>2. (Abstract!vars)' = <<req, shown>>'
    BY DEF Abstract!vars, Shown
  <2>. QED
    BY <1>1, <2>1, <2>2
<1>3. CASE ~ UNCHANGED <<req, answer>>
  <2>1. Next
    BY <1>3 DEF vars
  <2>2. PICK t \in Threads : Step(t) \/ \E r \in Requests : Ask(t, r)
    BY <2>1 DEF Next
  <2>3. ASSUME NEW r \in Requests, Ask(t, r) PROVE Abstract!Ask(t, r)
    <3>1. req[t] = NoRequest
      BY <2>3 DEF Ask, EngineInv, TypeOK
    <3>2. req' = [req EXCEPT ![t] = r] /\ answer' = [answer EXCEPT ![t] = NoAnswer]
      BY <2>3 DEF Ask
    <3>3. NoAnswer.status = "none" /\ Shown(NoAnswer) = NoAnswer
      BY DEF NoAnswer, Shown
    <3>4. shown' = [shown EXCEPT ![t] = NoAnswer]
      BY <3>2, <3>3, ShownExcept
    <3>. QED
      BY <3>1, <3>2, <3>4 DEF Abstract!Ask, Abstract!NoAnswer, NoAnswer, Shown
  <2>4. ASSUME NEW a, NEW b, b = Shown(a), Return(t, a) PROVE Abstract!Return(t, b)
    <3>1. req' = [req EXCEPT ![t] = NoRequest] /\ answer' = [answer EXCEPT ![t] = a]
      BY <2>4 DEF Return
    <3>2. shown' = [shown EXCEPT ![t] = b]
      BY <2>4, <3>1, ShownExcept
    <3>. QED
      BY <3>1, <3>2 DEF Abstract!Return, Shown
  <2>5. CASE Step(t)
    <3>1. Return(t, Failed) \/ Refused(t) \/ AnsweredRight(t)
      BY <1>3, <2>5, StepEnds
    <3>2. req[t] # NoRequest
      <4>1. pc[t] # "idle"
        BY <2>5, StepsInCall
      <4>. QED
        BY <4>1, InCall
    <3>3. ASSUME Return(t, Failed) PROVE Abstract!Answer(t)
      <4>1. Shown(Failed) = Failed
        BY DEF Shown, Failed
      <4>2. Abstract!Return(t, Failed)
        BY <2>4, <3>3, <4>1
      <4>. QED
        BY <3>2, <4>2 DEF Abstract!Answer, Abstract!Failed, Failed
    <3>4. ASSUME Refused(t) PROVE Abstract!Answer(t)
      <4>1. Shown(Rejected) = Rejected
        BY DEF Shown, Rejected
      <4>2. Abstract!Return(t, Rejected)
        BY <2>4, <3>4, <4>1 DEF Refused
      <4>3. Abstract!MayRefuse(req[t])
        BY <3>4, SameRefusals DEF Refused
      <4>. QED
        BY <3>2, <4>2, <4>3 DEF Abstract!Answer, Abstract!Rejected, Rejected
    <3>5. ASSUME AnsweredRight(t) PROVE Abstract!Answer(t)
      <4>1. PICK scores : /\ Return(t, Scored(scores))
                          /\ [n \in DOMAIN scores |-> scores[n].marks] = Reference(req[t])
        BY <3>5 DEF AnsweredRight
      <4>2. PICK b : b = [status |-> "scored", marks |-> Reference(req[t])]
        OBVIOUS
      <4>3. b = Shown(Scored(scores))
        BY <4>1, <4>2 DEF Shown, Scored
      <4>4. Abstract!ScoredBy(req[t]) = b
        BY <4>2, SameReference DEF Abstract!ScoredBy
      <4>5. Abstract!Return(t, b)
        BY <2>4, <4>1, <4>3
      <4>6. Abstract!Return(t, Abstract!ScoredBy(req[t]))
        BY <4>4, <4>5 DEF Abstract!Return
      <4>. QED
        BY <3>2, <4>6 DEF Abstract!Answer
    <3>. QED
      BY <3>1, <3>3, <3>4, <3>5 DEF Abstract!Next
  <2>. QED
    BY <2>2, <2>3, <2>5 DEF Abstract!Next
<1>. QED
  BY <1>2, <1>3

LEMMA InitRefines == Init => Abstract!Init
<1>. SUFFICES ASSUME Init PROVE Abstract!Init
  OBVIOUS
<1>1. \A t \in Threads : answer[t] = NoAnswer /\ NoAnswer.status = "none"
  BY DEF Init, NoAnswer
<1>2. [t \in Threads |-> Shown(answer[t])] = [t \in Threads |-> NoAnswer]
  BY <1>1 DEF Shown
<1>3. req = [t \in Threads |-> NoRequest]
  BY DEF Init
<1>. QED
  BY <1>2, <1>3 DEF Abstract!Init, Abstract!NoAnswer, NoAnswer, Shown

\* Every answer is the reading of its own prompts: whatever was asked, failed
\* or was refused before, by whichever thread, and however a call was cut into
\* windows, rounds and tries, what it is answered with is what an engine with
\* no memory would have read; it is refused for a fault of its own alone.
THEOREM EngineImplementsScoring == SafeSpec => Implements
<1>1. Init => Abstract!Init
  BY InitRefines
<1>2. EngineInv /\ [Next]_vars => [Abstract!Next]_Abstract!vars
  BY StepRefines
<1>. QED
  BY <1>1, <1>2, Invariant, PTL DEF SafeSpec, Implements, Abstract!Spec

------------------------------------------------------------------------------
(* The size of what a call holds and of what it plans.                     *)

\* Cells that the session alone holds are as many as its tokens.
LEMMA SessionCells ==
  ASSUME NEW C \in SUBSET Cells, NEW q \in Seq(Token), Holds(C, 0) = Placed(q),
         \A s \in 1 .. Forks : Holds(C, s) = {}
  PROVE  IsFiniteSet(C) /\ Cardinality(C) = Len(q)
<1> DEFINE n == Len(q)
           cell(i) == [pos |-> i, tok |-> q[i], seqs |-> {0}]
           b == [i \in 1 .. n |-> cell(i)]
<1>1. n \in Nat /\ DOMAIN q = 1 .. n
  OBVIOUS
<1>2. ASSUME NEW c \in C PROVE c.seqs = {0} /\ c \in Cells /\ <<c.pos, c.tok>> \in Placed(q)
  <2>1. c \in Cells /\ c.seqs \in SUBSET (0 .. Forks) /\ c.seqs # {}
    BY DEF Cells
  <2>2. \A s \in c.seqs : <<c.pos, c.tok>> \in Holds(C, s)
    BY DEF Holds
  <2>3. \A s \in 1 .. Forks : s \notin c.seqs
    BY <2>2
  <2>4. \A s \in 0 .. Forks : s = 0 \/ s \in 1 .. Forks
    BY LimitAssumption
  <2>5. c.seqs = {0}
    BY <2>1, <2>3, <2>4
  <2>. QED
    BY <2>1, <2>2, <2>5
<1>3. \A i \in 1 .. n : cell(i).pos = i
  OBVIOUS
<1>4. ASSUME NEW i \in 1 .. n PROVE cell(i) \in C
  <2>1. <<i, q[i]>> \in Holds(C, 0)
    BY <1>1 DEF Placed
  <2>2. PICK c \in C : c.pos = i /\ c.tok = q[i]
    BY <2>1 DEF Holds
  <2>3. c = [pos |-> c.pos, tok |-> c.tok, seqs |-> c.seqs]
    BY <1>2 DEF Cells
  <2>. QED
    BY <1>2, <2>2, <2>3
<1>5. ASSUME NEW c \in C PROVE \E i \in 1 .. n : cell(i) = c
  <2>1. PICK i \in 1 .. n : <<c.pos, c.tok>> = <<i, q[i]>>
    BY <1>1, <1>2 DEF Placed
  <2>2. c = [pos |-> c.pos, tok |-> c.tok, seqs |-> c.seqs] /\ c.seqs = {0}
    BY <1>2 DEF Cells
  <2>. QED
    BY <2>1, <2>2
<1>. HIDE DEF cell
<1>6. b \in Bijection(1 .. n, C)
  <2>1. b \in [1 .. n -> C]
    BY <1>4
  <2>2. \A i, j \in 1 .. n : b[i] = b[j] => i = j
    BY <1>3
  <2>3. \A c \in C : \E i \in 1 .. n : b[i] = c
    BY <1>5
  <2>. HIDE DEF b
  <2>. QED
    BY <2>1, <2>2, <2>3 DEF Bijection, Injection, Surjection, IsInjective
<1>7. IsFiniteSet(1 .. n) /\ Cardinality(1 .. n) = n
  BY <1>1, UpToFinite
<1>. QED
  BY <1>6, <1>7, FS_Bijection DEF ExistsBijection

LEMMA HoldsAlone ==
  ASSUME EngineInv, NEW t \in Threads, owner = t, InUse(t) = {}, NEW q \in Seq(Token),
         Holds(cells, 0) = Placed(q)
  PROVE  IsFiniteSet(cells) /\ Cardinality(cells) = Len(q)
<1>1. PICK C : C = cells
  OBVIOUS
<1>2. C \in SUBSET Cells /\ Holds(C, 0) = Placed(q) /\ \A s \in 1 .. Forks : Holds(C, s) = {}
  BY <1>1 DEF EngineInv, TypeOK, Holding, MemoryFits
<1>. QED
  BY <1>1, <1>2, SessionCells

\* Between a call's rounds the session alone is held.
LEMMA AtRounds ==
  ASSUME EngineInv, NEW t \in Threads, At(t, "rounds")
  PROVE  /\ IsRequest(req[t]) /\ ~HasEmptyPrompt(req[t]) /\ WithinLimits(req[t]) /\ TypeOK
         /\ IsFiniteSet(cells) /\ Cardinality(cells) = Shared(req[t]) /\ Shared(req[t]) \in Nat
<1>1. owner = t /\ pc[t] = "rounds" /\ pc[t] \in Forked
  BY DEF At, Forked
<1>2. /\ IsRequest(req[t]) /\ ~HasEmptyPrompt(req[t]) /\ WithinLimits(req[t]) /\ TypeOK
      /\ cached = Session(req[t]) /\ Holds(cells, 0) = Placed(cached)
  BY <1>1, InFork
<1>3. PICK q : q = Session(req[t])
  OBVIOUS
<1>4. q \in Seq(Token) /\ Len(q) = Shared(req[t]) /\ Shared(req[t]) \in Nat
  BY <1>2, <1>3, SessionShared
<1>5. InUse(t) = {}
  BY <1>1 DEF InUse
<1>6. IsFiniteSet(cells) /\ Cardinality(cells) = Len(q)
  BY <1>1, <1>2, <1>3, <1>4, <1>5, HoldsAlone
<1>. QED
  BY <1>2, <1>4, <1>6

\* A chunk is as long as its tokens; chunks of different sequences are apart.
LEMMA ChunkSize ==
  ASSUME NEW toks \in Seq(Token), NEW at \in Nat, NEW seq, NEW slot
  PROVE  /\ IsFiniteSet(Chunk(toks, at, seq, slot))
         /\ Cardinality(Chunk(toks, at, seq, slot)) = Len(toks)
         /\ \A e \in Chunk(toks, at, seq, slot) : e.seq = seq
<1> DEFINE n == Len(toks)
           e(i) == [tok |-> toks[i], pos |-> at + i, seq |-> seq,
                    slot |-> IF i = Len(toks) THEN slot ELSE NoSlot]
           T == {e(i) : i \in 1 .. n}
           b == [i \in 1 .. n |-> e(i)]
<1>1. n \in Nat /\ DOMAIN toks = 1 .. n
  OBVIOUS
<1>2. Chunk(toks, at, seq, slot) = T
  BY <1>1, Zenon DEF Chunk
<1>3. \A i \in 1 .. n : e(i).pos = at + i /\ e(i).seq = seq
  OBVIOUS
<1>. HIDE DEF e
<1>4. b \in [1 .. n -> T] /\ (\A y \in T : \E i \in 1 .. n : b[i] = y)
  OBVIOUS
<1>5. \A i, j \in 1 .. n : b[i] = b[j] => i = j
  BY <1>1, <1>3
<1>6. b \in Bijection(1 .. n, T)
  BY <1>4, <1>5 DEF Bijection, Injection, Surjection, IsInjective
<1>7. IsFiniteSet(1 .. n) /\ Cardinality(1 .. n) = n
  BY <1>1, UpToFinite
<1>8. IsFiniteSet(T) /\ Cardinality(T) = n
  BY <1>6, <1>7, FS_Bijection DEF ExistsBijection
<1>9. \A x \in T : x.seq = seq
  BY <1>3
<1>. QED
  BY <1>2, <1>8, <1>9

Chunks(toks, at, seqs, slots, n) ==
    UNION {Chunk(toks[k], at, seqs[k], slots[k]) : k \in 1 .. n}

LEMMA ChunksSize ==
  ASSUME NEW n \in Nat, NEW toks, NEW at \in Nat, NEW seqs, NEW slots, NEW size,
         \A k \in 1 .. n : toks[k] \in Seq(Token) /\ size[k] = Len(toks[k]),
         \A j, k \in 1 .. n : seqs[j] = seqs[k] => j = k
  PROVE  /\ IsFiniteSet(Chunks(toks, at, seqs, slots, n))
         /\ Cardinality(Chunks(toks, at, seqs, slots, n)) = SumFunctionOnSet(size, 1 .. n)
<1> DEFINE todo == Chunks(toks, at, seqs, slots, n)
           F == [k \in 1 .. n |-> Chunk(toks[k], at, seqs[k], slots[k])]
<1>1. ASSUME NEW k \in 1 .. n
      PROVE  /\ IsFiniteSet(F[k]) /\ Cardinality(F[k]) = size[k]
             /\ \A e \in F[k] : e.seq = seqs[k]
  <2>1. F[k] = Chunk(toks[k], at, seqs[k], slots[k])
    OBVIOUS
  <2>. HIDE DEF F
  <2>. QED
    BY <2>1, ChunkSize
<1>2. todo = UNION {F[k] : k \in 1 .. n}
  BY DEF Chunks
<1>. HIDE DEF F, todo
<1>3. PICK S : S = 1 .. n
  OBVIOUS
<1>4. todo = Members(F, S)
  BY <1>2, <1>3 DEF Members
<1>5. \A x \in S : IsFiniteSet(F[x]) /\ Cardinality(F[x]) = size[x]
  BY <1>1, <1>3
<1>6. \A x, y \in S : x # y => F[x] \cap F[y] = {}
  BY <1>1, <1>3
<1>7. IsFiniteSet(S)
  BY <1>3, FS_Interval
<1>8. IsFiniteSet(Members(F, S)) /\ Cardinality(Members(F, S)) = SumFunctionOnSet(size, S)
  BY <1>5, <1>6, <1>7, UnionSize
<1>. QED
  BY <1>3, <1>4, <1>8 DEF todo

\* A decode of a sequence's rest: with what is held of it, as much as it is.
LEMMA RestSize ==
  ASSUME NEW q \in Seq(Token), NEW from \in 0 .. Len(q), NEW seq, NEW slot,
         NEW todo, todo = Chunk(SubSeq(q, from + 1, Len(q)), from, seq, slot)
  PROVE  IsFiniteSet(todo) /\ Cardinality(todo) = Len(q) - from /\ Len(q) \in Nat
<1>1. from \in Nat /\ Len(q) \in Nat
  OBVIOUS
<1>2. PICK rest : rest = SubSeq(q, from + 1, Len(q))
  OBVIOUS
<1>3. rest \in Seq(Token) /\ Len(rest) = Len(q) - from
  BY <1>1, <1>2
<1>. QED
  BY <1>1, <1>2, <1>3, ChunkSize

\* The tokens of some fingerprints.
SuffixLens(r, ns) == [k \in DOMAIN ns |-> SuffixLen(r, ns[k])]

\* What a round plans: the suffixes of the fingerprints it takes.
LEMMA RoundPlan ==
  ASSUME EngineInv, NEW t \in Threads, StartRound(t), owner' = t
  PROVE  LET r == req[t]
             n == RoundSize(r, next)
         IN  /\ n \in 1 .. Forks /\ n \in Nat /\ next \in Nat \ {0}
             /\ next + n - 1 <= Len(Single(r))
             /\ round' = SubSeq(Single(r), next, next + n - 1)
             /\ cells' = SeqCp(cells, 0, 1 .. n)
             /\ pc'[t] = "round" /\ UNCHANGED <<req, readings>>
             /\ Len(round') = n /\ DOMAIN round' = 1 .. n
             /\ \A k \in 1 .. n : /\ round'[k] = Single(r)[next + k - 1]
                                  /\ round'[k] \in DOMAIN r.prompts
                                  /\ SuffixLens(r, round')[k] \in Nat
             /\ Cardinality(plan') = SumFunctionOnSet(SuffixLens(r, round'), 1 .. n)
<1> DEFINE r == req[t]
           n == RoundSize(r, next)
<1>1. At(t, "rounds") /\ owner = t /\ next <= Len(Single(r)) /\ t # None
  BY EngineAssumption DEF StartRound, At
<1>2. n \in 1 .. Forks /\ next + n - 1 <= Len(Single(r)) /\ n # 0
  BY <1>1, HasRoom
<1>3. /\ round' = SubSeq(Single(r), next, next + n - 1)
      /\ cells' = SeqCp(cells, 0, 1 .. Len(round'))
      /\ plan' = UNION {Chunk(Suffix(r, round'[k]), Shared(r), k, round'[k])
                        : k \in DOMAIN round'}
      /\ pc' = [pc EXCEPT ![t] = "round"]
      /\ UNCHANGED <<req, readings>>
  BY <1>2 DEF StartRound, Goto
<1>4. /\ IsRequest(r) /\ ~HasEmptyPrompt(r) /\ TypeOK /\ Shared(r) \in Nat
      /\ next \in Nat \ {0} /\ pc'[t] = "round"
  BY <1>1, <1>3, AtRounds DEF TypeOK
<1> DEFINE S == {m \in DOMAIN r.prompts : OneToken(r, m)}
<1>5. Single(r) \in Seq(S) /\ S \subseteq DOMAIN r.prompts
  BY <1>4, SingleType
<1>6. Len(round') = n /\ DOMAIN round' = 1 .. n /\ n \in Nat
      /\ \A k \in 1 .. n : round'[k] \in S /\ round'[k] = Single(r)[next + k - 1]
  <2>. HIDE DEF n, S
  <2>1. next \in Nat /\ next >= 1 /\ n \in Nat /\ Len(Single(r)) \in Nat /\ n >= 1
    BY <1>2, <1>4, <1>5, LimitAssumption DEF TypeOK
  <2>2. \A i \in next .. next + n - 1 : Single(r)[i] \in S
    BY <1>2, <1>5, <2>1
  <2>3. next <= next + n - 1 /\ next + n - 1 - next + 1 = n /\ next + n - 1 \in Int
    BY <2>1
  <2>4. round' \in Seq(S) /\ Len(round') = n
    BY <1>3, <2>1, <2>2, <2>3, SubSeqProperties
  <2>5. PICK q, lo, hi : q = Single(r) /\ lo = next /\ hi = next + n - 1
    OBVIOUS
  <2>6. \A k \in 1 .. n : SubSeq(q, lo, hi)[k] = q[lo + k - 1]
    <3>1. q \in Seq(S) /\ lo \in Nat /\ lo >= 1 /\ hi \in Nat /\ hi <= Len(q) /\ hi - lo + 1 = n
      BY <1>2, <1>5, <2>1, <2>5
    <3>. QED
      BY <2>1, <3>1
  <2>7. round' = SubSeq(q, lo, hi)
    BY <1>3, <2>5
  <2>. QED
    BY <2>1, <2>4, <2>5, <2>6, <2>7
<1>. HIDE DEF n, S
<1>7. PICK toks, slots, size : /\ toks = [k \in 1 .. n |-> Suffix(r, round'[k])]
                               /\ slots = round' /\ size = SuffixLens(r, round')
  OBVIOUS
<1>8. ASSUME NEW k \in 1 .. n PROVE toks[k] \in Seq(Token) /\ size[k] = Len(toks[k])
  <2>1. PICK m \in DOMAIN r.prompts : m = round'[k]
    BY <1>5, <1>6
  <2>2. r.prompts[m] \in Seq(Token) /\ Len(r.prompts[m]) \in Nat /\ Shared(r) < Len(r.prompts[m])
    BY <1>4, RequestParts, SessionShared
  <2>3. toks[k] = SubSeq(r.prompts[m], Shared(r) + 1, Len(r.prompts[m]))
    BY <1>7, <2>1 DEF Suffix
  <2>4. size[k] = Len(r.prompts[m]) - Shared(r)
    BY <1>6, <1>7, <2>1 DEF SuffixLens, SuffixLen
  <2>. QED
    BY <1>4, <2>2, <2>3, <2>4
<1>9. Cardinality(plan') = SumFunctionOnSet(size, 1 .. n)
  <2>1. PICK seqs : seqs = [k \in 1 .. n |-> k]
    OBVIOUS
  <2>2. \A k \in 1 .. n : Chunk(Suffix(r, round'[k]), Shared(r), k, round'[k])
                            = Chunk(toks[k], Shared(r), seqs[k], slots[k])
    BY <1>7, <2>1
  <2>3. plan' = Chunks(toks, Shared(r), seqs, slots, n)
    BY <1>3, <1>6, <2>2 DEF Chunks
  <2>4. \A j, k \in 1 .. n : seqs[j] = seqs[k] => j = k
    BY <2>1
  <2>5. \A k \in 1 .. n : toks[k] \in Seq(Token) /\ size[k] = Len(toks[k])
    BY <1>8
  <2>6. PICK at, m : at = Shared(r) /\ m = n
    OBVIOUS
  <2>7. /\ m \in Nat /\ at \in Nat
        /\ \A k \in 1 .. m : toks[k] \in Seq(Token) /\ size[k] = Len(toks[k])
        /\ \A j, k \in 1 .. m : seqs[j] = seqs[k] => j = k
    BY <1>4, <1>6, <2>4, <2>5, <2>6
  <2>8. Cardinality(Chunks(toks, at, seqs, slots, m)) = SumFunctionOnSet(size, 1 .. m)
    BY <2>7, ChunksSize
  <2>. QED
    BY <2>3, <2>6, <2>8
<1>10. \A k \in 1 .. n : round'[k] \in DOMAIN r.prompts /\ SuffixLens(r, round')[k] \in Nat
  <2>1. ASSUME NEW k \in 1 .. n PROVE size[k] \in Nat
    <3>1. PICK q : q = toks[k]
      OBVIOUS
    <3>2. q \in Seq(Token) /\ size[k] = Len(q)
      BY <1>8, <3>1
    <3>. QED
      BY <3>2
  <2>. QED
    BY <1>5, <1>6, <1>7, <2>1
<1>11. cells' = SeqCp(cells, 0, 1 .. n)
  BY <1>3, <1>6
<1>12. n \in 1 .. Forks /\ next + n - 1 <= Len(Single(r))
       /\ round' = SubSeq(Single(r), next, next + n - 1)
  BY <1>2, <1>3
<1>. QED
  BY <1>3, <1>4, <1>6, <1>7, <1>9, <1>10, <1>11, <1>12, Zenon DEF n

\* What a round of probes plans.
LEMMA ProbesPlan ==
  ASSUME EngineInv, NEW t \in Threads, StartProbes(t)
  PROVE  LET r == req[t]
             n == Len(round')
         IN  /\ owner = t /\ pc[t] = "probes" /\ plan = {} /\ pc'[t] = "probe"
             /\ UNCHANGED <<req, readings, nodes, next, start, work>>
             /\ IsRequest(r) /\ ~HasEmptyPrompt(r) /\ WithinLimits(r) /\ r.kind = "score"
             /\ Unread(r) # {}
             /\ cells' = SeqCp(cells, 1, 2 .. n + 1)
             /\ n \in Nat /\ n < Forks /\ DOMAIN round' = 1 .. n
             /\ round' = [k \in 1 .. n |-> round'[k]]
             /\ \A k \in 1 .. n : round'[k] \in Seq(Token) /\ round'[k] \in ProbesLeft(r)
             /\ \A j, k \in 1 .. n : round'[j] = round'[k] => j = k
             /\ Cardinality(plan') = SumFunctionOnSet(Lengths(round'), 1 .. n)
             /\ SumFunctionOnSet(Lengths(round'), 1 .. n) \in Nat
<1> DEFINE r == req[t]
           n == Len(round')
<1>1. /\ owner = t /\ pc[t] = "probes" /\ pc[t] \in Forked /\ plan = {}
      /\ cells' = SeqCp(cells, 1, 2 .. n + 1)
      /\ plan' = UNION {Chunk(round'[k], Len(r.prompts[Current(r)]), k + 1, k)
                        : k \in DOMAIN round'}
      /\ pc' = [pc EXCEPT ![t] = "probe"]
      /\ UNCHANGED <<req, readings, nodes, next, start, work>>
  BY BetweenDecodes DEF StartProbes, At, Goto, Forked
<1>2. /\ IsRequest(r) /\ ~HasEmptyPrompt(r) /\ WithinLimits(r) /\ r.kind = "score"
      /\ pc'[t] = "probe" /\ Unread(r) # {}
  BY <1>1, InFork DEF TypeOK, Holding, RoundFits
<1>3. PICK some \in kSubset(FreeForks(r), ProbesLeft(r)) : round' = SetToSeq(some)
  BY DEF StartProbes
<1>4. /\ n \in Nat /\ DOMAIN round' = 1 .. n /\ n < Forks
      /\ round' = [k \in 1 .. n |-> round'[k]]
      /\ \A k \in 1 .. n : round'[k] \in Seq(Token)
  <2>1. PICK sq : sq = SetToSeq(some)
    OBVIOUS
  <2>2. /\ sq \in Seq(Probes(r, Current(r))) /\ Len(sq) \in Nat /\ Len(sq) < Forks
        /\ DOMAIN sq = 1 .. Len(sq) /\ \A k \in 1 .. Len(sq) : sq[k] \in Seq(Token)
    BY <1>2, <2>1, ProbesOfRound
  <2>3. sq = [k \in 1 .. Len(sq) |-> sq[k]]
    BY <2>2
  <2>4. round' = sq
    BY <1>3, <2>1
  <2>. QED
    BY <2>2, <2>3, <2>4
<1>5. IsFiniteSet(some) /\ some \subseteq ProbesLeft(r)
  BY <1>2, <1>3, ProbesLeftType, FS_Subset DEF kSubset
<1>6. /\ \A k \in 1 .. n : round'[k] \in some
      /\ \A j, k \in 1 .. n : round'[j] = round'[k] => j = k
  <2>1. SetToSeq(some) \in Seq(some) /\ IsInjective(SetToSeq(some))
    BY <1>5, SetToSeqOfFinite, SetToSeqOnce
  <2>2. \A k \in 1 .. n : round'[k] \in some
    BY <1>3, <1>4, <2>1
  <2>. QED
    BY <1>3, <1>4, <2>1, <2>2 DEF IsInjective
<1>7. \A k \in 1 .. n : round'[k] \in ProbesLeft(r)
  BY <1>5, <1>6
<1>. HIDE DEF n
<1>8. Cardinality(plan') = SumFunctionOnSet(Lengths(round'), 1 .. n)
      /\ SumFunctionOnSet(Lengths(round'), 1 .. n) \in Nat
  <2>1. PICK at, m, toks, seqs, slots, size :
           /\ at = Len(r.prompts[Current(r)]) /\ m = n /\ toks = round'
           /\ seqs = [k \in 1 .. n |-> k + 1] /\ slots = [k \in 1 .. n |-> k]
           /\ size = Lengths(round')
    OBVIOUS
  <2>2. at \in Nat /\ m \in Nat
    BY <1>2, <1>4, <2>1, CurrentIs, RequestParts
  <2>3. \A k \in 1 .. m : toks[k] \in Seq(Token) /\ size[k] = Len(toks[k])
    BY <1>4, <2>1 DEF Lengths
  <2>4. \A j, k \in 1 .. m : seqs[j] = seqs[k] => j = k
    BY <2>1
  <2>5. plan' = Chunks(toks, at, seqs, slots, m)
    <3>1. \A k \in 1 .. n : Chunk(round'[k], Len(r.prompts[Current(r)]), k + 1, k)
                               = Chunk(toks[k], at, seqs[k], slots[k])
      BY <2>1
    <3>. QED
      BY <1>1, <1>4, <2>1, <3>1 DEF Chunks
  <2>6. Cardinality(Chunks(toks, at, seqs, slots, m)) = SumFunctionOnSet(size, 1 .. m)
    BY <2>2, <2>3, <2>4, ChunksSize
  <2>7. SumFunctionOnSet(size, 1 .. m) \in Nat
    <3>1. NatOn(size, 1 .. m)
      BY <2>3 DEF NatOn
    <3>. QED
      BY <2>2, <3>1, UpToFinite, SumType
  <2>. QED
    BY <2>1, <2>5, <2>6, <2>7
<1>9. cells' = SeqCp(cells, 1, 2 .. n + 1)
  BY <1>1 DEF n
<1>. QED
  BY <1>1, <1>2, <1>4, <1>6, <1>7, <1>8, <1>9, Zenon DEF n

------------------------------------------------------------------------------
(* Who else steps.                                                         *)

\* Once the call has returned, nobody holds the mutex.
LEMMA ReturnsFree ==
  ASSUME NEW s, NEW a, Return(s, a), owner \in {s, None}
  PROVE  owner' = None
BY DEF Return, LetGo

\* Steps that leave the mutex, the memory and the locals of its holder alone.
LEMMA StepsOutside ==
  ASSUME EngineInv, NEW s \in Threads,
         Prepare(s) \/ TokenizerFails(s) \/ \E r \in Requests : Ask(s, r)
  PROVE  /\ UNCHANGED <<owner, cells, frame>>
         /\ \A t \in Threads : owner' = t => pc'[t] = pc[t] /\ req'[t] = req[t]
<1>1. TypeOK
  BY DEF EngineInv
<1>2. CASE Prepare(s)
  <2>1. owner # s
    BY <1>1, <1>2 DEF Prepare, TypeOK, Inside
  <2>2. /\ \A u \in Threads : u # s => pc'[u] = pc[u] /\ req'[u] = req[u]
        /\ UNCHANGED <<owner, cells, frame>>
    BY <1>1, <1>2, <2>1 DEF Prepare, TypeOK, Return, LetGo, Goto, inner
  <2>. QED
    BY <2>1, <2>2
<1>3. CASE TokenizerFails(s)
  <2>1. owner # s
    BY <1>1, <1>3, EngineAssumption DEF TokenizerFails, TypeOK, Inside
  <2>2. /\ \A u \in Threads : u # s => pc'[u] = pc[u] /\ req'[u] = req[u]
        /\ UNCHANGED <<owner, cells, frame>>
    BY <1>1, <1>3, <2>1 DEF TokenizerFails, TypeOK, Return, LetGo, Goto
  <2>. QED
    BY <2>1, <2>2
<1>4. CASE \E r \in Requests : Ask(s, r)
  <2>1. PICK r \in Requests : Ask(s, r)
    BY <1>4
  <2>2. pc[s] = "idle"
    BY <2>1 DEF Ask
  <2>3. owner # s
    BY <1>1, <2>2 DEF TypeOK, Inside
  <2>4. /\ \A u \in Threads : u # s => pc'[u] = pc[u] /\ req'[u] = req[u]
        /\ UNCHANGED <<owner, cells, frame>>
    BY <1>1, <2>1 DEF Ask, TypeOK, Goto, inner
  <2>. QED
    BY <2>3, <2>4
<1>. QED
  BY <1>2, <1>3, <1>4

------------------------------------------------------------------------------
(* Room.                                                                   *)

\* Copies and cuts take no cell, a token takes one at most.
LEMMA SeqCpCells ==
  ASSUME NEW C, IsFiniteSet(C), NEW from, NEW to
  PROVE  /\ IsFiniteSet(SeqCp(C, from, to)) /\ Cardinality(C) \in Nat
         /\ Cardinality(SeqCp(C, from, to)) \in Nat
         /\ Cardinality(SeqCp(C, from, to)) <= Cardinality(C)
<1> DEFINE copy(c) == IF from \in c.seqs THEN [c EXCEPT !.seqs = @ \cup to] ELSE c
<1>1. SeqCp(C, from, to) = {copy(c) : c \in C}
  BY DEF SeqCp
<1>. HIDE DEF copy
<1>2. PICK f : f = [c \in C |-> copy(c)]
  OBVIOUS
<1>3. \A y \in SeqCp(C, from, to) : \E x \in C : f[x] = y
  BY <1>1, <1>2
<1>. QED
  BY <1>3, NamedBy

LEMMA SeqRmCells ==
  ASSUME NEW C, IsFiniteSet(C), NEW seqs, NEW first
  PROVE  /\ IsFiniteSet(SeqRm(C, seqs, first)) /\ Cardinality(C) \in Nat
         /\ Cardinality(SeqRm(C, seqs, first)) \in Nat
         /\ Cardinality(SeqRm(C, seqs, first)) <= Cardinality(C)
<1> DEFINE cut(c) == IF c.pos >= first THEN [c EXCEPT !.seqs = @ \ seqs] ELSE c
<1>1. SeqRm(C, seqs, first) = {c \in {cut(d) : d \in C} : c.seqs # {}}
  BY DEF SeqRm
<1>. HIDE DEF cut
<1>2. PICK f : f = [c \in C |-> cut(c)]
  OBVIOUS
<1>3. \A y \in SeqRm(C, seqs, first) : \E x \in C : f[x] = y
  BY <1>1, <1>2
<1>. QED
  BY <1>3, NamedBy

LEMMA DecodedCells ==
  ASSUME NEW C, IsFiniteSet(C), NEW B, IsFiniteSet(B)
  PROVE  /\ IsFiniteSet(Decoded(C, B)) /\ Cardinality(C) \in Nat /\ Cardinality(B) \in Nat
         /\ Cardinality(Decoded(C, B)) \in Nat
         /\ Cardinality(Decoded(C, B)) <= Cardinality(C) + Cardinality(B)
<1>1. PICK T : T = {CellOf(e) : e \in B}
  OBVIOUS
<1>2. PICK f : f = [e \in B |-> CellOf(e)]
  OBVIOUS
<1>3. \A y \in T : \E x \in B : f[x] = y
  BY <1>1, <1>2
<1>4. /\ IsFiniteSet(T) /\ Cardinality(T) \in Nat /\ Cardinality(B) \in Nat
      /\ Cardinality(T) <= Cardinality(B)
  BY <1>3, NamedBy
<1>5. Decoded(C, B) = C \cup T
  BY <1>1 DEF Decoded
<1>6. /\ IsFiniteSet(C \cup T)
      /\ Cardinality(C \cup T) = Cardinality(C) + Cardinality(T) - Cardinality(C \cap T)
  BY <1>4, FS_Union
<1>7. IsFiniteSet(C \cap T)
  BY <1>4, FS_Subset
<1>8. /\ Cardinality(C) \in Nat /\ Cardinality(C \cap T) \in Nat
      /\ Cardinality(C \cup T) \in Nat
  BY <1>6, <1>7, FS_CardinalityType
<1>. QED
  BY <1>4, <1>5, <1>6, <1>8

\* The cells of the session and of a trie's root.
Kernel(C) == {c \in C : 0 \in c.seqs \/ 1 \in c.seqs}

LEMMA KernelCut ==
  ASSUME NEW C \in SUBSET Cells, IsFiniteSet(C), NEW seqs, 0 \notin seqs, 1 \notin seqs,
         \A s \in 2 .. Forks : Holds(SeqRm(C, seqs, 1), s) = {}
  PROVE  /\ IsFiniteSet(SeqRm(C, seqs, 1)) /\ Cardinality(Kernel(C)) \in Nat
         /\ Cardinality(SeqRm(C, seqs, 1)) \in Nat
         /\ Cardinality(SeqRm(C, seqs, 1)) <= Cardinality(Kernel(C))
<1> DEFINE cut(c) == IF c.pos >= 1 THEN [c EXCEPT !.seqs = @ \ seqs] ELSE c
           left == SeqRm(C, seqs, 1)
<1>1. left = {c \in {cut(d) : d \in C} : c.seqs # {}}
  BY DEF SeqRm
<1>2. \A c \in C : cut(c).seqs \subseteq c.seqs
  BY DEF Cells
<1>. HIDE DEF cut
<1>3. ASSUME NEW c \in left PROVE 0 \in c.seqs \/ 1 \in c.seqs
  <2>1. left \subseteq Cells
    BY SeqRmAll
  <2>2. c.seqs \in SUBSET (0 .. Forks) /\ c.seqs # {}
    BY <2>1 DEF Cells
  <2>3. \A s \in c.seqs : <<c.pos, c.tok>> \in Holds(left, s)
    BY DEF Holds
  <2>4. \A s \in 2 .. Forks : s \notin c.seqs
    BY <2>3
  <2>5. \A s \in 0 .. Forks : s = 0 \/ s = 1 \/ s \in 2 .. Forks
    BY LimitAssumption
  <2>. QED
    BY <2>2, <2>4, <2>5
<1>4. PICK f : f = [c \in Kernel(C) |-> cut(c)]
  OBVIOUS
<1>5. \A y \in left : \E x \in Kernel(C) : f[x] = y
  BY <1>1, <1>2, <1>3, <1>4 DEF Kernel
<1>6. IsFiniteSet(Kernel(C))
  BY FS_Subset DEF Kernel
<1>. HIDE DEF left
<1>7. /\ IsFiniteSet(left) /\ Cardinality(Kernel(C)) \in Nat /\ Cardinality(left) \in Nat
      /\ Cardinality(left) <= Cardinality(Kernel(C))
  BY <1>5, <1>6, NamedBy
<1>. QED
  BY <1>7 DEF left

\* A request whose tries fit: every question beside any round of its probes.
\* check_limits does not see to it (EngineWideTrie).
TriesFit(r) ==
    \A n \in DOMAIN r.prompts : \A ps \in SUBSET Probes(r, n) :
        Cardinality(ps) < Forks =>
            Len(r.prompts[n]) + SumFunction([p \in ps |-> Len(p)]) <= NCtx

\* The cells a call holds and those it is still to fill.
Full == Cardinality(cells) + Cardinality(plan)

\* What the call under way keeps: what it holds and plans fits the context; at
\* a trie's root and once its probes are decoded it is the question at most,
\* and between two rounds of probes that much is left when the forks are cut.
RoomKept(t) ==
    /\ IsFiniteSet(cells)
    /\ plan # {} => Full <= NCtx
    /\ pc[t] \in {"root", "probes"} => Full <= Len(Question(req[t]))
    /\ pc[t] = "probe" => Cardinality(Kernel(cells)) <= Len(Question(req[t]))

RoomInv == \A t \in Threads : owner = t => RoomKept(t)

\* What check_limits says of a question and of each of its options.
LEMMA PromptFits ==
  ASSUME NEW r, IsRequest(r), WithinLimits(r), NEW n \in DOMAIN r.prompts
  PROVE  /\ Len(r.prompts[n]) \in Nat /\ Len(r.prompts[n]) <= NCtx
         /\ \A m \in DOMAIN r.cands[n] :
               r.cands[n][m] # <<>> => Len(r.prompts[n]) + Len(r.cands[n][m]) - 1 <= NCtx
<1>1. r.cands[n] \in Seq(Seq(Token)) /\ Len(r.prompts[n]) \in Nat
  BY RequestParts
<1>2. \A c \in Range(r.cands[n]) \cup {<<>>} :
         Len(r.prompts[n]) + Max({Len(c) - 1, 0}) <= NCtx
  BY DEF WithinLimits
<1>3. ASSUME NEW c \in Seq(Token) PROVE Max({Len(c) - 1, 0}) \in Nat /\ Max({Len(c) - 1, 0}) >= Len(c) - 1
  <2>1. Len(c) \in Nat
    OBVIOUS
  <2>2. CASE Len(c) = 0
    <3>1. {Len(c) - 1, 0} = {0 - 1, 0}
      BY <2>2
    <3>2. Max({0 - 1, 0}) = 0
      BY DEF Max
    <3>. QED
      BY <2>2, <3>1, <3>2
  <2>3. CASE Len(c) # 0
    <3>1. PICK k : k = Len(c) - 1
      OBVIOUS
    <3>2. k \in Nat
      BY <2>1, <2>3, <3>1
    <3>3. PICK K : K = {k, 0}
      OBVIOUS
    <3>4. K \subseteq 0 .. k /\ k \in K /\ K # {}
      BY <3>2, <3>3
    <3>5. Max(K) \in K /\ Max(K) >= k
      BY <3>2, <3>4, MaxOfNaturals
    <3>6. {Len(c) - 1, 0} = K
      BY <3>1, <3>3
    <3>7. Max(K) \in Nat
      <4>1. \A x \in K : x \in Nat
        BY <3>2, <3>3
      <4>2. PICK x : x = Max(K)
        OBVIOUS
      <4>3. x \in K
        BY <3>5, <4>2
      <4>4. x \in Nat
        BY <4>1, <4>3
      <4>. QED
        BY <4>2, <4>4
    <3>. QED
      BY <3>1, <3>5, <3>6, <3>7, Zenon
  <2>. QED
    BY <2>1, <2>2, <2>3
<1>4. Len(r.prompts[n]) <= NCtx
  <2>1. <<>> \in Seq(Token)
    OBVIOUS
  <2>2. Max({Len(<<>>) - 1, 0}) \in Nat
    BY <1>3, <2>1
  <2>3. Len(r.prompts[n]) + Max({Len(<<>>) - 1, 0}) <= NCtx
    BY <1>2
  <2>4. NCtx \in Nat
    BY LimitAssumption
  <2>5. PICK a, b : a = Len(r.prompts[n]) /\ b = Max({Len(<<>>) - 1, 0})
    OBVIOUS
  <2>6. a \in Nat /\ b \in Nat /\ a + b <= NCtx
    BY <1>1, <2>2, <2>3, <2>5
  <2>7. a <= NCtx
    BY <2>4, <2>6
  <2>. QED
    BY <2>5, <2>7
<1>5. ASSUME NEW m \in DOMAIN r.cands[n], r.cands[n][m] # <<>>
      PROVE  Len(r.prompts[n]) + Len(r.cands[n][m]) - 1 <= NCtx
  <2>1. PICK c : c = r.cands[n][m]
    OBVIOUS
  <2>2. c \in Seq(Token) /\ c \in Range(r.cands[n]) /\ Len(c) \in Nat
    BY <1>1, <2>1 DEF Range
  <2>3. PICK b : b = Max({Len(c) - 1, 0})
    OBVIOUS
  <2>4. PICK a : a = Len(r.prompts[n])
    OBVIOUS
  <2>5. /\ a \in Nat /\ b \in Nat /\ b >= Len(c) - 1 /\ a + b <= NCtx /\ NCtx \in Nat
    BY <1>1, <1>2, <1>3, <2>2, <2>3, <2>4, LimitAssumption
  <2>6. a + Len(c) - 1 <= NCtx
    BY <2>2, <2>5
  <2>. QED
    BY <2>1, <2>4, <2>6
<1>. QED
  BY <1>1, <1>4, <1>5

LEMMA DecodeWindowRoom ==
  ASSUME EngineInv, NEW t \in Threads, DecodeWindow(t), RoomKept(t)
  PROVE  RoomKept(t)'
<1> DEFINE r == req[t]
<1>1. /\ owner = t /\ plan # {} /\ cells' = Decoded(cells, Window) /\ plan' = plan \ Window
      /\ UNCHANGED <<pc, req, round, readings>>
  BY DEF DecodeWindow
<1>2. PICK W, P, C : W = Window /\ P = plan /\ C = cells
  OBVIOUS
<1>3. W \subseteq P /\ IsFiniteSet(P) /\ IsFiniteSet(C)
  BY <1>2 DEF Window, First, EngineInv, RoomKept
<1>4. /\ IsFiniteSet(W) /\ Cardinality(P) \in Nat /\ Cardinality(W) \in Nat
      /\ Cardinality(P \ W) \in Nat /\ Cardinality(P) = Cardinality(P \ W) + Cardinality(W)
  BY <1>3, SizeWithout
<1>5. /\ IsFiniteSet(Decoded(C, W)) /\ Cardinality(C) \in Nat
      /\ Cardinality(Decoded(C, W)) \in Nat
      /\ Cardinality(Decoded(C, W)) <= Cardinality(C) + Cardinality(W)
  BY <1>3, <1>4, DecodedCells
<1>6. Full' = Cardinality(Decoded(C, W)) + Cardinality(P \ W) /\ Full = Cardinality(C) + Cardinality(P)
  BY <1>1, <1>2 DEF Full
<1>7. Full' \in Nat /\ Full \in Nat /\ Full' <= Full
  <2>1. PICK a, b, c, d, e : /\ a = Cardinality(Decoded(C, W)) /\ b = Cardinality(P \ W)
                             /\ c = Cardinality(C) /\ d = Cardinality(P) /\ e = Cardinality(W)
    OBVIOUS
  <2>2. /\ a \in Nat /\ b \in Nat /\ c \in Nat /\ d \in Nat /\ e \in Nat
        /\ a <= c + e /\ d = b + e
    BY <1>4, <1>5, <2>1
  <2>3. a + b \in Nat /\ c + d \in Nat /\ a + b <= c + d
    BY <2>2
  <2>. QED
    BY <1>6, <2>1, <2>3
<1>8. Question(r)' = Question(r)
  BY <1>1 DEF Question, Current, Unread
<1>9. ASSUME pc[t] = "probe" PROVE Kernel(Decoded(C, W)) = Kernel(C)
  <2>1. Holding(t) /\ IsRequest(r)
    BY <1>1, <1>9, InFork DEF Forked
  <2>2. round \in Seq(Probes(r, Current(r)))
    BY <1>9, <2>1 DEF Holding, RoundFits
  <2>3. DOMAIN round = 1 .. Len(round) /\ Len(round) \in Nat
    BY <2>2
  <2>4. \A a \in Aims(t) : \E k \in DOMAIN round : a.seq = k + 1
    BY <1>9 DEF Aims, Aim
  <2>5. ASSUME NEW e \in W PROVE e.seq # 0 /\ e.seq # 1
    <3>1. PICK a \in Aims(t) : a.seq = e.seq
      BY <1>2, <1>3, <2>1 DEF Holding, MemoryFits, Decoding
    <3>2. PICK k \in DOMAIN round : a.seq = k + 1
      BY <2>4
    <3>. QED
      BY <2>3, <3>1, <3>2
  <2>6. \A e \in W : 0 \notin CellOf(e).seqs /\ 1 \notin CellOf(e).seqs
    BY <2>5 DEF CellOf
  <2>. QED
    BY <2>6 DEF Kernel, Decoded
<1>10. IsFiniteSet(cells')
  BY <1>1, <1>2, <1>5
<1>11. plan' # {} => Full' <= NCtx
  <2>1. Full <= NCtx /\ NCtx \in Nat
    BY <1>1, LimitAssumption DEF RoomKept
  <2>. QED
    BY <1>7, <2>1
<1>12. pc[t] \in {"root", "probes"} => Full' <= Len(Question(r))
  <2>1. ASSUME pc[t] \in {"root", "probes"} PROVE Full' <= Len(Question(r))
    <3>1. Holding(t) /\ IsRequest(r)
      BY <1>1, <2>1, InFork DEF Forked
    <3>2. Question(r) \in Seq(Token)
      BY <2>1, <3>1, CurrentIs DEF Holding, RoundFits
    <3>3. Len(Question(r)) \in Nat
      BY <3>2
    <3>4. Full <= Len(Question(r))
      BY <2>1 DEF RoomKept
    <3>. QED
      BY <1>7, <3>3, <3>4
  <2>. QED
    BY <2>1
<1>13. pc[t] = "probe" => Cardinality(Kernel(cells')) <= Len(Question(r))
  BY <1>1, <1>2, <1>9 DEF RoomKept
<1>. QED
  BY <1>1, <1>8, <1>10, <1>11, <1>12, <1>13 DEF RoomKept

LEMMA BeginScoreRoom ==
  ASSUME EngineInv, NEW t \in Threads, BeginScore(t)
  PROVE  RoomKept(t)'
<1> DEFINE r == req[t]
<1>1. /\ pc[t] = "lock" /\ owner = None /\ pc' = [pc EXCEPT ![t] = "prefill"]
      /\ plan' = Chunk(SubSeq(Session(r), start' + 1, Len(Session(r))), start', 0, NoSlot)
  BY DEF BeginScore, Goto
<1>2. pc'[t] = "prefill" /\ IsRequest(r) /\ ~HasEmptyPrompt(r) /\ WithinLimits(r)
  BY <1>1, InCall DEF EngineInv, TypeOK, CallFits, Limited
<1>3. PICK q, from, C, todo : /\ q = Session(r) /\ from = start' /\ C = cells' /\ todo = plan'
  OBVIOUS
<1>4. /\ q \in Seq(Token) /\ from \in 0 .. Len(q) /\ C \subseteq Cells
      /\ Holds(C, 0) = Placed(SubSeq(q, 1, from)) /\ \A k \in 1 .. Forks : Holds(C, k) = {}
  BY <1>3, BeginScoreCuts
<1>5. SubSeq(q, 1, from) \in Seq(Token) /\ Len(SubSeq(q, 1, from)) = from
  BY <1>4
<1>6. IsFiniteSet(C) /\ Cardinality(C) = from
  <2>1. PICK p : p = SubSeq(q, 1, from)
    OBVIOUS
  <2>2. p \in Seq(Token) /\ Len(p) = from /\ Holds(C, 0) = Placed(p)
    BY <1>4, <1>5, <2>1
  <2>. QED
    BY <1>4, <2>2, SessionCells
<1>7. Cardinality(todo) = Len(q) - from /\ Len(q) \in Nat
  BY <1>1, <1>3, <1>4, RestSize
<1>8. Len(q) <= NCtx
  <2>1. 1 \in DOMAIN r.prompts
    BY <1>2, RequestParts
  <2>2. Shared(r) \in Nat /\ Len(q) = Shared(r) /\ Shared(r) < Len(r.prompts[1])
    BY <1>2, <1>3, <2>1, SessionShared
  <2>3. Len(r.prompts[1]) \in Nat /\ Len(r.prompts[1]) <= NCtx
    BY <1>2, <2>1, PromptFits
  <2>4. NCtx \in Nat
    BY LimitAssumption
  <2>. QED
    BY <2>2, <2>3, <2>4
<1>9. Cardinality(C) + Cardinality(todo) <= NCtx
  BY <1>4, <1>6, <1>7, <1>8
<1>. QED
  BY <1>2, <1>3, <1>6, <1>9 DEF RoomKept, Full

LEMMA EndPrefillRoom ==
  ASSUME EngineInv, NEW t \in Threads, EndPrefill(t), RoomKept(t)
  PROVE  RoomKept(t)'
<1>1. /\ plan = {} /\ pc' = [pc EXCEPT ![t] = "rounds"] /\ UNCHANGED <<cells, plan>>
  BY DEF EndPrefill, At, Goto, frame
<1>2. pc'[t] = "rounds"
  BY <1>1 DEF EngineInv, TypeOK
<1>. QED
  BY <1>1, <1>2 DEF RoomKept

LEMMA StartRootRoom ==
  ASSUME EngineInv, NEW t \in Threads, StartRoot(t)
  PROVE  RoomKept(t)'
<1> DEFINE r == req[t]
           n == Current(r)
<1>1. /\ At(t, "rounds") /\ Unread(r) # {}
      /\ cells' = SeqCp(cells, 0, {1})
      /\ plan' = Chunk(Suffix(r, n), Shared(r), 1, 1)
      /\ pc' = [pc EXCEPT ![t] = "root"]
      /\ UNCHANGED <<req, readings>>
  BY DEF StartRoot, Goto
<1>2. /\ IsRequest(r) /\ ~HasEmptyPrompt(r) /\ WithinLimits(r) /\ TypeOK
      /\ IsFiniteSet(cells) /\ Cardinality(cells) = Shared(r) /\ Shared(r) \in Nat
  BY <1>1, AtRounds
<1>3. pc'[t] = "root" /\ n \in DOMAIN r.prompts
  BY <1>1, <1>2, CurrentIs DEF TypeOK
<1>4. PICK C, h, p, todo : C = cells /\ h = Shared(r) /\ p = Question(r) /\ todo = plan'
  OBVIOUS
<1>5. p \in Seq(Token) /\ h \in 0 .. Len(p) /\ Len(p) \in Nat /\ Len(p) <= NCtx /\ h \in Nat
  <2>1. h < Len(p) /\ h \in Nat
    BY <1>2, <1>3, <1>4, SessionShared DEF Question
  <2>2. p \in Seq(Token) /\ Len(p) \in Nat /\ Len(p) <= NCtx
    BY <1>2, <1>3, <1>4, RequestParts, PromptFits DEF Question
  <2>. QED
    BY <2>1, <2>2
<1>6. Cardinality(todo) = Len(p) - h
  <2>1. todo = Chunk(SubSeq(p, h + 1, Len(p)), h, 1, 1)
    BY <1>1, <1>4 DEF Suffix, Question
  <2>. QED
    BY <1>5, <2>1, RestSize
<1>7. /\ IsFiniteSet(SeqCp(C, 0, {1})) /\ Cardinality(SeqCp(C, 0, {1})) \in Nat
      /\ Cardinality(SeqCp(C, 0, {1})) <= h
  BY <1>2, <1>4, SeqCpCells
<1>8. Cardinality(SeqCp(C, 0, {1})) + Cardinality(todo) <= Len(p)
  BY <1>5, <1>6, <1>7
<1>9. IsFiniteSet(cells') /\ Full' <= Len(p)
  BY <1>1, <1>4, <1>7, <1>8 DEF Full
<1>10. Full' <= NCtx
  <2>1. PICK c, d : c = Cardinality(SeqCp(C, 0, {1})) /\ d = Cardinality(todo)
    OBVIOUS
  <2>2. c \in Nat /\ d \in Int /\ c + d <= Len(p) /\ Len(p) \in Nat /\ Len(p) <= NCtx /\ NCtx \in Nat
    BY <1>5, <1>6, <1>7, <1>8, <2>1, LimitAssumption
  <2>3. c + d <= NCtx
    BY <2>2
  <2>. QED
    BY <1>1, <1>4, <2>1, <2>3 DEF Full
<1>11. Question(r)' = p
  BY <1>1, <1>4 DEF Question, Current, Unread
<1>. QED
  BY <1>1, <1>3, <1>9, <1>10, <1>11 DEF RoomKept

LEMMA EndRootRoom ==
  ASSUME EngineInv, NEW t \in Threads, EndRoot(t), RoomKept(t), owner' = t
  PROVE  RoomKept(t)'
<1> DEFINE r == req[t]
<1>1. owner = t /\ pc[t] = "root" /\ plan = {} /\ t # None
  BY EngineAssumption DEF EndRoot, At
<1>2. ~NeedsMoreForks(r)
  BY <1>1 DEF EndRoot, Return, LetGo
<1>3. pc' = [pc EXCEPT ![t] = "probes"] /\ UNCHANGED <<cells, plan, req, readings>>
  BY <1>2 DEF EndRoot, Goto
<1>4. pc'[t] = "probes"
  BY <1>3 DEF EngineInv, TypeOK
<1>5. Question(r)' = Question(r) /\ Full' = Full
  BY <1>3 DEF Question, Current, Unread, Full
<1>. QED
  BY <1>1, <1>3, <1>4, <1>5 DEF RoomKept

LEMMA StartRoundRoom ==
  ASSUME EngineInv, NEW t \in Threads, StartRound(t), owner' = t
  PROVE  RoomKept(t)'
<1> DEFINE r == req[t]
<1>1. At(t, "rounds") /\ next <= Len(Single(r))
  BY DEF StartRound
<1>2. PICK n, from, A : /\ n = RoundSize(r, next) /\ from = next /\ A = from .. from + n - 1
  OBVIOUS
<1>3. /\ n \in Nat /\ from \in Nat \ {0} /\ cells' = SeqCp(cells, 0, 1 .. n) /\ pc'[t] = "round"
      /\ \A k \in 1 .. n : /\ round'[k] = Single(r)[from + k - 1]
                           /\ SuffixLens(r, round')[k] \in Nat
      /\ DOMAIN round' = 1 .. n
      /\ Cardinality(plan') = SumFunctionOnSet(SuffixLens(r, round'), 1 .. n)
  BY <1>2, RoundPlan
<1>4. Shared(r) + SumFunctionOnSet(Tails(r, A), A) <= NCtx
  BY <1>1, <1>2, HasRoom
<1>5. PICK S, size, tails : /\ S = 1 .. n /\ size = SuffixLens(r, round') /\ tails = Tails(r, A)
  OBVIOUS
<1>6. IsFiniteSet(S) /\ NatOn(size, S)
  <2>1. IsFiniteSet(1 .. n)
    BY <1>3, UpToFinite
  <2>. QED
    BY <1>3, <1>5, <2>1 DEF NatOn
<1>7. SumFunctionOnSet(size, S) = SumFunctionOnSet(tails, A)
  <2>1. PICK b : b = [k \in S |-> from + k - 1]
    OBVIOUS
  <2>2. /\ \A k \in S : b[k] = from + k - 1 /\ b[k] \in A
        /\ \A j, k \in S : b[j] = b[k] => j = k
        /\ \A i \in A : i - from + 1 \in S /\ b[i - from + 1] = i
    BY <1>2, <1>3, <1>5, <2>1
  <2>3. b \in Bijection(S, A)
    <3>1. b \in [S -> A]
      BY <2>1, <2>2
    <3>2. \A i \in A : \E k \in S : b[k] = i
      BY <2>2
    <3>. QED
      BY <2>2, <3>1, <3>2 DEF Bijection, Injection, Surjection, IsInjective
  <2>4. \A k \in S : size[k] = tails[b[k]]
    <3>1. ASSUME NEW k \in S PROVE size[k] = tails[b[k]]
      <4>1. size[k] = SuffixLen(r, round'[k])
        BY <1>3, <1>5 DEF SuffixLens
      <4>2. tails[b[k]] = SuffixLen(r, Single(r)[b[k]])
        BY <1>5, <2>2 DEF Tails
      <4>3. Single(r)[b[k]] = round'[k]
        BY <1>3, <1>5, <2>2
      <4>. QED
        BY <4>1, <4>2, <4>3
    <3>. QED
      BY <3>1
  <2>. QED
    BY <1>6, <2>3, <2>4, SumMoved
<1>8. IsFiniteSet(cells) /\ Cardinality(cells) = Shared(r) /\ Shared(r) \in Nat
  BY <1>1, AtRounds
<1>9. PICK C : C = cells
  OBVIOUS
<1>10. /\ IsFiniteSet(SeqCp(C, 0, 1 .. n)) /\ Cardinality(SeqCp(C, 0, 1 .. n)) \in Nat
       /\ Cardinality(SeqCp(C, 0, 1 .. n)) <= Shared(r)
  <2>1. PICK T : T = 1 .. n
    OBVIOUS
  <2>2. IsFiniteSet(C) /\ Cardinality(C) = Shared(r)
    BY <1>8, <1>9
  <2>3. /\ IsFiniteSet(SeqCp(C, 0, T)) /\ Cardinality(SeqCp(C, 0, T)) \in Nat
        /\ Cardinality(SeqCp(C, 0, T)) <= Cardinality(C)
    BY <2>2, SeqCpCells
  <2>. QED
    BY <2>1, <2>2, <2>3
<1>11. Cardinality(SeqCp(C, 0, 1 .. n)) + SumFunctionOnSet(size, S) <= NCtx
  <2>1. PICK a, c, h : /\ a = SumFunctionOnSet(size, S) /\ c = Cardinality(SeqCp(C, 0, 1 .. n))
                       /\ h = Shared(r)
    OBVIOUS
  <2>2. a \in Nat
    BY <1>6, <2>1, SumType
  <2>3. c \in Nat /\ h \in Nat /\ c <= h /\ h + a <= NCtx /\ NCtx \in Nat
    BY <1>4, <1>5, <1>7, <1>8, <1>10, <2>1, LimitAssumption
  <2>4. c + a <= NCtx
    BY <2>2, <2>3
  <2>. QED
    BY <2>1, <2>4
<1>12. IsFiniteSet(cells') /\ Full' <= NCtx
  BY <1>3, <1>5, <1>9, <1>10, <1>11 DEF Full
<1>. QED
  BY <1>3, <1>12 DEF RoomKept

\* A round or a trie was read: its forks go.
LEMMA EndRoundRoom ==
  ASSUME EngineInv, NEW t \in Threads, EndRound(t) \/ EndTrie(t), RoomKept(t)
  PROVE  RoomKept(t)'
<1>1. /\ owner = t /\ pc' = [pc EXCEPT ![t] = "rounds"] /\ plan' = {}
      /\ \E seqs : cells' = SeqRm(cells, seqs, 1)
  <2>1. CASE EndRound(t)
    BY <2>1 DEF EndRound, At, Goto
  <2>2. CASE EndTrie(t)
    <3>1. owner = t /\ pc[t] = "probes"
      BY <2>2 DEF EndTrie, At
    <3>. QED
      BY <2>2, <3>1, BetweenDecodes DEF EndTrie, Goto
  <2>. QED
    BY <2>1, <2>2
<1>2. pc'[t] = "rounds"
  BY <1>1 DEF EngineInv, TypeOK
<1>3. PICK C : C = cells
  OBVIOUS
<1>4. PICK seqs : cells' = SeqRm(C, seqs, 1)
  BY <1>1, <1>3
<1>5. IsFiniteSet(C)
  BY <1>3 DEF RoomKept
<1>6. IsFiniteSet(SeqRm(C, seqs, 1))
  BY <1>5, SeqRmCells
<1>. QED
  BY <1>1, <1>2, <1>4, <1>6 DEF RoomKept

LEMMA StartProbesRoom ==
  ASSUME EngineInv, NEW t \in Threads, StartProbes(t), RoomKept(t), TriesFit(req[t])
  PROVE  RoomKept(t)'
<1> DEFINE r == req[t]
<1>1. PICK n, ps : n = Len(round') /\ ps = round'
  OBVIOUS
<1>2. /\ owner = t /\ pc[t] = "probes" /\ plan = {} /\ pc'[t] = "probe"
      /\ UNCHANGED <<req, readings>>
      /\ IsRequest(r) /\ Unread(r) # {} /\ cells' = SeqCp(cells, 1, 2 .. n + 1)
      /\ n \in Nat /\ n < Forks /\ ps = [k \in 1 .. n |-> ps[k]]
      /\ \A k \in 1 .. n : ps[k] \in Seq(Token) /\ ps[k] \in ProbesLeft(r)
      /\ \A j, k \in 1 .. n : ps[j] = ps[k] => j = k
      /\ DOMAIN ps = 1 .. n
      /\ Cardinality(plan') = SumFunctionOnSet(Lengths(ps), 1 .. n)
      /\ SumFunctionOnSet(Lengths(ps), 1 .. n) \in Nat
  BY <1>1, ProbesPlan
<1>3. PICK B, S : B = Values(ps, n) /\ S = 1 .. n
  OBVIOUS
<1>4. ps \in Bijection(S, B) /\ IsFiniteSet(S) /\ Cardinality(S) = n
  <2>1. ps \in [S -> B]
    BY <1>2, <1>3 DEF Values
  <2>2. IsFiniteSet(1 .. n) /\ Cardinality(1 .. n) = n
    BY <1>2, UpToFinite
  <2>. QED
    BY <1>2, <1>3, <2>1, <2>2 DEF Bijection, Injection, Surjection, IsInjective, Values
<1>5. IsFiniteSet(B) /\ Cardinality(B) = n
  BY <1>4, FS_Bijection DEF ExistsBijection
<1>6. PICK p, deep : p = Question(r) /\ deep = [q \in B |-> Len(q)]
  OBVIOUS
<1>7. p \in Seq(Token) /\ Len(p) \in Nat /\ Current(r) \in DOMAIN r.prompts
  BY <1>2, <1>6, CurrentIs
<1>8. SumFunctionOnSet(Lengths(ps), S) = SumFunctionOnSet(deep, B)
  <2>1. PICK size : size = Lengths(ps)
    OBVIOUS
  <2>2. \A k \in S : size[k] \in Nat /\ size[k] = deep[ps[k]]
    <3>1. ASSUME NEW k \in S PROVE size[k] \in Nat /\ size[k] = deep[ps[k]]
      <4>1. size[k] = Len(ps[k]) /\ ps[k] \in Seq(Token) /\ ps[k] \in B
        BY <1>2, <1>3, <2>1 DEF Lengths, Values
      <4>. QED
        BY <1>6, <4>1
    <3>. QED
      BY <3>1
  <2>3. NatOn(size, S)
    BY <2>2 DEF NatOn
  <2>. QED
    BY <1>4, <2>1, <2>2, <2>3, SumMoved
<1>9. Len(p) + SumFunctionOnSet(deep, B) <= NCtx
  <2>1. B \in SUBSET Probes(r, Current(r))
    BY <1>2, <1>3 DEF Values, ProbesLeft
  <2>2. Cardinality(B) < Forks
    BY <1>2, <1>5
  <2>3. Len(r.prompts[Current(r)]) + SumFunction([q \in B |-> Len(q)]) <= NCtx
    BY <1>7, <2>1, <2>2 DEF TriesFit
  <2>4. SumFunction(deep) = SumFunctionOnSet(deep, B)
    <3>1. DOMAIN deep = B
      BY <1>6
    <3>. QED
      BY <3>1, Zenon DEF SumFunction
  <2>. QED
    BY <1>6, <2>3, <2>4 DEF Question
<1>10. PICK C, D : C = cells /\ D = 2 .. n + 1
  OBVIOUS
<1>11. IsFiniteSet(C) /\ Cardinality(C) \in Nat /\ Cardinality(C) <= Len(p)
  <2>1. IsFiniteSet(C) /\ Full <= Len(p)
    BY <1>2, <1>6, <1>10 DEF RoomKept
  <2>2. Cardinality(C) \in Nat /\ Cardinality({}) = 0
    BY <2>1, FS_CardinalityType, FS_EmptySet
  <2>3. Full = Cardinality(C) + 0
    BY <1>2, <1>10, <2>2 DEF Full
  <2>. QED
    BY <2>1, <2>2, <2>3
<1>12. /\ IsFiniteSet(SeqCp(C, 1, D)) /\ Cardinality(SeqCp(C, 1, D)) \in Nat
       /\ Cardinality(SeqCp(C, 1, D)) <= Len(p)
  <2>1. /\ IsFiniteSet(SeqCp(C, 1, D)) /\ Cardinality(SeqCp(C, 1, D)) \in Nat
        /\ Cardinality(SeqCp(C, 1, D)) <= Cardinality(C)
    BY <1>11, SeqCpCells
  <2>. QED
    BY <1>7, <1>11, <2>1
<1>13. cells' = SeqCp(C, 1, D) /\ Question(r)' = p
  BY <1>2, <1>6, <1>10 DEF Question, Current, Unread
<1>14. IsFiniteSet(cells') /\ Full' <= NCtx
  <2>1. PICK c, d : c = Cardinality(SeqCp(C, 1, D)) /\ d = SumFunctionOnSet(deep, B)
    OBVIOUS
  <2>2. /\ c \in Nat /\ d \in Nat /\ c <= Len(p) /\ Len(p) + d <= NCtx /\ Len(p) \in Nat
        /\ NCtx \in Nat
    BY <1>2, <1>3, <1>7, <1>8, <1>9, <1>12, <2>1, LimitAssumption
  <2>3. c + d <= NCtx
    BY <2>2
  <2>4. Full' = c + d
    BY <1>2, <1>3, <1>8, <1>13, <2>1 DEF Full
  <2>. QED
    BY <1>12, <1>13, <2>3, <2>4
<1>15. Cardinality(Kernel(cells')) <= Len(p)
  <2>1. PICK K, E : K = Kernel(cells') /\ E = cells'
    OBVIOUS
  <2>2. K \subseteq E /\ IsFiniteSet(E) /\ Cardinality(E) <= Len(p)
    BY <1>12, <1>13, <2>1 DEF Kernel
  <2>3. Cardinality(K) <= Cardinality(E) /\ Cardinality(K) \in Nat /\ Cardinality(E) \in Nat
    BY <2>2, FS_Subset, FS_CardinalityType
  <2>. QED
    BY <1>7, <2>1, <2>2, <2>3
<1>. QED
  BY <1>2, <1>13, <1>14, <1>15 DEF RoomKept

LEMMA EndProbesRoom ==
  ASSUME EngineInv, NEW t \in Threads, EndProbes(t), RoomKept(t)
  PROVE  RoomKept(t)'
<1> DEFINE r == req[t]
<1>1. /\ owner = t /\ pc[t] = "probe" /\ pc[t] \in Forked /\ plan = {}
      /\ cells' = SeqRm(cells, ProbeSeqs, 1)
      /\ pc' = [pc EXCEPT ![t] = "probes"] /\ UNCHANGED <<plan, req, readings>>
  BY DEF EndProbes, At, Goto, Forked
<1>2. /\ IsRequest(r) /\ Holding(t) /\ TypeOK /\ pc'[t] = "probes" /\ cells \in SUBSET Cells
      /\ \A s \in (1 .. Forks) \ InUse(t) : Holds(cells, s) = {}
  BY <1>1, InFork DEF TypeOK
<1>3. PICK C, seqs : C = cells /\ seqs = ProbeSeqs
  OBVIOUS
<1>4. 0 \notin seqs /\ 1 \notin seqs
  BY <1>3 DEF ProbeSeqs
<1>5. \A s \in 2 .. Forks : Holds(SeqRm(C, seqs, 1), s) = {}
  <2>1. /\ \A s \in seqs : Holds(SeqRm(C, seqs, 1), s) = {}
        /\ \A s : s \notin seqs => Holds(SeqRm(C, seqs, 1), s) = Holds(C, s)
    BY <1>2, <1>3, SeqRmAll
  <2>2. InUse(t) = {1} \cup seqs
    BY <1>1, <1>3 DEF InUse
  <2>3. \A s \in 2 .. Forks : s \in seqs \/ s \in (1 .. Forks) \ InUse(t)
    BY <2>2
  <2>. QED
    BY <1>2, <1>3, <2>1, <2>3
<1>6. IsFiniteSet(C) /\ Cardinality(Kernel(C)) <= Len(Question(r))
  BY <1>1, <1>3 DEF RoomKept
<1>7. C \in SUBSET Cells
  BY <1>2, <1>3
<1>8. /\ IsFiniteSet(SeqRm(C, seqs, 1)) /\ Cardinality(Kernel(C)) \in Nat
      /\ Cardinality(SeqRm(C, seqs, 1)) \in Nat
      /\ Cardinality(SeqRm(C, seqs, 1)) <= Cardinality(Kernel(C))
  BY <1>4, <1>5, <1>6, <1>7, KernelCut
<1>9. Len(Question(r)) \in Nat /\ Question(r)' = Question(r)
  <2>1. Question(r) \in Seq(Token)
    BY <1>1, <1>2, CurrentIs DEF Holding, RoundFits
  <2>. QED
    BY <1>1, <2>1 DEF Question, Current, Unread
<1>10. Full' <= Len(Question(r))
  <2>1. PICK c, k, l : /\ c = Cardinality(SeqRm(C, seqs, 1)) /\ k = Cardinality(Kernel(C))
                       /\ l = Len(Question(r))
    OBVIOUS
  <2>2. c \in Nat /\ k \in Nat /\ l \in Nat /\ c <= k /\ k <= l
    BY <1>6, <1>8, <1>9, <2>1
  <2>3. Full' = c + 0
    <3>1. Cardinality({}) = 0
      BY FS_EmptySet
    <3>. QED
      BY <1>1, <1>3, <2>1, <3>1 DEF Full
  <2>. QED
    BY <2>1, <2>2, <2>3
<1>. QED
  BY <1>1, <1>2, <1>3, <1>8, <1>9, <1>10 DEF RoomKept

\* From an empty cache, a plan as long as its tokens.
LEMMA FromEmpty ==
  ASSUME NEW t \in Threads, NEW q \in Seq(Token), Len(q) <= NCtx, NEW slot,
         cells' = {}, plan' = Chunk(q, 0, 0, slot),
         pc'[t] \notin {"root", "probes", "probe"}
  PROVE  RoomKept(t)'
<1>1. IsFiniteSet({}) /\ Cardinality({}) = 0
  BY FS_EmptySet
<1>2. Cardinality(plan') = Len(q)
  BY ChunkSize
<1>3. Full' <= NCtx
  <2>1. PICK c, l : c = Cardinality(plan') /\ l = Len(q)
    OBVIOUS
  <2>2. l \in Nat /\ c = l /\ l <= NCtx
    BY <1>2, <2>1
  <2>3. 0 + c <= NCtx
    BY <2>2
  <2>. QED
    BY <1>1, <2>1, <2>3 DEF Full
<1>. QED
  BY <1>1, <1>3 DEF RoomKept

LEMMA BeginControlRoom ==
  ASSUME EngineInv, NEW t \in Threads, BeginControl(t), owner' = t, WithinLimits(req[t])
  PROVE  RoomKept(t)'
<1> DEFINE r == req[t]
<1>1. pc[t] = "control" /\ owner = None /\ t # None
  BY EngineAssumption DEF BeginControl
<1>2. IsRequest(r) /\ TypeOK
  BY <1>1, Entering
<1>3. ~Tokenless(r)
  BY <1>1, ReturnsFree DEF BeginControl
<1>4. cells' = {} /\ plan' = Whole(r) /\ pc' = [pc EXCEPT ![t] = "whole"]
  BY <1>3 DEF BeginControl, Goto
<1>5. pc'[t] = "whole" /\ plan' = Chunk(r.prompts[1], 0, 0, 1)
  BY <1>2, <1>4 DEF TypeOK, Whole
<1>6. r.prompts[1] \in Seq(Token) /\ Len(r.prompts[1]) <= NCtx
  BY <1>2, RequestParts, PromptFits
<1>. QED
  BY <1>4, <1>5, <1>6, FromEmpty

LEMMA EndWholeRoom ==
  ASSUME EngineInv, NEW t \in Threads, EndWhole(t), owner' = t, WithinLimits(req[t])
  PROVE  RoomKept(t)'
<1> DEFINE r == req[t]
           labs == r.cands[1]
           last == OneToken(r, 1) \/ (next = Len(labs) /\ depth + 1 = Len(Label(r)))
<1>1. owner = t /\ pc[t] = "whole" /\ plan = {} /\ t # None
  BY EngineAssumption DEF EndWhole, At
<1>2. Holding(t) /\ CallFits(t) /\ IsRequest(r) /\ TypeOK
  BY <1>1, InCall DEF EngineInv
<1>3. PICK p, label, d : p = r.prompts[1] /\ label = Label(r) /\ d = depth
  OBVIOUS
<1>4. /\ p \in Seq(Token) /\ labs \in Seq(Seq(Token)) /\ DOMAIN labs = 1 .. Len(labs)
      /\ 1 \in DOMAIN r.prompts /\ Len(p) <= NCtx /\ Len(p) \in Nat
      /\ \A m \in DOMAIN labs : labs[m] # <<>> => Len(p) + Len(labs[m]) - 1 <= NCtx
  BY <1>2, <1>3, RequestParts, PromptFits
<1>5. next \in DOMAIN labs /\ d < Len(label) /\ d \in Nat /\ label = labs[next]
  BY <1>1, <1>2, <1>3 DEF Holding, ControlFits, Label, TypeOK
<1>6. label \in Seq(Token) /\ Len(label) \in Nat
  <2>1. label \in Seq(Token)
    <3>1. PICK ls, i : ls = labs /\ i = next
      OBVIOUS
    <3>2. ls \in Seq(Seq(Token)) /\ i \in DOMAIN ls /\ label = ls[i]
      BY <1>4, <1>5, <3>1
    <3>. QED
      BY <3>2
  <2>. QED
    BY <2>1
<1>7. ~last
  <2>1. ASSUME last PROVE FALSE
    <3>1. \E a : Return(t, a)
      BY <2>1 DEF EndWhole, Label
    <3>. QED
      BY <1>1, <3>1, ReturnsFree
  <2>. QED
    BY <2>1
<1>8. /\ pc' = pc
      /\ IF d + 1 < Len(label)
         THEN /\ plan' = Chunk(<<label[d + 1]>>, Len(p) + d, 0, 1)
              /\ cells' = cells
         ELSE /\ plan' = Chunk(p, 0, 0, 1) /\ cells' = {}
  BY <1>3, <1>7 DEF EndWhole, Label, Whole
<1>9. pc'[t] = "whole"
  BY <1>1, <1>8
<1>10. CASE d + 1 < Len(label)
  <2>1. plan' = Chunk(<<label[d + 1]>>, Len(p) + d, 0, 1) /\ cells' = cells
    BY <1>8, <1>10
  <2>2. PICK q : q = p \o SubSeq(label, 1, d)
    OBVIOUS
  <2>3. q \in Seq(Token) /\ Len(q) = Len(p) + d
    <3>1. SubSeq(label, 1, d) \in Seq(Token) /\ Len(SubSeq(label, 1, d)) = d
      BY <1>5, <1>6
    <3>. QED
      BY <1>4, <2>2, <3>1
  <2>4. Holds(cells, 0) = Placed(q)
    BY <1>1, <1>3, <2>2, WholeRead
  <2>5. InUse(t) = {}
    BY <1>1 DEF InUse
  <2>6. IsFiniteSet(cells) /\ Cardinality(cells) = Len(q)
    BY <1>1, <2>3, <2>4, <2>5, HoldsAlone
  <2>7. PICK one, at : one = <<label[d + 1]>> /\ at = Len(p) + d
    OBVIOUS
  <2>8. one \in Seq(Token) /\ Len(one) = 1 /\ at \in Nat
    <3>1. label[d + 1] \in Token
      BY <1>5, <1>6, <1>10
    <3>. QED
      BY <1>4, <1>5, <2>7, <3>1
  <2>9. Cardinality(plan') = 1
    <3>1. Cardinality(Chunk(one, at, 0, 1)) = 1
      BY <2>8, ChunkSize
    <3>. QED
      BY <2>1, <2>7, <3>1
  <2>10. Len(p) + d + 1 <= NCtx
    <3>1. label # <<>>
      BY <1>5, <1>6
    <3>2. Len(p) + Len(label) - 1 <= NCtx /\ NCtx \in Nat
      BY <1>4, <1>5, <3>1, LimitAssumption
    <3>3. PICK l, k : l = Len(label) /\ k = Len(p)
      OBVIOUS
    <3>4. /\ l \in Nat /\ k \in Nat /\ d \in Nat /\ d + 1 < l /\ k + l - 1 <= NCtx
          /\ NCtx \in Nat
      BY <1>4, <1>5, <1>6, <1>10, <3>2, <3>3
    <3>5. k + d + 1 <= NCtx
      BY <3>4
    <3>. QED
      BY <3>3, <3>5
  <2>11. Full' <= NCtx
    BY <2>1, <2>3, <2>6, <2>9, <2>10 DEF Full
  <2>. QED
    BY <1>9, <2>1, <2>6, <2>11 DEF RoomKept
<1>11. CASE ~ (d + 1 < Len(label))
  <2>1. plan' = Chunk(p, 0, 0, 1) /\ cells' = {}
    BY <1>8, <1>11
  <2>. QED
    BY <1>4, <1>9, <2>1, FromEmpty
<1>. QED
  BY <1>10, <1>11

LEMMA BeginSplitRoom ==
  ASSUME EngineInv, NEW t \in Threads, BeginSplit(t), EngineInv', owner' = t,
         WithinLimits(req[t])
  PROVE  RoomKept(t)'
<1> DEFINE r == req[t]
<1>1. pc[t] = "split" /\ owner = None /\ t # None
  BY EngineAssumption DEF BeginSplit
<1>2. IsRequest(r) /\ TypeOK
  BY <1>1, Entering
<1>3. OneToken(r, 1)
  BY <1>1, ReturnsFree DEF BeginSplit
<1>4. PICK p : p = r.prompts[1]
  OBVIOUS
<1>5. /\ cells' = {} /\ pc' = [pc EXCEPT ![t] = "head"] /\ req' = req
      /\ plan' = Chunk(SubSeq(p, 1, start'), 0, 0, NoSlot)
  BY <1>3, <1>4 DEF BeginSplit, Goto
<1>6. pc'[t] = "head"
  BY <1>2, <1>5 DEF TypeOK
<1>7. p \in Seq(Token) /\ Len(p) \in Nat /\ Len(p) <= NCtx
  BY <1>2, <1>4, RequestParts, PromptFits
<1>8. PICK at : at = start'
  OBVIOUS
<1>9. at \in Nat /\ at < Len(p)
  <2>1. RoundFits(t)' /\ TypeOK'
    BY DEF EngineInv, Holding
  <2>. QED
    BY <1>4, <1>5, <1>6, <1>8, <2>1 DEF RoundFits, Cut, TypeOK
<1>10. PICK q : q = SubSeq(p, 1, at)
  OBVIOUS
<1>11. q \in Seq(Token) /\ Len(q) = at /\ at <= NCtx
  <2>1. NCtx \in Nat
    BY LimitAssumption
  <2>. QED
    BY <1>7, <1>9, <1>10, <2>1
<1>12. plan' = Chunk(q, 0, 0, NoSlot)
  BY <1>5, <1>8, <1>10
<1>. QED
  BY <1>5, <1>6, <1>11, <1>12, FromEmpty

LEMMA EndHeadRoom ==
  ASSUME EngineInv, NEW t \in Threads, EndHead(t), WithinLimits(req[t])
  PROVE  RoomKept(t)'
<1> DEFINE r == req[t]
<1>1. PICK p, at : p = r.prompts[1] /\ at = start
  OBVIOUS
<1>2. /\ owner = t /\ pc[t] = "head" /\ plan = {} /\ cells' = cells
      /\ plan' = Chunk(SubSeq(p, at + 1, Len(p)), at, 0, 1)
      /\ pc' = [pc EXCEPT ![t] = "tail"]
  BY <1>1 DEF EndHead, At, Goto, inner
<1>3. Holding(t) /\ IsRequest(r) /\ TypeOK /\ pc'[t] = "tail"
  BY <1>2, InCall DEF EngineInv, TypeOK
<1>4. p \in Seq(Token) /\ Len(p) \in Nat /\ at \in Nat /\ at < Len(p) /\ Len(p) <= NCtx
  BY <1>1, <1>2, <1>3, RequestParts, PromptFits DEF Holding, RoundFits, Cut, TypeOK
<1>5. PICK q : q = SubSeq(p, 1, at)
  OBVIOUS
<1>6. q \in Seq(Token) /\ Len(q) = at
  BY <1>4, <1>5
<1>7. Holds(cells, 0) = Placed(q)
  <2>1. PICK head : head = Aim(0, q, NoSlot)
    OBVIOUS
  <2>2. head.seq = 0 /\ head.toks = q
    BY <2>1 DEF Aim
  <2>3. Aims(t) = {head}
    BY <1>1, <1>2, <1>5, <2>1 DEF Aims
  <2>4. Decoding({head}, cells, {}, rows)
    BY <1>2, <1>3, <2>3 DEF Holding, MemoryFits
  <2>5. Holds(cells, head.seq) = Placed(head.toks)
    BY <2>4, Ends
  <2>. QED
    BY <2>2, <2>5
<1>8. InUse(t) = {}
  BY <1>2 DEF InUse
<1>9. IsFiniteSet(cells) /\ Cardinality(cells) = at
  BY <1>2, <1>6, <1>7, <1>8, HoldsAlone
<1>10. Cardinality(plan') = Len(p) - at
  <2>1. at \in 0 .. Len(p)
    BY <1>4
  <2>2. PICK todo : todo = plan'
    OBVIOUS
  <2>3. Cardinality(todo) = Len(p) - at
    BY <1>2, <1>4, <2>1, <2>2, RestSize
  <2>. QED
    BY <2>2, <2>3
<1>11. Full' <= NCtx
  <2>1. PICK c, k : c = Cardinality(cells) /\ k = Cardinality(plan')
    OBVIOUS
  <2>2. c + k <= NCtx
    BY <1>4, <1>9, <1>10, <2>1
  <2>. QED
    BY <1>2, <2>1, <2>2 DEF Full
<1>. QED
  BY <1>2, <1>3, <1>9, <1>11 DEF RoomKept

\* Other threads' steps outside the mutex change none of it.
LEMMA RoomOutside ==
  ASSUME NEW t, RoomKept(t), pc'[t] = pc[t], req'[t] = req[t], UNCHANGED <<cells, frame>>
  PROVE  RoomKept(t)'
<1>1. Question(req[t])' = Question(req[t]) /\ Full' = Full
  BY DEF Question, Current, Unread, Full, frame
<1>. QED
  BY <1>1 DEF RoomKept, frame

\* What is asked of the requests: a fingerprint's tries fit, and a trial
\* reading is within the limits, as those of the polygraph are that were read
\* by a fork first.
Narrow ==
    \A r \in Requests : IF r.kind = "score" THEN WithinLimits(r) => TriesFit(r)
                        ELSE WithinLimits(r)

\* Each step, of the call itself or of another thread, keeps the room.
LEMMA RoomKeeps == Narrow /\ EngineInv /\ EngineInv' /\ RoomInv /\ [Next]_vars => RoomInv'
<1> SUFFICES ASSUME Narrow, EngineInv, EngineInv', RoomInv, [Next]_vars,
                    NEW t \in Threads, owner' = t
             PROVE  RoomKept(t)'
  BY DEF RoomInv
<1>1. TypeOK /\ t # None
  BY EngineAssumption DEF EngineInv
<1>2. CASE UNCHANGED vars
  <2>1. /\ pc'[t] = pc[t] /\ req'[t] = req[t] /\ owner' = owner /\ UNCHANGED <<cells, frame>>
    BY <1>2 DEF vars, frame, inner
  <2>2. RoomKept(t)
    BY <2>1 DEF RoomInv
  <2>. QED
    BY <2>1, <2>2, RoomOutside
<1>3. ASSUME NEW s \in Threads, Prepare(s) \/ TokenizerFails(s) \/ \E r \in Requests : Ask(s, r)
      PROVE  RoomKept(t)'
  <2>1. UNCHANGED <<owner, cells, frame>> /\ pc'[t] = pc[t] /\ req'[t] = req[t]
    BY <1>3, StepsOutside
  <2>2. RoomKept(t)
    BY <2>1 DEF RoomInv
  <2>. QED
    BY <2>1, <2>2, RoomOutside
<1>4. ASSUME NEW s \in Threads, Step(s), ~Prepare(s), ~TokenizerFails(s) PROVE RoomKept(t)'
  <2>1. ASSUME owner \in {s, None}, \E a : Return(s, a) PROVE FALSE
    BY <1>1, <2>1, ReturnsFree
  <2>2. ~ TakeLabels(s)
    BY <1>1, ReturnsFree DEF TakeLabels
  <2>3. ~ (PrefillFails(s) \/ ForksFail(s) \/ ReadingFails(s) \/ EndScore(s) \/ EndTail(s))
    BY <2>1 DEF PrefillFails, ForksFail, ReadingFails, EndScore, EndTail, Done, At, Fails
  <2>4. CASE DecodeWindow(s) \/ EndPrefill(s) \/ EndRound(s) \/ EndTrie(s) \/ EndProbes(s)
    <3>1. s = t /\ owner = t
      BY <2>4 DEF DecodeWindow, EndPrefill, EndRound, EndTrie, EndProbes, At
    <3>2. RoomKept(t)
      BY <3>1 DEF RoomInv
    <3>. QED
      BY <2>4, <3>1, <3>2, DecodeWindowRoom, EndPrefillRoom, EndRoundRoom, EndProbesRoom
  <2>5. CASE BeginScore(s)
    <3>1. s = t
      BY <2>5 DEF BeginScore
    <3>. QED
      BY <2>5, <3>1, BeginScoreRoom
  <2>6. ASSUME owner = s PROVE s = t \/ \E a : Return(s, a)
    BY <1>1, <1>4, <2>2, <2>5, <2>6
    DEF Step, DecodeWindow, PrefillFails, ForksFail, ReadingFails, EndPrefill, StartRound,
        EndRound, StartRoot, EndRoot, StartProbes, EndProbes, EndTrie, EndScore, BeginControl,
        EndWhole, BeginSplit, EndHead, EndTail, BeginScore
  <2>7. CASE StartRound(s) \/ StartRoot(s) \/ EndRoot(s) \/ StartProbes(s)
    <3>1. owner = s /\ pc[s] \in Forked
      BY <2>7 DEF StartRound, StartRoot, EndRoot, StartProbes, At, Forked
    <3>2. s = t
      BY <2>1, <2>6, <3>1
    <3>3. RoomKept(t) /\ TriesFit(req[t])
      <4>1. req[t] \in Requests /\ WithinLimits(req[t]) /\ req[t].kind = "score"
        BY <3>1, <3>2, InFork, InCall
      <4>. QED
        BY <3>1, <3>2, <4>1 DEF RoomInv, Narrow
    <3>. QED
      BY <2>7, <3>2, <3>3, StartRoundRoom, StartRootRoom, EndRootRoom, StartProbesRoom
  <2>8. CASE BeginControl(s) \/ BeginSplit(s) \/ EndWhole(s) \/ EndHead(s)
    <3>1. s = t
      <4>1. CASE owner = s
        BY <2>1, <2>6, <4>1
      <4>2. CASE owner # s
        <5>1. owner = None /\ ((\E a : Return(s, a)) \/ owner' = s)
          BY <2>8, <4>2 DEF BeginControl, BeginSplit, EndWhole, EndHead, At
        <5>. QED
          BY <2>1, <5>1
      <4>. QED
        BY <4>1, <4>2
    <3>2. WithinLimits(req[t])
      <4>1. pc[t] \in {"control", "split", "whole", "head"}
        BY <2>8, <3>1 DEF BeginControl, BeginSplit, EndWhole, EndHead, At
      <4>2. req[t] \in Requests /\ CallFits(t)
        BY <4>1, InCall
      <4>3. req[t].kind # "score"
        BY <4>1, <4>2 DEF CallFits, Cut
      <4>. QED
        BY <4>2, <4>3 DEF Narrow
    <3>. QED
      BY <2>8, <3>1, <3>2, BeginControlRoom, BeginSplitRoom, EndWholeRoom, EndHeadRoom
  <2>. QED
    BY <1>4, <2>2, <2>3, <2>4, <2>5, <2>7, <2>8 DEF Step
<1>5. CASE Next
  <2>1. PICK s \in Threads : Step(s) \/ \E r \in Requests : Ask(s, r)
    BY <1>5 DEF Next
  <2>. QED
    BY <1>3, <1>4, <2>1
<1>. QED
  BY <1>2, <1>5

\* A window's cells are part of the plan, and no round is empty.
LEMMA RoomIsEnough == EngineInv /\ RoomInv => RoomForAll
<1> SUFFICES ASSUME EngineInv, RoomInv PROVE RoomForAll
  OBVIOUS
<1>1. ASSUME plan # {} PROVE Fits(Window)
  <2>1. owner \in Threads
    BY <1>1 DEF EngineInv, TypeOK, AtRest
  <2>2. IsFiniteSet(cells) /\ Full <= NCtx
    BY <1>1, <2>1 DEF RoomInv, RoomKept
  <2>3. PICK W, P, C : W = Window /\ P = plan /\ C = cells
    OBVIOUS
  <2>4. W \subseteq P /\ IsFiniteSet(P) /\ IsFiniteSet(C)
    BY <2>2, <2>3 DEF Window, First, EngineInv
  <2>5. /\ IsFiniteSet(W) /\ Cardinality(P) \in Nat /\ Cardinality(W) \in Nat
        /\ Cardinality(P \ W) \in Nat /\ Cardinality(P) = Cardinality(P \ W) + Cardinality(W)
    BY <2>4, SizeWithout
  <2>6. /\ Cardinality(C) \in Nat /\ Cardinality(Decoded(C, W)) \in Nat
        /\ Cardinality(Decoded(C, W)) <= Cardinality(C) + Cardinality(W)
    BY <2>4, <2>5, DecodedCells
  <2>7. PICK a, b, c, d, e : /\ a = Cardinality(Decoded(C, W)) /\ b = Cardinality(P \ W)
                             /\ c = Cardinality(C) /\ d = Cardinality(P) /\ e = Cardinality(W)
    OBVIOUS
  <2>8. c + d <= NCtx /\ NCtx \in Nat
    BY <2>2, <2>3, <2>7, LimitAssumption DEF Full
  <2>9. a <= NCtx
    BY <2>5, <2>6, <2>7, <2>8
  <2>. QED
    BY <2>3, <2>7, <2>9 DEF Fits
<1>2. ASSUME NEW t \in Threads, At(t, "rounds"), next <= Len(Single(req[t]))
      PROVE  RoundSize(req[t], next) > 0
  <2>1. RoundSize(req[t], next) \in 1 .. Forks
    BY <1>2, HasRoom
  <2>. QED
    BY <2>1, LimitAssumption
<1>. QED
  BY <1>1, <1>2 DEF RoomForAll

\* With the mutex held, the next window always finds its cells and the next
\* round at least one fork: what check_limits lets through is enough for every
\* window that prefill decodes and every round that score_single plans, over
\* any session, at any number of threads, as long as no trie is too wide for
\* the context beside its question (with a wider one score_trie runs out of
\* cells: EngineWideTrie).
THEOREM RoomUnlessWide == ASSUME Narrow PROVE SafeSpec => []RoomForAll
<1>1. Init => RoomInv
  <2>1. Init => owner = None
    BY DEF Init
  <2>. QED
    BY <2>1, EngineAssumption DEF RoomInv
<1>2. EngineInv /\ EngineInv' /\ RoomInv /\ [Next]_vars => RoomInv'
  BY RoomKeeps
<1>3. EngineInv /\ RoomInv => RoomForAll
  BY RoomIsEnough
<1>. QED
  BY <1>1, <1>2, <1>3, Invariant, PTL DEF SafeSpec

------------------------------------------------------------------------------
(* The cost of a call.                                                     *)

\* What reading a fingerprint by itself decodes.
Cost(r, n) == SuffixLen(r, n) + ProbeTokens(r, n)
Costs(r) == [n \in DOMAIN r.prompts |-> Cost(r, n)]

\* The nodes of a several-token question and how long each is.
Tree(r) == Probes(r, Current(r)) \cup {<<>>}
Depths(r) == [p \in Tree(r) |-> Len(p)]

\* The fingerprints read, and the nodes of the one being read.
Taken == {x.n : x \in readings}
Met == {x.node : x \in nodes}

LEMMA CostType ==
  ASSUME NEW r, IsRequest(r), ~HasEmptyPrompt(r), NEW n \in DOMAIN r.prompts
  PROVE  /\ SuffixLen(r, n) \in Nat /\ SuffixLen(r, n) = Len(r.prompts[n]) - Shared(r)
         /\ IsFiniteSet(Probes(r, n)) /\ Probes(r, n) \subseteq Seq(Token)
         /\ ProbeTokens(r, n) \in Nat /\ Cost(r, n) \in Nat
         /\ OneToken(r, n) => Cost(r, n) = SuffixLen(r, n)
<1>1. SuffixLen(r, n) \in Nat
  BY RequestParts, SessionShared DEF SuffixLen
<1>2. r.cands[n] \in Seq(Seq(Token))
  BY RequestParts
<1>3. IsFiniteSet(Probes(r, n)) /\ Probes(r, n) \subseteq Seq(Token)
  <2>1. /\ Nodes(Range(r.cands[n])) \subseteq Seq(Token)
        /\ IsFiniteSet(Nodes(Range(r.cands[n])))
    BY <1>2, NodesFinite
  <2>. QED
    BY <2>1, FS_Subset DEF Probes
<1>4. PICK P : P = Probes(r, n)
  OBVIOUS
<1>5. PICK f : f = [p \in P |-> Len(p)]
  OBVIOUS
<1>6. ProbeTokens(r, n) = SumFunctionOnSet(f, P)
  <2>1. DOMAIN f = P
    BY <1>5
  <2>. QED
    BY <1>4, <1>5, <2>1, Zenon DEF ProbeTokens, SumFunction
<1>7. NatOn(f, P)
  BY <1>3, <1>4, <1>5 DEF NatOn
<1>8. ProbeTokens(r, n) \in Nat /\ (P = {} => ProbeTokens(r, n) = 0)
  BY <1>3, <1>4, <1>6, <1>7, SumType
<1>9. ASSUME OneToken(r, n) PROVE P = {}
  <2>1. \A c \in Range(r.cands[n]) : Len(c) = 1
    BY <1>9 DEF OneToken
  <2>2. \A m \in DOMAIN r.cands[n] : \A d \in 0 .. Len(r.cands[n][m]) - 1 :
           SubSeq(r.cands[n][m], 1, d) = <<>>
    BY <1>2, <2>1, OneTokenNodes
  <2>. QED
    BY <1>4, <2>2 DEF Probes, Nodes, Range
<1>. QED
  BY <1>1, <1>3, <1>4, <1>8, <1>9 DEF Cost, SuffixLen

\* What the call is charged for beside the fingerprints it has read.
Underway(t) ==
    LET r == req[t]
    IN  CASE pc[t] = "round" -> SumFunctionOnSet(SuffixLens(r, round), DOMAIN round)
          [] pc[t] = "root" -> SuffixLen(r, Current(r))
          [] pc[t] = "probes" ->
                SuffixLen(r, Current(r)) + SumFunctionOnSet(Depths(r), Met)
          [] pc[t] = "probe" ->
                SuffixLen(r, Current(r)) + SumFunctionOnSet(Depths(r), Met)
                    + SumFunctionOnSet(Lengths(round), DOMAIN round)
          [] OTHER -> 0

\* Every token decoded, or planned, is the session's, of a fingerprint read
\* or of the one or those being read.
Accounted(t) ==
    /\ start \in 0 .. Shared(req[t])
    /\ work + Cardinality(plan) =
          (Shared(req[t]) - start) + SumFunctionOnSet(Costs(req[t]), Taken) + Underway(t)
    /\ \A x \in readings : x.evaluated = Cost(req[t], x.n)

\* No fingerprint is read twice: of one-token labels ...
RoundsAhead(t) ==
    LET single == Single(req[t])
    IN  /\ \A i \in next .. Len(single) : single[i] \notin Taken
        /\ pc[t] \in {"root", "probes", "probe"} => next > Len(single)
        /\ pc[t] = "round" =>
              /\ round = SubSeq(single, next, next + Len(round) - 1)
              /\ next + Len(round) - 1 <= Len(single)

\* ... nor is a node of a trie.
ProbesAhead(t) ==
    /\ pc[t] \in {"probes", "probe"} => Met \subseteq Tree(req[t])
    /\ pc[t] = "probe" =>
          /\ \A k \in DOMAIN round : round[k] \in Tree(req[t]) \ Met
          /\ \A j, k \in DOMAIN round : round[j] = round[k] => j = k

CostFits(t) == Accounted(t) /\ RoundsAhead(t) /\ ProbesAhead(t)

CostInv ==
    \A t \in Threads : owner = t /\ pc[t] \in {"prefill"} \cup Forked => CostFits(t)

\* Of a step of another thread, or that leaves the call's locals alone.
LEMMA CostKept ==
  ASSUME NEW t \in Threads, CostFits(t), pc'[t] = pc[t], req'[t] = req[t],
         UNCHANGED <<round, next, start, nodes, readings>>,
         work' + Cardinality(plan') = work + Cardinality(plan)
  PROVE  CostFits(t)'
<1>1. Taken' = Taken /\ Met' = Met
  BY DEF Taken, Met
<1>2. \A r : Tree(r)' = Tree(r) /\ Depths(r)' = Depths(r) /\ Current(r)' = Current(r)
  BY DEF Tree, Depths, Current, Unread
<1>3. Underway(t)' = Underway(t)
  BY <1>1, <1>2 DEF Underway
<1>4. Accounted(t)'
  BY <1>1, <1>3 DEF CostFits, Accounted
<1>5. RoundsAhead(t)' /\ ProbesAhead(t)'
  BY <1>1, <1>2 DEF CostFits, RoundsAhead, ProbesAhead
<1>. QED
  BY <1>4, <1>5 DEF CostFits

\* The numbers an account is of.
LEMMA AccountTypes ==
  ASSUME EngineInv, NEW t \in Threads, owner = t, pc[t] \in Forked, CostFits(t)
  PROVE  /\ IsRequest(req[t]) /\ ~HasEmptyPrompt(req[t]) /\ Holding(t) /\ TypeOK
         /\ Shared(req[t]) \in Nat /\ start \in Nat /\ start <= Shared(req[t])
         /\ Taken \subseteq DOMAIN req[t].prompts /\ IsFiniteSet(DOMAIN req[t].prompts)
         /\ NatOn(Costs(req[t]), DOMAIN req[t].prompts) /\ NatOn(Costs(req[t]), Taken)
         /\ IsFiniteSet(Taken) /\ SumFunctionOnSet(Costs(req[t]), Taken) \in Nat
<1> DEFINE r == req[t]
           D == DOMAIN r.prompts
<1>1. IsRequest(r) /\ ~HasEmptyPrompt(r) /\ Holding(t) /\ TypeOK
  BY InFork
<1>2. Shared(r) \in Nat /\ start \in Nat /\ start <= Shared(r)
  BY <1>1, SessionShared DEF CostFits, Accounted
<1>3. Taken \subseteq D
  BY <1>1 DEF Taken, Holding, ReadingsFit
<1>4. IsFiniteSet(D)
  <2>1. PICK m \in Nat : D = 1 .. m
    BY <1>1, RequestParts
  <2>2. IsFiniteSet(1 .. m)
    BY FS_Interval
  <2>. QED
    BY <2>1, <2>2
<1>5. NatOn(Costs(r), D)
  BY <1>1, CostType DEF NatOn, Costs
<1>6. NatOn(Costs(r), Taken) /\ IsFiniteSet(Taken)
  BY <1>3, <1>4, <1>5, FS_Subset DEF NatOn
<1>. QED
  BY <1>1, <1>2, <1>3, <1>4, <1>5, <1>6, SumType

LEMMA DecodeWindowCosts ==
  ASSUME EngineInv, NEW t \in Threads, DecodeWindow(t), CostFits(t)
  PROVE  CostFits(t)'
<1> DEFINE W == Window
<1>1. /\ plan' = plan \ W /\ work' = work + Cardinality(W)
      /\ UNCHANGED <<pc, req, round, next, start, nodes, readings>>
  BY DEF DecodeWindow
<1>2. W \subseteq plan /\ IsFiniteSet(plan) /\ work \in Nat
  BY DEF Window, First, EngineInv, TypeOK
<1>. HIDE DEF W
<1>3. /\ Cardinality(plan) \in Nat /\ Cardinality(W) \in Nat /\ Cardinality(plan \ W) \in Nat
      /\ Cardinality(plan) = Cardinality(plan \ W) + Cardinality(W)
  BY <1>2, SizeWithout
<1>4. work' + Cardinality(plan') = work + Cardinality(plan)
  BY <1>1, <1>2, <1>3
<1>5. pc'[t] = pc[t] /\ req'[t] = req[t]
  BY <1>1
<1>. QED
  BY <1>1, <1>4, <1>5, CostKept

LEMMA BeginScoreCosts ==
  ASSUME EngineInv, NEW t \in Threads, BeginScore(t)
  PROVE  CostFits(t)'
<1> DEFINE s == Session(req[t])
<1>1. /\ pc[t] = "lock" /\ owner = None /\ pc' = [pc EXCEPT ![t] = "prefill"]
      /\ plan' = Chunk(SubSeq(s, start' + 1, Len(s)), start', 0, NoSlot)
      /\ UNCHANGED <<req, round, next, nodes, readings, work>>
  BY DEF BeginScore, Goto
<1>2. s \in Seq(Token) /\ start' \in 0 .. Len(s)
  BY BeginScoreCuts
<1>3. readings = {} /\ work = 0 /\ pc'[t] = "prefill"
  BY <1>1 DEF EngineInv, TypeOK, AtRest
<1>4. Shared(req[t]) \in Nat /\ Len(s) = Shared(req[t])
  <2>1. IsRequest(req[t]) /\ ~HasEmptyPrompt(req[t])
    BY <1>1, InCall DEF CallFits, Limited
  <2>. QED
    BY <2>1, SessionShared
<1>. HIDE DEF s
<1>5. Cardinality(plan') = Len(s) - start' /\ start' \in Nat /\ Len(s) \in Nat
  <2>1. PICK q, a, todo : q = s /\ a = start' /\ todo = plan'
    OBVIOUS
  <2>2. q \in Seq(Token) /\ a \in 0 .. Len(q) /\ a \in Nat
    BY <1>2, <2>1
  <2>3. todo = Chunk(SubSeq(q, a + 1, Len(q)), a, 0, NoSlot)
    BY <1>1, <2>1
  <2>4. Cardinality(todo) = Len(q) - a /\ Len(q) \in Nat
    BY <2>2, <2>3, RestSize
  <2>. QED
    BY <2>1, <2>2, <2>4
<1>6. Taken' = {} /\ Underway(t)' = 0
  BY <1>1, <1>3 DEF Taken, Underway
<1>7. SumFunctionOnSet(Costs(req[t]), {}) = 0
  BY FS_EmptySet, SumType DEF NatOn
<1>8. Accounted(t)'
  BY <1>1, <1>2, <1>3, <1>4, <1>5, <1>6, <1>7 DEF Accounted
<1>9. RoundsAhead(t)' /\ ProbesAhead(t)'
  BY <1>3, <1>6 DEF RoundsAhead, ProbesAhead
<1>. QED
  BY <1>8, <1>9 DEF CostFits

LEMMA EndPrefillCosts ==
  ASSUME EngineInv, NEW t \in Threads, EndPrefill(t), CostFits(t)
  PROVE  CostFits(t)'
<1>1. /\ owner = t /\ pc[t] = "prefill" /\ pc' = [pc EXCEPT ![t] = "rounds"]
      /\ UNCHANGED <<req, plan, round, next, start, nodes, readings, work>>
  BY DEF EndPrefill, At, Goto, frame
<1>2. pc'[t] = "rounds"
  BY <1>1 DEF EngineInv, TypeOK
<1>3. Taken' = Taken
  BY <1>1 DEF Taken
<1>4. Underway(t)' = 0 /\ Underway(t) = 0
  BY <1>1, <1>2 DEF Underway
<1>5. Accounted(t)'
  BY <1>1, <1>3, <1>4 DEF CostFits, Accounted
<1>6. RoundsAhead(t)' /\ ProbesAhead(t)'
  BY <1>1, <1>2, <1>3 DEF CostFits, RoundsAhead, ProbesAhead
<1>. QED
  BY <1>5, <1>6 DEF CostFits

LEMMA StartRoundCosts ==
  ASSUME EngineInv, NEW t \in Threads, StartRound(t), CostFits(t), owner' = t
  PROVE  CostFits(t)'
<1> DEFINE r == req[t]
           n == RoundSize(r, next)
           size == SuffixLens(r, round')
<1>1. owner = t /\ pc[t] = "rounds" /\ pc[t] \in Forked /\ plan = {} /\ n # 0
  <2>1. owner = t /\ pc[t] = "rounds" /\ next <= Len(Single(r))
    BY DEF StartRound, At
  <2>. QED
    BY <2>1, BetweenDecodes, RoundPlan DEF Forked
<1>2. UNCHANGED <<req, next, start, nodes, readings, work>>
  BY <1>1 DEF StartRound
<1>3. /\ n \in Nat /\ next \in Nat \ {0} /\ next + n - 1 <= Len(Single(r))
      /\ round' = SubSeq(Single(r), next, next + n - 1) /\ pc'[t] = "round"
      /\ Len(round') = n /\ DOMAIN round' = 1 .. n
      /\ \A k \in 1 .. n : size[k] \in Nat
      /\ Cardinality(plan') = SumFunctionOnSet(size, 1 .. n)
  BY RoundPlan
<1>4. Shared(r) \in Nat /\ work \in Nat
  BY <1>1, AccountTypes DEF TypeOK
<1>. HIDE DEF n, size
<1>5. Taken' = Taken /\ Underway(t) = 0 /\ Cardinality(plan) = 0
  BY <1>1, <1>2, FS_EmptySet DEF Taken, Underway
<1>6. Underway(t)' = Cardinality(plan')
  BY <1>2, <1>3 DEF Underway, size
<1>7. Accounted(t)'
  <2>1. Cardinality(plan') \in Nat
    <3>1. NatOn(size, 1 .. n)
      BY <1>3 DEF NatOn
    <3>2. IsFiniteSet(1 .. n)
      BY <1>3, UpToFinite
    <3>. QED
      BY <1>3, <3>1, <3>2, SumType
  <2>2. /\ start \in 0 .. Shared(r) /\ SumFunctionOnSet(Costs(r), Taken) \in Nat
        /\ work + 0 = (Shared(r) - start) + SumFunctionOnSet(Costs(r), Taken) + 0
        /\ \A x \in readings : x.evaluated = Cost(r, x.n)
    BY <1>1, <1>5, AccountTypes DEF CostFits, Accounted
  <2>3. PICK s, h, w, c : /\ s = SumFunctionOnSet(Costs(r), Taken) /\ h = Shared(r)
                          /\ w = work /\ c = Cardinality(plan')
    OBVIOUS
  <2>4. w + c = (h - start) + s + c
    BY <1>4, <2>1, <2>2, <2>3
  <2>5. work' + Cardinality(plan') =
           (Shared(r) - start') + SumFunctionOnSet(Costs(r), Taken') + Underway(t)'
    BY <1>2, <1>5, <1>6, <2>3, <2>4
  <2>. QED
    BY <1>2, <2>2, <2>5 DEF Accounted
<1>8. RoundsAhead(t)'
  BY <1>2, <1>3, <1>5 DEF CostFits, RoundsAhead
<1>9. ProbesAhead(t)'
  BY <1>3 DEF ProbesAhead
<1>. QED
  BY <1>7, <1>8, <1>9 DEF CostFits

\* Which outputs a round read: all of it, the session's none.
LEMMA RowsOfRound ==
  ASSUME EngineInv, NEW t \in Threads, owner = t, pc[t] = "round", plan = {}
  PROVE  /\ {x.slot : x \in rows} = Values(round, Len(round))
         /\ Len(round) \in Nat /\ round = [k \in 1 .. Len(round) |-> round[k]]
         /\ \A k \in 1 .. Len(round) :
               round[k] \in DOMAIN req[t].prompts /\ OneToken(req[t], round[k])
<1> DEFINE r == req[t]
           S == {m \in DOMAIN r.prompts : OneToken(r, m)}
           a(k) == Aim(k, r.prompts[round[k]], round[k])
<1>1. Holding(t) /\ IsRequest(r)
  BY InFork DEF Forked
<1>2. round \in Seq(S)
  BY <1>1 DEF Holding, RoundFits
<1>3. \A n \in S : n # NoSlot /\ n \in DOMAIN r.prompts /\ OneToken(r, n)
  BY <1>1, RequestParts DEF NoSlot
<1>. HIDE DEF S
<1>4. /\ Len(round) \in Nat /\ DOMAIN round = 1 .. Len(round)
      /\ round = [k \in 1 .. Len(round) |-> round[k]]
      /\ \A k \in 1 .. Len(round) : round[k] \in S
  BY <1>2
<1>5. Aims(t) = {a(k) : k \in 1 .. Len(round)}
  BY <1>4 DEF Aims
<1>6. \A k : a(k).slot = round[k]
  BY DEF Aim
<1>7. Decoding(Aims(t), cells, {}, rows)
  BY <1>1 DEF Holding, MemoryFits
<1>8. rows = {[slot |-> b.slot, ctx |-> Placed(b.toks)] :
                  b \in {c \in Aims(t) : c.slot # NoSlot}}
  BY <1>7, Ends
<1>. HIDE DEF a
<1>9. \A b \in Aims(t) : b.slot # NoSlot
  BY <1>3, <1>4, <1>5, <1>6
<1>10. {x.slot : x \in rows} = {b.slot : b \in Aims(t)}
  <2> DEFINE row(b) == [slot |-> b.slot, ctx |-> Placed(b.toks)]
  <2>1. rows = {row(b) : b \in Aims(t)}
    BY <1>8, <1>9
  <2>2. \A b : row(b).slot = b.slot
    OBVIOUS
  <2>. HIDE DEF row
  <2>. QED
    BY <2>1, <2>2
<1>11. {b.slot : b \in Aims(t)} = Values(round, Len(round))
  BY <1>5, <1>6 DEF Values
<1>. QED
  BY <1>3, <1>4, <1>10, <1>11

LEMMA EndRoundCosts ==
  ASSUME EngineInv, NEW t \in Threads, EndRound(t), CostFits(t)
  PROVE  CostFits(t)'
<1> DEFINE r == req[t]
           m == Len(round)
           new == {[n |-> x.slot, evaluated |-> SuffixLen(r, x.slot),
                    marks |-> Marks(r.cands[x.slot], {[node |-> <<>>, ctx |-> x.ctx]})]
                   : x \in rows}
<1>1. /\ owner = t /\ pc[t] = "round" /\ pc[t] \in Forked /\ plan = {}
      /\ readings' = readings \cup new
      /\ next' = next + m /\ pc' = [pc EXCEPT ![t] = "rounds"]
      /\ UNCHANGED <<req, plan, start, work>>
  BY DEF EndRound, At, Goto, Forked
<1>2. /\ IsRequest(r) /\ ~HasEmptyPrompt(r) /\ TypeOK /\ pc'[t] = "rounds"
      /\ NatOn(Costs(r), Taken) /\ IsFiniteSet(Taken) /\ next \in Nat
  BY <1>1, AccountTypes DEF TypeOK
<1>3. /\ {x.slot : x \in rows} = Values(round, m)
      /\ m \in Nat /\ round = [k \in 1 .. m |-> round[k]]
      /\ \A k \in 1 .. m : round[k] \in DOMAIN r.prompts /\ OneToken(r, round[k])
  BY <1>1, RowsOfRound
<1>4. ASSUME NEW y \in new PROVE y.n \in Values(round, m) /\ y.evaluated = Cost(r, y.n)
  <2> DEFINE mk(x) == Marks(r.cands[x.slot], {[node |-> <<>>, ctx |-> x.ctx]})
             ev(x) == SuffixLen(r, x.slot)
  <2>1. PICK x \in rows : y = [n |-> x.slot, evaluated |-> ev(x), marks |-> mk(x)]
    BY Zenon DEF mk, ev
  <2>. HIDE DEF mk, ev
  <2>2. y.n = x.slot /\ y.evaluated = ev(x)
    BY <2>1
  <2>3. x.slot \in Values(round, m)
    BY <1>3
  <2>4. Cost(r, x.slot) = SuffixLen(r, x.slot)
    BY <1>2, <1>3, <2>3, CostType DEF Values
  <2>. QED
    BY <2>2, <2>3, <2>4 DEF ev
<1>5. {y.n : y \in new} = {x.slot : x \in rows}
  <2> DEFINE mk(x) == Marks(r.cands[x.slot], {[node |-> <<>>, ctx |-> x.ctx]})
             ev(x) == SuffixLen(r, x.slot)
             one(x) == [n |-> x.slot, evaluated |-> ev(x), marks |-> mk(x)]
  <2>1. new = {one(x) : x \in rows}
    OBVIOUS
  <2>. HIDE DEF mk, ev, new
  <2>2. \A x : one(x).n = x.slot
    OBVIOUS
  <2>. HIDE DEF one
  <2>. QED
    BY <2>1, <2>2
<1>. HIDE DEF new
<1>6. Taken' = Taken \cup Values(round, m)
  BY <1>1, <1>3, <1>5 DEF Taken
<1>7. /\ \A i \in next .. Len(Single(r)) : Single(r)[i] \notin Taken
      /\ round = SubSeq(Single(r), next, next + m - 1) /\ next + m - 1 <= Len(Single(r))
      /\ next > 0 /\ Len(Single(r)) \in Nat
      /\ \A i, j \in 1 .. Len(Single(r)) : Single(r)[i] = Single(r)[j] => i = j
  <2>1. next > 0
    BY <1>2 DEF TypeOK
  <2>2. Len(Single(r)) \in Nat
    BY <1>2, SingleType
  <2>. QED
    BY <1>1, <1>2, <2>1, <2>2, SingleType DEF CostFits, RoundsAhead
<1>8. \A k \in 1 .. m : /\ round[k] = Single(r)[next + k - 1]
                         /\ next + k - 1 \in next .. Len(Single(r))
                         /\ next + k - 1 \in 1 .. Len(Single(r))
  <2>1. PICK sq, a, l, n : sq = Single(r) /\ a = next /\ l = Len(sq) /\ n = m
    OBVIOUS
  <2>2. /\ a \in Nat /\ a > 0 /\ l \in Nat /\ n \in Nat /\ a + n - 1 <= l
        /\ round = SubSeq(sq, a, a + n - 1)
    BY <1>2, <1>3, <1>7, <2>1
  <2>3. ASSUME NEW k \in 1 .. n PROVE a + k - 1 \in a .. l /\ a + k - 1 \in 1 .. l
    BY <2>2
  <2>4. ASSUME NEW k \in 1 .. n PROVE round[k] = sq[a + k - 1]
    BY <2>2
  <2>. QED
    BY <2>1, <2>3, <2>4
<1>9. m \in Nat /\ next \in Nat
  BY <1>2, <1>3
<1>10. \A k \in 1 .. m : round[k] \notin Taken
  BY <1>7, <1>8
<1>11. \A j, k \in 1 .. m : round[j] = round[k] => j = k
  <2>1. PICK a \in Nat : a = next
    BY <1>9
  <2>2. ASSUME NEW j \in 1 .. m, NEW k \in 1 .. m, round[j] = round[k] PROVE j = k
    <3>1. a + j - 1 = a + k - 1
      BY <1>7, <1>8, <2>1, <2>2
    <3>. QED
      BY <3>1
  <2>. QED
    BY <2>2
<1>12. SumFunctionOnSet(Costs(r), Taken')
          = SumFunctionOnSet(Costs(r), Taken) + SumFunctionOnSet(SuffixLens(r, round), 1 .. m)
  <2>1. PICK ns, len, f, g, A : /\ ns = round /\ len = m /\ f = SuffixLens(r, round)
                                /\ g = Costs(r) /\ A = Taken
    OBVIOUS
  <2>2. len \in Nat /\ ns = [k \in 1 .. len |-> ns[k]] /\ IsFiniteSet(A) /\ NatOn(g, A)
    BY <1>2, <1>3, <2>1
  <2>3. ASSUME NEW k \in 1 .. len PROVE ns[k] \notin A /\ f[k] \in Nat /\ f[k] = g[ns[k]]
    <3>1. k \in DOMAIN round /\ round[k] \in DOMAIN r.prompts /\ OneToken(r, round[k])
      BY <1>3, <2>1
    <3>2. f[k] = SuffixLen(r, round[k]) /\ g[ns[k]] = Cost(r, round[k])
      BY <2>1, <3>1 DEF SuffixLens, Costs
    <3>. QED
      BY <1>2, <1>10, <2>1, <3>1, <3>2, CostType
  <2>4. \A j, k \in 1 .. len : ns[j] = ns[k] => j = k
    BY <1>11, <2>1
  <2>5. SumFunctionOnSet(g, A \cup Values(ns, len))
           = SumFunctionOnSet(g, A) + SumFunctionOnSet(f, 1 .. len)
    BY <2>2, <2>3, <2>4, SumMore
  <2>. QED
    BY <1>6, <2>1, <2>5
<1>13. /\ Underway(t) = SumFunctionOnSet(SuffixLens(r, round), 1 .. m)
       /\ Underway(t)' = 0 /\ DOMAIN round = 1 .. m
  <2>1. DOMAIN round = 1 .. m
    BY <1>3
  <2>. QED
    BY <1>1, <1>2, <2>1 DEF Underway
<1>14. Accounted(t)'
  <2>1. \A x \in readings' : x.evaluated = Cost(r, x.n)
    BY <1>1, <1>4 DEF CostFits, Accounted
  <2>2. PICK s, u, h, w, c : /\ s = SumFunctionOnSet(Costs(r), Taken) /\ h = Shared(r)
                             /\ u = Underway(t) /\ w = work /\ c = Cardinality(plan)
    OBVIOUS
  <2>3. s \in Nat /\ h \in Nat /\ start \in Nat /\ start \in 0 .. Shared(r)
        /\ w + c = (h - start) + s + u
    BY <1>1, <2>2, AccountTypes DEF CostFits, Accounted
  <2>4. u \in Nat
    <3>1. NatOn(SuffixLens(r, round), 1 .. m)
      <4>1. ASSUME NEW k \in 1 .. m PROVE SuffixLens(r, round)[k] \in Nat
        <5>1. k \in DOMAIN round /\ round[k] \in DOMAIN r.prompts
          BY <1>3, <1>13
        <5>2. SuffixLens(r, round)[k] = SuffixLen(r, round[k])
          BY <5>1 DEF SuffixLens
        <5>. QED
          BY <1>2, <5>1, <5>2, CostType
      <4>. QED
        BY <4>1 DEF NatOn
    <3>2. IsFiniteSet(1 .. m)
      BY <1>3, UpToFinite
    <3>. QED
      BY <1>13, <2>2, <3>1, <3>2, SumType
  <2>5. work' + Cardinality(plan') =
           (Shared(r) - start') + SumFunctionOnSet(Costs(r), Taken') + Underway(t)'
    <3>1. SumFunctionOnSet(Costs(r), Taken') = s + u /\ Underway(t)' = 0
      BY <1>12, <1>13, <2>2
    <3>2. work' = w /\ Cardinality(plan') = c /\ start' = start
      BY <1>1, <2>2
    <3>. QED
      BY <2>2, <2>3, <2>4, <3>1, <3>2
  <2>. QED
    BY <1>1, <2>1, <2>3, <2>5 DEF Accounted
<1>15. RoundsAhead(t)'
  <2>1. ASSUME NEW i \in next + m .. Len(Single(r)) PROVE Single(r)[i] \notin Taken'
    <3>1. i \in next .. Len(Single(r)) /\ i \in 1 .. Len(Single(r))
      BY <1>2, <1>3, <1>7
    <3>2. \A k \in 1 .. m : next + k - 1 # i
      BY <1>2, <1>3, <1>7
    <3>3. \A k \in 1 .. m : round[k] # Single(r)[i]
      BY <1>7, <1>8, <3>1, <3>2
    <3>. QED
      BY <1>6, <1>7, <3>1, <3>3 DEF Values
  <2>. QED
    BY <1>1, <1>2, <2>1 DEF RoundsAhead
<1>16. ProbesAhead(t)'
  BY <1>2 DEF ProbesAhead
<1>. QED
  BY <1>14, <1>15, <1>16 DEF CostFits

\* The question being read was not read before.
LEMMA CurrentUnread ==
  ASSUME NEW r, IsRequest(r), Unread(r) # {}
  PROVE  Current(r) \in DOMAIN r.prompts /\ Current(r) \notin Taken
<1>1. Unread(r) \subseteq Nat /\ Unread(r) # {}
  <2>1. Unread(r) \subseteq DOMAIN r.prompts
    BY DEF Unread
  <2>2. DOMAIN r.prompts \subseteq Nat
    <3>1. PICK m \in Nat : DOMAIN r.prompts = 1 .. m
      BY RequestParts
    <3>. QED
      BY <3>1
  <2>. QED
    BY <2>1, <2>2
<1>2. Min(Unread(r)) \in Unread(r)
  BY <1>1, MinOfNaturals
<1>. QED
  BY <1>2 DEF Current, Unread, Taken

\* The nodes of the trie, and the sum over those met.
LEMMA TreeType ==
  ASSUME NEW r, IsRequest(r), ~HasEmptyPrompt(r), Unread(r) # {}
  PROVE  /\ IsFiniteSet(Tree(r)) /\ Tree(r) \subseteq Seq(Token) /\ <<>> \in Tree(r)
         /\ \A p \in Tree(r) : Depths(r)[p] = Len(p) /\ Len(p) \in Nat
         /\ SuffixLen(r, Current(r)) \in Nat
         /\ Met \subseteq Tree(r) =>
               /\ IsFiniteSet(Met) /\ NatOn(Depths(r), Met)
               /\ SumFunctionOnSet(Depths(r), Met) \in Nat
<1>1. /\ Current(r) \in DOMAIN r.prompts /\ IsFiniteSet(Probes(r, Current(r)))
      /\ Probes(r, Current(r)) \subseteq Seq(Token) /\ SuffixLen(r, Current(r)) \in Nat
  BY CurrentUnread, CostType
<1>2. IsFiniteSet(Tree(r)) /\ <<>> \in Tree(r)
  BY <1>1, FS_AddElement DEF Tree
<1>3. Tree(r) \subseteq Seq(Token)
  <2>1. <<>> \in Seq(Token)
    OBVIOUS
  <2>. QED
    BY <1>1, <2>1 DEF Tree
<1>4. \A p \in Tree(r) : Depths(r)[p] = Len(p) /\ Len(p) \in Nat
  BY <1>3 DEF Depths
<1>5. ASSUME Met \subseteq Tree(r)
      PROVE  /\ IsFiniteSet(Met) /\ NatOn(Depths(r), Met)
             /\ SumFunctionOnSet(Depths(r), Met) \in Nat
  <2>1. IsFiniteSet(Met) /\ NatOn(Depths(r), Met)
    BY <1>2, <1>4, <1>5, FS_Subset DEF NatOn
  <2>. QED
    BY <2>1, SumType
<1>. QED
  BY <1>1, <1>2, <1>3, <1>4, <1>5

LEMMA StartRootCosts ==
  ASSUME EngineInv, NEW t \in Threads, StartRoot(t), CostFits(t)
  PROVE  CostFits(t)'
<1> DEFINE r == req[t]
           n == Current(r)
<1>1. /\ owner = t /\ pc[t] = "rounds" /\ pc[t] \in Forked /\ plan = {}
      /\ next > Len(Single(r)) /\ Unread(r) # {}
      /\ plan' = Chunk(Suffix(r, n), Shared(r), 1, 1)
      /\ pc' = [pc EXCEPT ![t] = "root"]
      /\ UNCHANGED <<req, round, next, start, nodes, readings, work>>
  BY BetweenDecodes DEF StartRoot, At, Goto, Forked
<1>2. /\ IsRequest(r) /\ ~HasEmptyPrompt(r) /\ Shared(r) \in Nat /\ pc'[t] = "root"
      /\ n \in DOMAIN r.prompts /\ SuffixLen(r, n) \in Nat
  BY <1>1, AccountTypes, CurrentUnread, TreeType DEF TypeOK
<1>3. Cardinality(plan) = 0
  BY <1>1, FS_EmptySet
<1>4. Cardinality(plan') = SuffixLen(r, n)
  <2>1. PICK p, h, todo : p = r.prompts[n] /\ h = Shared(r) /\ todo = plan'
    OBVIOUS
  <2>2. p \in Seq(Token) /\ Len(p) \in Nat /\ h \in Nat /\ h < Len(p)
    BY <1>2, <2>1, RequestParts, SessionShared
  <2>3. h \in 0 .. Len(p)
    BY <2>2
  <2>4. todo = Chunk(SubSeq(p, h + 1, Len(p)), h, 1, 1)
    BY <1>1, <2>1 DEF Suffix
  <2>5. Cardinality(todo) = Len(p) - h
    BY <2>2, <2>3, <2>4, RestSize
  <2>. QED
    BY <2>1, <2>5 DEF SuffixLen
<1>5. Taken' = Taken /\ Current(r)' = Current(r)
  BY <1>1 DEF Taken, Current, Unread
<1>6. Underway(t) = 0 /\ Underway(t)' = SuffixLen(r, n)
  BY <1>1, <1>2, <1>5 DEF Underway
<1>7. Accounted(t)'
  <2>1. PICK s, h, w : s = SumFunctionOnSet(Costs(r), Taken) /\ h = Shared(r) /\ w = work
    OBVIOUS
  <2>2. /\ s \in Nat /\ h \in Nat /\ start \in Nat /\ w = (h - start) + s
        /\ start \in 0 .. Shared(r) /\ w \in Nat
        /\ \A x \in readings : x.evaluated = Cost(r, x.n)
    BY <1>1, <1>3, <1>6, <2>1, AccountTypes DEF CostFits, Accounted, TypeOK
  <2>3. work' + Cardinality(plan') =
           (Shared(r) - start') + SumFunctionOnSet(Costs(r), Taken') + Underway(t)'
    BY <1>1, <1>2, <1>4, <1>5, <1>6, <2>1, <2>2
  <2>. QED
    BY <1>1, <2>2, <2>3 DEF Accounted
<1>8. RoundsAhead(t)'
  BY <1>1, <1>2, <1>5 DEF CostFits, RoundsAhead
<1>9. ProbesAhead(t)'
  BY <1>2 DEF ProbesAhead
<1>. QED
  BY <1>7, <1>8, <1>9 DEF CostFits

LEMMA EndRootCosts ==
  ASSUME EngineInv, NEW t \in Threads, EndRoot(t), CostFits(t), owner' = t
  PROVE  CostFits(t)'
<1> DEFINE r == req[t]
<1>1. owner = t /\ pc[t] = "root" /\ pc[t] \in Forked /\ plan = {} /\ t # None
  BY EngineAssumption DEF EndRoot, At, Forked
<1>2. ~NeedsMoreForks(r)
  BY <1>1 DEF EndRoot, Return, LetGo
<1>3. /\ nodes' = {[node |-> <<>>, ctx |-> x.ctx] : x \in rows}
      /\ pc' = [pc EXCEPT ![t] = "probes"]
      /\ UNCHANGED <<req, plan, round, next, start, readings, work>>
  BY <1>2 DEF EndRoot, Goto
<1>4. /\ IsRequest(r) /\ ~HasEmptyPrompt(r) /\ pc'[t] = "probes" /\ Unread(r) # {}
      /\ Shared(r) \in Nat
  BY <1>1, <1>3, AccountTypes DEF TypeOK, Holding, RoundFits
<1>5. Met' = {<<>>}
  <2>1. nodes' = {[node |-> <<>>, ctx |-> Placed(Question(r))]}
    BY <1>1, <1>3, RootRead
  <2>. QED
    BY <2>1 DEF Met
<1>6. Taken' = Taken /\ Current(r)' = Current(r) /\ Tree(r)' = Tree(r) /\ Depths(r)' = Depths(r)
  BY <1>3 DEF Taken, Current, Unread, Tree, Depths
<1>7. SumFunctionOnSet(Depths(r), {<<>>}) = 0
  <2>1. Depths(r)[<<>>] = 0
    BY <1>4, TreeType
  <2>2. IsFiniteSet({<<>>})
    BY FS_Singleton
  <2>. QED
    BY <2>1, <2>2, SumZero
<1>8. Underway(t) = SuffixLen(r, Current(r)) /\ Underway(t)' = SuffixLen(r, Current(r)) + 0
  BY <1>1, <1>3, <1>4, <1>5, <1>6, <1>7 DEF Underway
<1>9. SuffixLen(r, Current(r)) \in Nat /\ <<>> \in Tree(r)
  BY <1>4, TreeType
<1>10. Accounted(t)'
  BY <1>3, <1>6, <1>8, <1>9 DEF CostFits, Accounted
<1>11. RoundsAhead(t)'
  BY <1>1, <1>3, <1>4, <1>6 DEF CostFits, RoundsAhead
<1>12. ProbesAhead(t)'
  BY <1>3, <1>4, <1>5, <1>6, <1>9 DEF ProbesAhead
<1>. QED
  BY <1>10, <1>11, <1>12 DEF CostFits

LEMMA StartProbesCosts ==
  ASSUME EngineInv, NEW t \in Threads, StartProbes(t), CostFits(t)
  PROVE  CostFits(t)'
<1> DEFINE r == req[t]
           n == Len(round')
<1>1. /\ owner = t /\ pc[t] = "probes" /\ pc[t] \in Forked /\ plan = {} /\ pc'[t] = "probe"
      /\ UNCHANGED <<req, readings, nodes, next, start, work>>
      /\ IsRequest(r) /\ ~HasEmptyPrompt(r) /\ Unread(r) # {}
      /\ n \in Nat /\ DOMAIN round' = 1 .. n
      /\ \A k \in 1 .. n : round'[k] \in ProbesLeft(r)
      /\ \A j, k \in 1 .. n : round'[j] = round'[k] => j = k
      /\ Cardinality(plan') = SumFunctionOnSet(Lengths(round'), 1 .. n)
      /\ SumFunctionOnSet(Lengths(round'), 1 .. n) \in Nat
  BY ProbesPlan DEF Forked
<1>2. Shared(r) \in Nat
  BY <1>1, AccountTypes
<1>3. \A k \in 1 .. n : round'[k] \in Tree(r) \ Met
  BY <1>1 DEF Tree, ProbesLeft, Met
<1>. HIDE DEF n
<1>4. /\ Taken' = Taken /\ Met' = Met /\ Current(r)' = Current(r) /\ Tree(r)' = Tree(r)
      /\ Depths(r)' = Depths(r)
  BY <1>1 DEF Taken, Met, Current, Unread, Tree, Depths
<1>5. Met \subseteq Tree(r) /\ SumFunctionOnSet(Depths(r), Met) \in Nat
      /\ SuffixLen(r, Current(r)) \in Nat
  <2>1. Met \subseteq Tree(r)
    BY <1>1 DEF CostFits, ProbesAhead
  <2>. QED
    BY <1>1, <2>1, TreeType
<1>6. /\ Underway(t) = SuffixLen(r, Current(r)) + SumFunctionOnSet(Depths(r), Met)
      /\ Underway(t)' = Underway(t) + SumFunctionOnSet(Lengths(round'), 1 .. n)
  <2>1. Underway(t) = SuffixLen(r, Current(r)) + SumFunctionOnSet(Depths(r), Met)
    BY <1>1 DEF Underway
  <2>2. Underway(t)' = SuffixLen(r, Current(r)) + SumFunctionOnSet(Depths(r), Met)
                          + SumFunctionOnSet(Lengths(round'), DOMAIN round')
    BY <1>1, <1>4 DEF Underway
  <2>. QED
    BY <1>1, <2>1, <2>2
<1>7. Accounted(t)'
  <2>1. PICK s, h, w, u, c : /\ s = SumFunctionOnSet(Costs(r), Taken) /\ h = Shared(r)
                             /\ w = work /\ u = Underway(t) /\ c = Cardinality(plan')
    OBVIOUS
  <2>2. /\ s \in Nat /\ h \in Nat /\ start \in Nat /\ w + 0 = (h - start) + s + u
        /\ start \in 0 .. Shared(r) /\ w \in Nat /\ u \in Nat /\ c \in Nat
        /\ \A x \in readings : x.evaluated = Cost(r, x.n)
    <3>1. s \in Nat /\ h \in Nat /\ start \in Nat /\ w \in Nat
      BY <1>1, <2>1, AccountTypes DEF TypeOK
    <3>2. c \in Nat
      BY <1>1, <2>1
    <3>3. u \in Nat
      BY <1>5, <1>6, <2>1
    <3>4. Cardinality(plan) = 0
      BY <1>1, FS_EmptySet
    <3>5. /\ start \in 0 .. Shared(r)
          /\ work + Cardinality(plan) =
                (Shared(r) - start) + SumFunctionOnSet(Costs(r), Taken) + Underway(t)
          /\ \A x \in readings : x.evaluated = Cost(r, x.n)
      BY DEF CostFits, Accounted
    <3>. QED
      BY <2>1, <3>1, <3>2, <3>3, <3>4, <3>5
  <2>3. Underway(t)' = u + c
    BY <1>1, <1>6, <2>1
  <2>4. work' + Cardinality(plan') =
           (Shared(r) - start') + SumFunctionOnSet(Costs(r), Taken') + Underway(t)'
    <3>1. w + c = (h - start) + s + (u + c)
      BY <2>2
    <3>2. work' = w /\ Cardinality(plan') = c /\ start' = start /\ Taken' = Taken
      BY <1>1, <1>4, <2>1
    <3>. QED
      BY <2>1, <2>3, <3>1, <3>2
  <2>. QED
    BY <1>1, <2>2, <2>4 DEF Accounted
<1>8. RoundsAhead(t)'
  BY <1>1, <1>4 DEF CostFits, RoundsAhead
<1>9. ProbesAhead(t)'
  BY <1>1, <1>3, <1>4, <1>5 DEF ProbesAhead
<1>. QED
  BY <1>7, <1>8, <1>9 DEF CostFits

\* Which nodes a round of probes read: all of it.
LEMMA RowsOfProbes ==
  ASSUME EngineInv, NEW t \in Threads, owner = t, pc[t] = "probe", plan = {}
  PROVE  /\ {round[x.slot] : x \in rows} = Values(round, Len(round))
         /\ Len(round) \in Nat /\ round = [k \in 1 .. Len(round) |-> round[k]]
<1> DEFINE r == req[t]
           P == Probes(r, Current(r))
           m == Len(round)
           a(k) == Aim(k + 1, Question(r) \o round[k], k)
           row(b) == [slot |-> b.slot, ctx |-> Placed(b.toks)]
<1>1. Holding(t)
  BY InFork DEF Forked
<1>2. round \in Seq(P)
  BY <1>1 DEF Holding, RoundFits
<1>. HIDE DEF P
<1>3. m \in Nat /\ DOMAIN round = 1 .. m /\ round = [k \in 1 .. m |-> round[k]]
  BY <1>2
<1>4. Aims(t) = {a(k) : k \in 1 .. m}
  BY <1>3 DEF Aims
<1>5. \A k : a(k).slot = k
  BY DEF Aim
<1>6. Decoding(Aims(t), cells, {}, rows)
  BY <1>1 DEF Holding, MemoryFits
<1>7. rows = {row(b) : b \in {c \in Aims(t) : c.slot # NoSlot}}
  BY <1>6, Ends
<1>8. \A b : row(b).slot = b.slot
  OBVIOUS
<1>. HIDE DEF a, row, m
<1>9. {x.slot : x \in rows} = {b.slot : b \in {c \in Aims(t) : c.slot # NoSlot}}
  BY <1>7, <1>8
<1>10. \A k \in 1 .. m : k # NoSlot
  BY <1>3 DEF NoSlot
<1>11. {b.slot : b \in {c \in Aims(t) : c.slot # NoSlot}} = 1 .. m
  BY <1>4, <1>5, <1>10
<1>12. {x.slot : x \in rows} = 1 .. m
  BY <1>9, <1>11
<1>13. {round[x.slot] : x \in rows} = {round[k] : k \in {x.slot : x \in rows}}
  OBVIOUS
<1>. QED
  BY <1>3, <1>12, <1>13 DEF Values, m

LEMMA EndProbesCosts ==
  ASSUME EngineInv, NEW t \in Threads, EndProbes(t), CostFits(t)
  PROVE  CostFits(t)'
<1> DEFINE r == req[t]
           m == Len(round)
           new == {[node |-> round[x.slot], ctx |-> x.ctx] : x \in rows}
<1>1. /\ owner = t /\ pc[t] = "probe" /\ pc[t] \in Forked /\ plan = {}
      /\ nodes' = nodes \cup new /\ pc' = [pc EXCEPT ![t] = "probes"]
      /\ UNCHANGED <<req, plan, next, start, readings, work>>
  BY DEF EndProbes, At, Goto, Forked
<1>2. /\ IsRequest(r) /\ ~HasEmptyPrompt(r) /\ pc'[t] = "probes" /\ Unread(r) # {}
  BY <1>1, AccountTypes DEF TypeOK, Holding, RoundFits
<1>3. /\ {round[x.slot] : x \in rows} = Values(round, m)
      /\ m \in Nat /\ round = [k \in 1 .. m |-> round[k]]
  BY <1>1, RowsOfProbes
<1>4. Met' = Met \cup Values(round, m)
  <2> DEFINE one(x) == [node |-> round[x.slot], ctx |-> x.ctx]
  <2>1. new = {one(x) : x \in rows}
    OBVIOUS
  <2>2. \A x : one(x).node = round[x.slot]
    OBVIOUS
  <2>. HIDE DEF one, new
  <2>3. {y.node : y \in new} = {round[x.slot] : x \in rows}
    BY <2>1, <2>2
  <2>4. Met' = Met \cup {y.node : y \in new}
    BY <1>1 DEF Met
  <2>. QED
    BY <1>3, <2>3, <2>4
<1>. HIDE DEF new
<1>5. /\ Met \subseteq Tree(r)
      /\ \A k \in 1 .. m : round[k] \in Tree(r) \ Met
      /\ \A j, k \in 1 .. m : round[j] = round[k] => j = k
  <2>1. DOMAIN round = 1 .. m
    BY <1>3
  <2>. QED
    BY <1>1, <2>1 DEF CostFits, ProbesAhead
<1>6. /\ Taken' = Taken /\ Current(r)' = Current(r) /\ Tree(r)' = Tree(r)
      /\ Depths(r)' = Depths(r)
  BY <1>1 DEF Taken, Current, Unread, Tree, Depths
<1>7. Met' \subseteq Tree(r)
  BY <1>4, <1>5 DEF Values
<1>8. SumFunctionOnSet(Depths(r), Met')
         = SumFunctionOnSet(Depths(r), Met) + SumFunctionOnSet(Lengths(round), 1 .. m)
  <2>1. PICK ns, len, f, g, A : /\ ns = round /\ len = m /\ f = Lengths(round)
                                /\ g = Depths(r) /\ A = Met
    OBVIOUS
  <2>2. len \in Nat /\ ns = [k \in 1 .. len |-> ns[k]] /\ IsFiniteSet(A) /\ NatOn(g, A)
    BY <1>2, <1>3, <1>5, <2>1, TreeType
  <2>3. ASSUME NEW k \in 1 .. len PROVE ns[k] \notin A /\ f[k] \in Nat /\ f[k] = g[ns[k]]
    <3>1. k \in DOMAIN round /\ round[k] \in Tree(r) /\ round[k] \notin Met
      BY <1>3, <1>5, <2>1
    <3>2. f[k] = Len(round[k])
      BY <2>1, <3>1 DEF Lengths
    <3>3. g[ns[k]] = Len(round[k]) /\ Len(round[k]) \in Nat
      BY <1>2, <2>1, <3>1, TreeType
    <3>. QED
      BY <2>1, <3>1, <3>2, <3>3
  <2>4. \A j, k \in 1 .. len : ns[j] = ns[k] => j = k
    BY <1>5, <2>1
  <2>5. SumFunctionOnSet(g, A \cup Values(ns, len))
           = SumFunctionOnSet(g, A) + SumFunctionOnSet(f, 1 .. len)
    BY <2>2, <2>3, <2>4, SumMore
  <2>. QED
    BY <1>4, <2>1, <2>5
<1>9. /\ SuffixLen(r, Current(r)) \in Nat /\ SumFunctionOnSet(Depths(r), Met) \in Nat
      /\ SumFunctionOnSet(Lengths(round), 1 .. m) \in Nat
  <2>1. NatOn(Lengths(round), 1 .. m)
    <3>1. ASSUME NEW k \in 1 .. m PROVE Lengths(round)[k] \in Nat
      <4>1. k \in DOMAIN round /\ round[k] \in Tree(r)
        BY <1>3, <1>5
      <4>2. Lengths(round)[k] = Len(round[k])
        BY <4>1 DEF Lengths
      <4>. QED
        BY <1>2, <4>1, <4>2, TreeType
    <3>. QED
      BY <3>1 DEF NatOn
  <2>2. IsFiniteSet(1 .. m)
    BY <1>3, UpToFinite
  <2>3. SumFunctionOnSet(Lengths(round), 1 .. m) \in Nat
    BY <2>1, <2>2, SumType
  <2>. QED
    BY <1>2, <1>5, <2>3, TreeType
<1>10. Underway(t)' = Underway(t)
  <2>1. Underway(t) = SuffixLen(r, Current(r)) + SumFunctionOnSet(Depths(r), Met)
                         + SumFunctionOnSet(Lengths(round), 1 .. m)
    <3>1. DOMAIN round = 1 .. m
      BY <1>3
    <3>. QED
      BY <1>1, <3>1 DEF Underway
  <2>2. Underway(t)' = SuffixLen(r, Current(r)) + SumFunctionOnSet(Depths(r), Met')
    BY <1>1, <1>2, <1>6 DEF Underway
  <2>. QED
    BY <1>8, <1>9, <2>1, <2>2
<1>11. Accounted(t)'
  BY <1>1, <1>6, <1>10 DEF CostFits, Accounted
<1>12. RoundsAhead(t)'
  BY <1>1, <1>2, <1>6 DEF CostFits, RoundsAhead
<1>13. ProbesAhead(t)'
  BY <1>1, <1>2, <1>6, <1>7 DEF ProbesAhead
<1>. QED
  BY <1>11, <1>12, <1>13 DEF CostFits

\* All nodes of a trie met, their depths are the tokens of its probes.
LEMMA AllMet ==
  ASSUME NEW r, IsRequest(r), ~HasEmptyPrompt(r), Unread(r) # {}, ProbesLeft(r) = {},
         Met \subseteq Tree(r)
  PROVE  SumFunctionOnSet(Depths(r), Met) = ProbeTokens(r, Current(r))
<1>1. PICK P : P = Probes(r, Current(r))
  OBVIOUS
<1>2. PICK f : f = [p \in P |-> Len(p)]
  OBVIOUS
<1>3. ProbeTokens(r, Current(r)) = SumFunctionOnSet(f, P)
  <2>1. DOMAIN f = P
    BY <1>2
  <2>. QED
    BY <1>1, <1>2, <2>1, Zenon DEF ProbeTokens, SumFunction
<1>4. P \subseteq Met /\ Tree(r) = P \cup {<<>>}
  BY <1>1 DEF ProbesLeft, Met, Tree
<1>5. /\ IsFiniteSet(Met) /\ NatOn(Depths(r), Met) /\ <<>> \in Tree(r)
      /\ \A p \in Tree(r) : Depths(r)[p] = Len(p)
  BY TreeType
<1>6. \A p \in Met \ P : Depths(r)[p] = 0
  BY <1>4, <1>5
<1>7. SumFunctionOnSet(Depths(r), Met) = SumFunctionOnSet(Depths(r), P)
  BY <1>4, <1>5, <1>6, SumOver
<1>8. IsFiniteSet(P) /\ NatOn(Depths(r), P)
  BY <1>4, <1>5, FS_Subset DEF NatOn
<1>9. \A p \in P : Depths(r)[p] = f[p]
  BY <1>2, <1>4, <1>5
<1>. QED
  BY <1>3, <1>7, <1>8, <1>9, SumEqual

LEMMA EndTrieCosts ==
  ASSUME EngineInv, NEW t \in Threads, EndTrie(t), CostFits(t)
  PROVE  CostFits(t)'
<1> DEFINE r == req[t]
           n == Current(r)
           marks == Marks(r.cands[n], nodes)
           evaluated == SuffixLen(r, n) + ProbeTokens(r, n)
           read == [n |-> n, marks |-> marks, evaluated |-> evaluated]
<1>1. /\ owner = t /\ pc[t] = "probes" /\ pc[t] \in Forked /\ ProbesLeft(r) = {}
      /\ pc' = [pc EXCEPT ![t] = "rounds"]
      /\ UNCHANGED <<req, plan, round, next, start, work>>
  BY DEF EndTrie, At, Goto, Forked
<1>2. readings' = readings \cup {read}
  BY DEF EndTrie
<1>3. /\ IsRequest(r) /\ ~HasEmptyPrompt(r) /\ pc'[t] = "rounds" /\ Unread(r) # {}
  BY <1>1, AccountTypes DEF TypeOK, Holding, RoundFits
<1>4. read.n = n /\ read.evaluated = Cost(r, n)
  BY DEF Cost
<1>. HIDE DEF read, evaluated, marks
<1>5. n \in DOMAIN r.prompts /\ n \notin Taken
  BY <1>3, CurrentUnread
<1>6. Taken' = Taken \cup {n}
  BY <1>2, <1>4 DEF Taken
<1>7. Met \subseteq Tree(r) /\ next > Len(Single(r))
  BY <1>1 DEF CostFits, ProbesAhead, RoundsAhead
<1>8. Underway(t) = Cost(r, n) /\ Underway(t)' = 0
  <2>1. Underway(t) = SuffixLen(r, n) + SumFunctionOnSet(Depths(r), Met)
    BY <1>1 DEF Underway
  <2>2. Underway(t)' = 0
    BY <1>3 DEF Underway
  <2>. QED
    BY <1>1, <1>3, <1>7, <2>1, <2>2, AllMet DEF Cost
<1>. HIDE DEF n
<1>9. /\ SumFunctionOnSet(Costs(r), Taken') = Cost(r, n) + SumFunctionOnSet(Costs(r), Taken)
      /\ SumFunctionOnSet(Costs(r), Taken) \in Nat /\ Cost(r, n) \in Nat
  <2>1. /\ IsFiniteSet(Taken) /\ NatOn(Costs(r), DOMAIN r.prompts)
        /\ Taken \subseteq DOMAIN r.prompts /\ SumFunctionOnSet(Costs(r), Taken) \in Nat
    BY <1>1, AccountTypes
  <2>2. NatOn(Costs(r), Taken \cup {n})
    BY <1>5, <2>1 DEF NatOn
  <2>3. SumFunctionOnSet(Costs(r), Taken \cup {n})
           = Costs(r)[n] + SumFunctionOnSet(Costs(r), Taken)
    BY <1>5, <2>1, <2>2, SumWith
  <2>4. Costs(r)[n] = Cost(r, n)
    BY <1>5 DEF Costs
  <2>. QED
    BY <1>5, <1>6, <2>1, <2>3, <2>4 DEF NatOn
<1>10. Accounted(t)'
  <2>1. PICK s, h, w, e, c : /\ s = SumFunctionOnSet(Costs(r), Taken) /\ h = Shared(r)
                             /\ w = work /\ e = Cost(r, n) /\ c = Cardinality(plan)
    OBVIOUS
  <2>2. s \in Nat /\ h \in Nat /\ start \in Nat /\ e \in Nat
    BY <1>1, <1>9, <2>1, AccountTypes
  <2>3. w + c = (h - start) + s + e
    BY <1>8, <2>1 DEF CostFits, Accounted
  <2>4. w + c = (h - start) + (e + s) + 0
    BY <2>2, <2>3
  <2>5. /\ work' = w /\ Cardinality(plan') = c /\ start' = start /\ Shared(r)' = h
        /\ SumFunctionOnSet(Costs(r), Taken') = e + s /\ Underway(t)' = 0
    BY <1>1, <1>8, <1>9, <2>1
  <2>6. \A x \in readings' : x.evaluated = Cost(r, x.n)
    BY <1>2, <1>4 DEF CostFits, Accounted
  <2>7. start \in 0 .. Shared(r)
    BY DEF CostFits, Accounted
  <2>. QED
    BY <1>1, <2>1, <2>4, <2>5, <2>6, <2>7 DEF Accounted
<1>11. RoundsAhead(t)'
  <2>1. next' = next /\ req'[t] = r
    BY <1>1
  <2>2. next \in Nat /\ Len(Single(r)) \in Nat
    BY <1>1, <1>3, AccountTypes, SingleType DEF TypeOK
  <2>3. \A i \in next .. Len(Single(r)) : FALSE
    BY <1>7, <2>2
  <2>. QED
    BY <1>3, <1>7, <2>1, <2>3 DEF RoundsAhead
<1>12. ProbesAhead(t)'
  BY <1>3 DEF ProbesAhead
<1>. QED
  BY <1>10, <1>11, <1>12 DEF CostFits

\* A call that is not inside goes elsewhere.
LEMMA OutsideCosts ==
  ASSUME EngineInv, CostInv, NEW s \in Threads,
         Prepare(s) \/ TokenizerFails(s) \/ \E r \in Requests : Ask(s, r),
         NEW t \in Threads, owner' = t, pc'[t] \in {"prefill"} \cup Forked
  PROVE  CostFits(t)'
<1>1. UNCHANGED <<owner, frame>> /\ pc'[t] = pc[t] /\ req'[t] = req[t]
  BY StepsOutside
<1>2. CostFits(t)
  BY <1>1 DEF CostInv
<1>3. UNCHANGED <<round, next, start, nodes, readings>> /\ UNCHANGED <<work, plan>>
  BY <1>1 DEF frame
<1>. QED
  BY <1>1, <1>2, <1>3, CostKept

LEMMA CostsKeep == EngineInv /\ CostInv /\ [Next]_vars => CostInv'
<1> SUFFICES ASSUME EngineInv, CostInv, [Next]_vars, NEW t \in Threads, owner' = t,
                    pc'[t] \in {"prefill"} \cup Forked
             PROVE  CostFits(t)'
  BY DEF CostInv
<1>1. TypeOK /\ t # None
  BY EngineAssumption DEF EngineInv
<1>2. CASE UNCHANGED vars
  <2>1. /\ pc' = pc /\ req' = req /\ owner' = owner
        /\ UNCHANGED <<round, next, start, nodes, readings, work, plan>>
    BY <1>2 DEF vars, frame
  <2>2. CostFits(t)
    BY <2>1 DEF CostInv
  <2>. QED
    BY <2>1, <2>2, CostKept
<1>3. ASSUME NEW s \in Threads, Step(s) PROVE CostFits(t)'
  <2>1. CASE TakeLabels(s)
    <3>1. owner' = None
      BY <2>1, ReturnsFree DEF TakeLabels
    <3>. QED
      BY <1>1, <3>1
  <2>2. CASE Prepare(s) \/ TokenizerFails(s)
    BY <2>2, OutsideCosts
  <2>3. ASSUME owner = s, owner' = owner PROVE CostFits(t) \/ pc[t] \notin {"prefill"} \cup Forked
    BY <2>3 DEF CostInv
  <2>4. CASE DecodeWindow(s)
    <3>1. s = t /\ owner = t /\ pc'[t] = pc[t]
      BY <2>4 DEF DecodeWindow
    <3>2. CostFits(t)
      BY <3>1 DEF CostInv
    <3>. QED
      BY <2>4, <3>1, <3>2, DecodeWindowCosts
  <2>5. CASE PrefillFails(s) \/ ForksFail(s) \/ ReadingFails(s) \/ EndScore(s) \/ EndTail(s)
    <3>1. owner = s /\ \E a : Return(s, a)
      BY <2>5 DEF PrefillFails, ForksFail, ReadingFails, EndScore, EndTail, Done, At, Fails
    <3>2. owner' = None
      BY <3>1, ReturnsFree
    <3>. QED
      BY <1>1, <3>2
  <2>6. CASE BeginScore(s)
    <3>1. s = t
      BY <2>6 DEF BeginScore
    <3>. QED
      BY <2>6, <3>1, BeginScoreCosts
  <2>7. ASSUME \E l \in {"prefill"} \cup Forked : At(s, l) PROVE owner = s /\ CostFits(s)
    BY <2>7 DEF At, CostInv
  <2>8. CASE EndPrefill(s) \/ StartRound(s) \/ EndRound(s) \/ StartRoot(s)
    <3>1. owner = s /\ CostFits(s)
      BY <2>7, <2>8 DEF EndPrefill, StartRound, EndRound, StartRoot, Forked
    <3>2. owner' \in {s, None}
      BY <2>8, <3>1 DEF EndPrefill, StartRound, EndRound, StartRoot, Return, LetGo
    <3>3. s = t
      BY <1>1, <3>2
    <3>. QED
      BY <2>8, <3>1, <3>3, EndPrefillCosts, StartRoundCosts, EndRoundCosts, StartRootCosts
  <2>9. CASE EndRoot(s) \/ StartProbes(s) \/ EndProbes(s) \/ EndTrie(s)
    <3>1. owner = s /\ CostFits(s)
      BY <2>7, <2>9 DEF EndRoot, StartProbes, EndProbes, EndTrie, Forked
    <3>2. owner' \in {s, None}
      BY <2>9, <3>1 DEF EndRoot, StartProbes, EndProbes, EndTrie, Return, LetGo
    <3>3. s = t
      BY <1>1, <3>2
    <3>. QED
      BY <2>9, <3>1, <3>3, EndRootCosts, StartProbesCosts, EndProbesCosts, EndTrieCosts
  <2>10. CASE BeginControl(s) \/ BeginSplit(s)
    <3>1. owner = None
      BY <2>10 DEF BeginControl, BeginSplit
    <3>2. (\E a : Return(s, a)) \/ (owner' = s /\ pc'[s] \in {"whole", "head"})
      BY <1>1, <2>10 DEF BeginControl, BeginSplit, Goto, TypeOK
    <3>3. owner' = None \/ (owner' = s /\ pc'[s] \in {"whole", "head"})
      BY <3>1, <3>2, ReturnsFree
    <3>. QED
      BY <1>1, <3>3 DEF Forked
  <2>11. CASE EndWhole(s) \/ EndHead(s)
    <3>1. owner = s
      BY <2>11 DEF EndWhole, EndHead, At
    <3>2. (\E a : Return(s, a)) \/ (owner' = s /\ pc'[s] \in {"whole", "tail"})
      BY <1>1, <2>11 DEF EndWhole, EndHead, At, Goto, TypeOK
    <3>3. owner' = None \/ (owner' = s /\ pc'[s] \in {"whole", "tail"})
      BY <3>1, <3>2, ReturnsFree
    <3>. QED
      BY <1>1, <3>3 DEF Forked
  <2>. QED
    BY <1>3, <2>1, <2>2, <2>4, <2>5, <2>6, <2>8, <2>9, <2>10, <2>11 DEF Step
<1>4. CASE Next
  <2>1. PICK s \in Threads : Step(s) \/ \E r \in Requests : Ask(s, r)
    BY <1>4 DEF Next
  <2>. QED
    BY <1>3, <2>1, OutsideCosts
<1>. QED
  BY <1>2, <1>4

\* The account of a finished call is its answer's.
LEMMA AccountIsHonest ==
  ASSUME EngineInv, CostInv PROVE CostHonest
<1> SUFFICES ASSUME NEW t \in Threads, Done(t)
             PROVE  LET r == req[t]
                        s == Scores(r)
                    IN  /\ SumFunction([n \in DOMAIN s |-> s[n].prompt_evaluated]) = work
                        /\ \A n \in DOMAIN s : OneToken(r, n) =>
                              s[n].prompt_evaluated + s[n].prompt_cached = Len(r.prompts[n])
  BY DEF CostHonest
<1> DEFINE r == req[t]
           s == Scores(r)
           D == DOMAIN r.prompts
           h == [n \in DOMAIN s |-> s[n].prompt_evaluated]
           g == [n \in D |-> Charged(r, n)]
<1>1. owner = t /\ pc[t] = "rounds" /\ pc[t] \in Forked /\ plan = {} /\ Unread(r) = {}
  BY BetweenDecodes DEF Done, At, Forked
<1>2. CostFits(t)
  BY <1>1 DEF CostInv
<1>3. /\ IsRequest(r) /\ ~HasEmptyPrompt(r) /\ TypeOK
      /\ Shared(r) \in Nat /\ start \in Nat /\ start <= Shared(r)
      /\ Taken \subseteq D /\ IsFiniteSet(D) /\ NatOn(Costs(r), D)
  BY <1>1, <1>2, AccountTypes
<1>4. Taken = D
  BY <1>1, <1>3 DEF Unread, Taken
<1>5. Underway(t) = 0 /\ Cardinality(plan) = 0
  BY <1>1, FS_EmptySet DEF Underway
<1>6. work = (Shared(r) - start) + SumFunctionOnSet(Costs(r), D)
  <2>1. SumFunctionOnSet(Costs(r), D) \in Nat
    BY <1>3, SumType
  <2>2. PICK c, a, w : c = SumFunctionOnSet(Costs(r), D) /\ a = Shared(r) /\ w = work
    OBVIOUS
  <2>3. w + 0 = (a - start) + c + 0
    BY <1>2, <1>4, <1>5, <2>2 DEF CostFits, Accounted
  <2>4. w \in Nat /\ a \in Nat /\ start \in Nat /\ c \in Nat
    BY <1>3, <2>1, <2>2 DEF TypeOK
  <2>5. w = (a - start) + c
    BY <2>3, <2>4
  <2>. QED
    BY <2>2, <2>5
<1>7. DOMAIN s = D
  BY DEF Scores
<1>8. ASSUME NEW n \in D
      PROVE  /\ s[n].prompt_evaluated = Cost(r, n) + Charged(r, n)
             /\ s[n].prompt_cached = IF n = 1 THEN start ELSE Shared(r)
  <2> DEFINE x == CHOOSE y \in readings : y.n = n
  <2>1. x \in readings /\ x.n = n
    <3>1. \E y \in readings : y.n = n
      BY <1>4 DEF Taken
    <3>. QED
      BY <3>1
  <2>2. x.evaluated = Cost(r, n)
    BY <1>2, <2>1 DEF CostFits, Accounted
  <2>3. s[n] = [marks |-> x.marks, prompt_evaluated |-> x.evaluated + Charged(r, n),
                prompt_cached |-> IF n = 1 THEN start ELSE Shared(r)]
    BY Zenon DEF Scores
  <2>. HIDE DEF x
  <2>4. PICK m, e, c : m = x.marks /\ e = x.evaluated + Charged(r, n)
                       /\ c = IF n = 1 THEN start ELSE Shared(r)
    OBVIOUS
  <2>5. s[n] = [marks |-> m, prompt_evaluated |-> e, prompt_cached |-> c]
    BY <2>3, <2>4, Zenon
  <2>. HIDE DEF s
  <2>6. s[n].prompt_evaluated = e /\ s[n].prompt_cached = c
    BY <2>5
  <2>. QED
    BY <2>2, <2>4, <2>6
<1>. HIDE DEF s
<1>9. \A n \in D : Charged(r, n) \in Nat /\ (n # 1 => Charged(r, n) = 0)
  <2>1. Shared(r) - start \in Nat
    <3>1. PICK a, b : a = Shared(r) /\ b = start
      OBVIOUS
    <3>2. a - b \in Nat
      BY <1>3, <3>1
    <3>. QED
      BY <3>1, <3>2
  <2>. QED
    BY <2>1 DEF Charged
<1>10. 1 \in D /\ Charged(r, 1) = Shared(r) - start
  <2>1. 1 \in D
    BY <1>3 DEF IsRequest
  <2>. QED
    BY <2>1 DEF Charged
<1>11. SumFunction(h) = work
  <2>1. PICK H, G, C : H = h /\ G = g /\ C = Costs(r)
    OBVIOUS
  <2>2. \A n \in D : G[n] = Charged(r, n) /\ C[n] = Cost(r, n) /\ H[n] = Cost(r, n) + Charged(r, n)
    BY <1>7, <1>8, <2>1 DEF Costs
  <2>3. SumFunction(h) = SumFunctionOnSet(H, D)
    <3>1. DOMAIN h = D
      BY <1>7
    <3>. QED
      BY <2>1, <3>1, Zenon DEF SumFunction
  <2>. HIDE DEF h, g, D
  <2>4. NatOn(C, D) /\ NatOn(G, D) /\ \A n \in D : H[n] = C[n] + G[n]
    BY <1>3, <1>9, <2>1, <2>2 DEF NatOn
  <2>5. SumFunctionOnSet(H, D) = SumFunctionOnSet(C, D) + SumFunctionOnSet(G, D)
    BY <1>3, <2>4, SumPlus
  <2>6. SumFunctionOnSet(G, D) = Shared(r) - start
    <3>1. 1 \in D /\ G[1] \in Nat /\ G[1] = Shared(r) - start /\ \A n \in D : n # 1 => G[n] = 0
      BY <1>9, <1>10, <2>2
    <3>. QED
      BY <1>3, <3>1, SumSingle
  <2>7. PICK c, d : c = SumFunctionOnSet(C, D) /\ d = Shared(r) - start
    OBVIOUS
  <2>8. c \in Nat /\ d \in Nat
    BY <1>3, <1>9, <1>10, <2>1, <2>7, SumType
  <2>9. c + d = d + c
    BY <2>8
  <2>. QED
    BY <1>6, <2>1, <2>3, <2>5, <2>6, <2>7, <2>9
<1>12. ASSUME NEW n \in D, OneToken(r, n)
       PROVE  s[n].prompt_evaluated + s[n].prompt_cached = Len(r.prompts[n])
  <2>1. Cost(r, n) = Len(r.prompts[n]) - Shared(r)
    BY <1>3, <1>12, CostType
  <2>2. PICK l, a, e, c, k : /\ l = Len(r.prompts[n]) /\ a = Shared(r) /\ k = Charged(r, n)
                             /\ e = s[n].prompt_evaluated /\ c = s[n].prompt_cached
    OBVIOUS
  <2>3. l \in Nat /\ a \in Nat /\ start \in Nat
    BY <1>3, <2>2, RequestParts
  <2>4. e = (l - a) + k /\ c = (IF n = 1 THEN start ELSE a)
        /\ k = (IF n = 1 THEN a - start ELSE 0)
    BY <1>8, <2>1, <2>2 DEF Charged
  <2>5. e + c = l
    BY <2>3, <2>4
  <2>. QED
    BY <2>2, <2>5
<1>13. \A n \in DOMAIN Scores(r) : OneToken(r, n) =>
          Scores(r)[n].prompt_evaluated + Scores(r)[n].prompt_cached = Len(r.prompts[n])
  BY <1>7, <1>12 DEF s
<1>14. SumFunction([n \in DOMAIN Scores(r) |-> Scores(r)[n].prompt_evaluated]) = work
  BY <1>11, Zenon DEF s, h
<1>. QED
  BY <1>13, <1>14, Zenon

\* The cost of every answer is the work done for it, whatever was decoded
\* for the call, kept from the last one or shared between its prompts.
THEOREM CostsAreHonest == SafeSpec => []CostHonest
<1>1. Init => CostInv
  <2>1. Init => owner = None
    BY DEF Init
  <2>. QED
    BY <2>1, EngineAssumption DEF CostInv
<1>2. EngineInv /\ CostInv /\ [Next]_vars => CostInv'
  BY CostsKeep
<1>3. EngineInv /\ CostInv => CostHonest
  BY AccountIsHonest
<1>. QED
  BY <1>1, <1>2, <1>3, Invariant, PTL DEF SafeSpec

------------------------------------------------------------------------------
(* Under the polygraph: the engine's invariant holds of the engine as the  *)
(* polygraph drives it, so a call that is answered is answered with the    *)
(* reading of what was asked (StepEnds); and what was asked last is the    *)
(* reading the stage names, of the fingerprint the table stops before      *)
(* (AskedNow, InOrder).                                                    *)

Asking == {"forked", "control", "split"}

\* The call a stage has made.
AskedNow ==
    CASE stage = "forked" -> Case
      [] stage = "control" -> ControlCall(Case, nth)
      [] stage = "split" -> SplitCall(Case, nth)

\* The row fingerprint k of case i should have.
RowOf(i, k) ==
    LET truth == Reference(battery[i])[k]
    IN  [case |-> i, n |-> k, forked |-> truth, split |-> truth, control |-> truth]
RightRows == {RowOf(i, k) : i \in Nat, k \in Nat}

\* What the driver keeps between its calls.
DriverFits ==
    /\ battery \in Batteries \cup {<<>>}
    /\ stage \in {"start", "done"} \cup Asking
    /\ stage # "start" => command = "polygraph"
    /\ stage = "start" => case = 1 /\ table = <<>>
    /\ stage \in Asking => case \in DOMAIN battery
    /\ stage \in {"control", "split"} =>
          /\ nth \in DOMAIN Case.prompts
          /\ [k \in DOMAIN forked |-> forked[k].marks] = Reference(Case)
    /\ stage = "split" => control = Reference(Case)[nth]
    /\ table \in Seq(RightRows)

\* The rows are in order, and the fingerprint being read is the next one.
InOrder ==
    /\ \A i \in DOMAIN table : <<table[i].case, table[i].n>> = ComesAfter(i - 1)
    /\ stage \in {"start", "forked"} => ComesAfter(Len(table)) = <<case, 1>>
    /\ stage \in {"control", "split"} => ComesAfter(Len(table)) = <<case, nth>>
    /\ stage = "done" => ComesAfter(Len(table)) = <<Len(battery) + 1, 1>>

\* A thread is in the call of its stage, or has the reading it asked for; a
\* split reading alone may be refused without ending the run.
Reads(a, r) ==
    \E scores : a = Scored(scores) /\ [k \in DOMAIN scores |-> scores[k].marks] = Reference(r)
AnswersFit ==
    stage \in Asking =>
        \A t \in Threads :
            /\ pc[t] # "idle" => req[t] = AskedNow
            /\ pc[t] = "idle" /\ alive =>
                  Reads(answer[t], AskedNow) \/ (stage = "split" /\ answer[t] = Rejected)

PolygraphInv == EngineInv /\ DriverFits /\ InOrder /\ AnswersFit

------------------------------------------------------------------------------
(* What the driver asks.                                                   *)

\* The cases are requests of score_many, their readings requests too.
LEMMA CaseRequests ==
  ASSUME DriverFits, NEW i \in DOMAIN battery
  PROVE  /\ battery \in Seq(Requests) /\ battery[i] \in Requests
         /\ battery[i].kind = "score" /\ IsRequest(battery[i])
         /\ DOMAIN battery[i].prompts = 1 .. Len(battery[i].prompts)
         /\ Len(battery[i].prompts) \in Nat \ {0}
         /\ \A k \in DOMAIN battery[i].prompts :
               /\ ControlCall(battery[i], k) \in Requests
               /\ SplitCall(battery[i], k) \in Requests
<1>1. battery \in Batteries
  <2>1. DOMAIN <<>> = {}
    OBVIOUS
  <2>. QED
    BY <2>1 DEF DriverFits
<1>2. battery \in Seq(Requests)
  BY <1>1, BatteryAssumption
<1>3. battery[i] \in Requests /\ battery[i] \in Range(battery)
  BY <1>2 DEF Range
<1>4. IsRequest(battery[i])
  BY <1>3, RequestAssumption
<1>5. battery[i].prompts \in Seq(Seq(Token)) /\ battery[i].prompts # <<>>
  BY <1>4 DEF IsRequest
<1>6. /\ DOMAIN battery[i].prompts = 1 .. Len(battery[i].prompts)
      /\ Len(battery[i].prompts) \in Nat \ {0}
  BY <1>5
<1>. QED
  BY <1>1, <1>2, <1>3, <1>4, <1>6, BatteryAssumption

\* A reading of one fingerprint is worth what the case's answer says of it.
LEMMA OneOfReference ==
  ASSUME NEW kind, NEW r, NEW k \in DOMAIN r.prompts, NEW at
  PROVE  Reference(OneOf(kind, r, k, at))[1] = Reference(r)[k]
<1> DEFINE o == OneOf(kind, r, k, at)
<1>1. DOMAIN o.prompts = {1} /\ o.prompts[1] = r.prompts[k] /\ o.cands[1] = r.cands[k]
  BY DEF OneOf
<1>2. Reference(o)[1] =
         Marks(o.cands[1], {[node |-> p, ctx |-> Placed(o.prompts[1] \o p)]
                            : p \in Nodes(Range(o.cands[1]))})
  BY <1>1 DEF Reference
<1>3. Reference(r)[k] =
         Marks(r.cands[k], {[node |-> p, ctx |-> Placed(r.prompts[k] \o p)]
                            : p \in Nodes(Range(r.cands[k]))})
  BY DEF Reference
<1>. QED
  BY <1>1, <1>2, <1>3

\* What of the reading of one fingerprint the driver keeps.
LEMMA MarkedIsReference ==
  ASSUME NEW kind, NEW r, NEW k \in DOMAIN r.prompts, NEW at, NEW a,
         Reads(a, OneOf(kind, r, k, at))
  PROVE  a.scores[1].marks = Reference(r)[k]
<1> DEFINE o == OneOf(kind, r, k, at)
<1>1. PICK scores : /\ a = Scored(scores)
                    /\ [j \in DOMAIN scores |-> scores[j].marks] = Reference(o)
  BY DEF Reads
<1>2. DOMAIN Reference(o) = {1}
  <2>1. DOMAIN o.prompts = {1}
    BY DEF OneOf
  <2>. QED
    BY <2>1 DEF Reference
<1>3. DOMAIN scores = {1}
  BY <1>1, <1>2
<1>4. scores[1].marks = Reference(o)[1]
  BY <1>1, <1>3
<1>5. a.scores = scores
  BY <1>1 DEF Scored
<1>. QED
  BY <1>4, <1>5, OneOfReference

\* The polygraph is on one thread, and drives it between calls.
LEMMA OneThread ==
  ASSUME EngineInv, command = "polygraph", NEW t \in Threads
  PROVE  /\ \A u \in Threads : u = t
         /\ pc[t] = "idle" => owner = None
<1>1. \A u \in Threads : u = t
  BY EngineAssumption DEF EngineInv, TypeOK
<1>2. ASSUME pc[t] = "idle" PROVE owner = None
  <2>1. owner # t
    BY <1>2 DEF EngineInv, TypeOK, Inside
  <2>. QED
    BY <1>1, <2>1 DEF EngineInv, TypeOK
<1>. QED
  BY <1>1, <1>2

------------------------------------------------------------------------------
(* The engine's invariant, under the polygraph's steps.                    *)

\* The run ends on an error of the driver's own.
GivesUp ==
    /\ command = "polygraph" /\ alive' = FALSE /\ \A t \in Threads : pc[t] = "idle"
    /\ UNCHANGED <<command, inner, owner, pc, req, answer, frame, driver>>

LEMMA GivingUpKeeps ==
  ASSUME EngineInv, GivesUp
  PROVE  EngineInv'
<1> USE DEF GivesUp, inner, frame
<1>1. owner = None
  <2>1. \A t \in Threads : owner # t
    BY DEF EngineInv, TypeOK, Inside
  <2>. QED
    BY <2>1 DEF EngineInv, TypeOK
<1>2. TypeOK'
  BY DEF EngineInv, TypeOK
<1>3. AtRest' /\ Ended'
  BY <1>1 DEF EngineInv, AtRest, Ended
<1>4. \A t \in Threads : CallFits(t)'
  BY DEF EngineInv, CallFits, Limited, Forked, Trial, Cut
<1>5. \A t \in Threads : owner' # t
  BY <1>1, EngineAssumption
<1>6. IsFiniteSet(plan)' /\ (DOMAIN answer = Threads)' /\ (answer = [t \in Threads |-> answer[t]])'
  BY DEF EngineInv
<1>. QED
  BY <1>2, <1>3, <1>4, <1>5, <1>6 DEF EngineInv

\* What the driver asks is a request: the engine takes a step of its own.
LEMMA DriverAsks ==
  ASSUME EngineInv, DriverFits, NEW t \in Threads, NEW r \in Requests, Ask(t, r),
         UNCHANGED command
  PROVE  Next
BY DEF Next

LEMMA ReadCaseSteps ==
  ASSUME EngineInv, DriverFits, NEW t \in Threads, NEW i \in Nat \ {0}, ReadCase(t, i),
         UNCHANGED command
  PROVE  Next \/ UNCHANGED vars
<1>1. Len(battery) \in Nat /\ DOMAIN battery = 1 .. Len(battery)
  <2>1. <<>> \in Seq(Requests)
    OBVIOUS
  <2>2. battery \in Seq(Requests)
    BY <2>1, BatteryAssumption DEF DriverFits
  <2>. QED
    BY <2>2
<1>2. CASE i <= Len(battery)
  <2>1. i \in DOMAIN battery
    BY <1>1, <1>2
  <2>2. battery[i] \in Requests
    BY <2>1, CaseRequests
  <2>. QED
    BY <1>2, <2>2, DriverAsks DEF ReadCase
<1>3. CASE ~ (i <= Len(battery))
  BY <1>3 DEF ReadCase
<1>. QED
  BY <1>2, <1>3

LEMMA DriveSteps ==
  ASSUME EngineInv, DriverFits, command = "polygraph", Drive, UNCHANGED command
  PROVE  Next \/ UNCHANGED vars \/ GivesUp
<1>1. PICK t \in Threads :
         StartPolygraph(t) \/ KeepForked(t) \/ CutFails(t) \/ KeepControl(t) \/ PushRow(t)
  BY DEF Drive
<1>2. CASE StartPolygraph(t)
  BY <1>2, ReadCaseSteps DEF StartPolygraph
<1>3. ASSUME stage \in Asking
      PROVE  /\ Case \in Requests /\ case \in Nat \ {0}
             /\ DOMAIN Case.prompts = 1 .. Len(Case.prompts)
             /\ Len(Case.prompts) \in Nat \ {0}
             /\ \A k \in DOMAIN Case.prompts :
                   ControlCall(Case, k) \in Requests /\ SplitCall(Case, k) \in Requests
  <2>1. PICK i : i = case
    OBVIOUS
  <2>2. i \in DOMAIN battery
    BY <1>3, <2>1 DEF DriverFits
  <2>3. battery \in Seq(Requests)
    BY <2>2, CaseRequests
  <2>. QED
    BY <2>1, <2>2, <2>3, CaseRequests DEF Case
<1>4. CASE KeepForked(t)
  <2>1. stage \in Asking
    BY <1>4 DEF KeepForked, Answered, Asking
  <2>2. 1 \in DOMAIN Case.prompts
    BY <1>3, <2>1
  <2>3. ControlCall(Case, 1) \in Requests
    BY <1>3, <2>1, <2>2
  <2>4. Ask(t, ControlCall(Case, 1))
    BY <1>4 DEF KeepForked
  <2>. QED
    BY <2>3, <2>4 DEF Next
<1>5. CASE CutFails(t)
  BY <1>5, OneThread DEF CutFails, Answered, GivesUp
<1>6. CASE KeepControl(t)
  <2>1. stage = "control"
    BY <1>6 DEF KeepControl, Answered
  <2>2. nth \in DOMAIN Case.prompts
    BY <2>1 DEF DriverFits
  <2>3. SplitCall(Case, nth) \in Requests
    BY <1>3, <2>1, <2>2 DEF Asking
  <2>4. Ask(t, SplitCall(Case, nth))
    BY <1>6 DEF KeepControl
  <2>. QED
    BY <2>3, <2>4 DEF Next
<1>7. CASE PushRow(t)
  <2>1. stage = "split"
    BY <1>7 DEF PushRow, Answered
  <2>2. nth \in DOMAIN Case.prompts
    BY <2>1 DEF DriverFits
  <2>3. CASE nth < Len(Case.prompts)
    <3>1. nth + 1 \in DOMAIN Case.prompts
      BY <1>3, <2>1, <2>2, <2>3 DEF Asking
    <3>2. ControlCall(Case, nth + 1) \in Requests
      BY <1>3, <2>1, <3>1 DEF Asking
    <3>3. Ask(t, ControlCall(Case, nth + 1))
      BY <1>7, <2>3 DEF PushRow
    <3>. QED
      BY <3>2, <3>3 DEF Next
  <2>4. CASE ~ (nth < Len(Case.prompts))
    <3>1. ReadCase(t, case + 1)
      BY <1>7, <2>4 DEF PushRow
    <3>2. case + 1 \in Nat \ {0}
      BY <1>3, <2>1 DEF Asking
    <3>3. PICK i \in Nat \ {0} : i = case + 1
      BY <3>2
    <3>4. ReadCase(t, i)
      BY <3>1, <3>3 DEF ReadCase
    <3>. QED
      BY <3>4, ReadCaseSteps
  <2>. QED
    BY <2>3, <2>4
<1>. QED
  BY <1>1, <1>2, <1>4, <1>5, <1>6, <1>7

\* A step of the polygraph is one of the engine's, or the end of the run.
LEMMA PolygraphSteps ==
  ASSUME EngineInv, DriverFits, [PolygraphNext]_polygraphVars
  PROVE  [Next]_vars \/ GivesUp
<1>1. CASE UNCHANGED polygraphVars
  BY <1>1 DEF polygraphVars
<1>2. CASE Engine(LAMBDA t : TRUE)
  BY <1>2 DEF Engine, Next
<1>3. CASE Serve
  BY <1>3 DEF Serve, Next
<1>4. CASE command = "polygraph" /\ Drive /\ UNCHANGED command
  BY <1>4, DriveSteps
<1>. QED
  BY <1>1, <1>2, <1>3, <1>4 DEF PolygraphNext

LEMMA EngineKept ==
  ASSUME EngineInv, DriverFits, [PolygraphNext]_polygraphVars
  PROVE  EngineInv'
BY PolygraphSteps, GivingUpKeeps, NextKeeps

------------------------------------------------------------------------------
(* The calls and their answers.                                            *)

\* A call the driver makes is the one of its stage.
LEMMA AskFits ==
  ASSUME EngineInv, command = "polygraph", NEW t \in Threads, NEW r \in Requests, Ask(t, r),
         stage' \in Asking => AskedNow' = r
  PROVE  AnswersFit'
<1>1. \A u \in Threads : u = t
  BY OneThread
<1>2. pc'[t] # "idle" /\ req'[t] = r
  <2>1. r.kind \in {"score", "control", "split"}
    BY RequestAssumption DEF IsRequest
  <2>. QED
    BY <2>1 DEF Ask, Goto, EngineInv, TypeOK
<1>. QED
  BY <1>1, <1>2 DEF AnswersFit

\* A call in progress is answered right, or refused if it is a split reading,
\* or the run is over.
LEMMA EngineFits ==
  ASSUME EngineInv, DriverFits, AnswersFit, NEW t \in Threads, Step(t),
         UNCHANGED <<command, driver>>
  PROVE  AnswersFit'
<1> SUFFICES ASSUME stage \in Asking
             PROVE  AnswersFit'
  BY DEF AnswersFit, driver
<1>1. command = "polygraph" /\ \A u \in Threads : u = t
  <2>1. command = "polygraph"
    BY DEF DriverFits, Asking
  <2>. QED
    BY <2>1, OneThread
<1>2. pc[t] # "idle" /\ alive = TRUE
  BY StepsInCall, InCall
<1>3. req[t] = AskedNow /\ req[t] # NoRequest
  BY <1>2, InCall DEF AnswersFit
<1>4. AskedNow' = AskedNow
  BY DEF AskedNow, Case, driver
<1>5. SUFFICES /\ pc'[t] # "idle" => req'[t] = AskedNow
               /\ pc'[t] = "idle" /\ alive' =>
                     Reads(answer'[t], AskedNow) \/ (stage = "split" /\ answer'[t] = Rejected)
  BY <1>1, <1>4 DEF AnswersFit, driver
<1>6. CASE UNCHANGED <<req, answer>>
  <2>1. TypeOK'
    <3>1. Next
      BY DEF Next
    <3>. QED
      BY <3>1, NextKeeps DEF EngineInv
  <2>2. pc'[t] # "idle"
    BY <1>3, <1>6, <2>1 DEF TypeOK
  <2>. QED
    BY <1>3, <1>6, <2>2
<1>7. ASSUME NEW a, Return(t, a)
      PROVE  /\ pc'[t] = "idle" /\ answer'[t] = a
             /\ alive' => a.status = "scored" \/ (a.status = "rejected" /\ req[t].kind = "split")
  BY <1>1, <1>7 DEF Return, Goto, EngineInv, TypeOK
<1>8. CASE Return(t, Failed)
  <2>1. Failed.status = "failed"
    BY DEF Failed
  <2>. QED
    BY <1>7, <1>8, <2>1
<1>9. CASE Refused(t)
  <2>1. Return(t, Rejected)
    BY <1>9 DEF Refused
  <2>2. Rejected.status = "rejected"
    BY DEF Rejected
  <2>3. stage # "split" => req[t].kind # "split"
    <3>1. stage = "forked" => AskedNow.kind = "score"
      <4>1. ASSUME stage = "forked" PROVE AskedNow.kind = "score"
        <5>1. AskedNow = battery[case] /\ case \in DOMAIN battery
          BY <4>1 DEF AskedNow, Case, DriverFits, Asking
        <5>. QED
          BY <5>1, CaseRequests
      <4>. QED
        BY <4>1
    <3>2. stage = "control" => AskedNow.kind = "control"
      BY DEF AskedNow, ControlCall, OneOf
    <3>. QED
      BY <1>3, <3>1, <3>2 DEF Asking
  <2>. QED
    BY <1>7, <2>1, <2>2, <2>3
<1>10. CASE AnsweredRight(t)
  <2>1. PICK scores : /\ Return(t, Scored(scores))
                      /\ [k \in DOMAIN scores |-> scores[k].marks] = Reference(req[t])
    BY <1>10 DEF AnsweredRight
  <2>. QED
    BY <1>3, <1>7, <2>1 DEF Reads
<1>. QED
  BY <1>6, <1>8, <1>9, <1>10, StepEnds

------------------------------------------------------------------------------
(* The driver's steps.                                                     *)

\* The next case is asked, or the run is done.
LEMMA ReadCaseFits ==
  ASSUME EngineInv, DriverFits, command = "polygraph", UNCHANGED <<command, battery>>,
         NEW t \in Threads, NEW i \in Nat \ {0}, i <= Len(battery) + 1, ReadCase(t, i),
         table' \in Seq(RightRows),
         \A k \in DOMAIN table' : <<table[k].case, table[k].n>>' = ComesAfter(k - 1)',
         ComesAfter(Len(table))' = <<i, 1>>
  PROVE  DriverFits' /\ InOrder' /\ AnswersFit'
<1>1. Len(battery) \in Nat /\ DOMAIN battery = 1 .. Len(battery)
  <2>1. <<>> \in Seq(Requests)
    OBVIOUS
  <2>2. battery \in Seq(Requests)
    BY <2>1, BatteryAssumption DEF DriverFits
  <2>. QED
    BY <2>2
<1>2. RightRows' = RightRows
  BY DEF RightRows, RowOf
<1>3. CASE i <= Len(battery)
  <2>1. Ask(t, battery[i]) /\ stage' = "forked" /\ case' = i
    BY <1>3 DEF ReadCase
  <2>2. i \in DOMAIN battery
    BY <1>1, <1>3
  <2>3. battery[i] \in Requests
    BY <2>2, CaseRequests
  <2>4. DriverFits'
    BY <1>2, <2>1, <2>2 DEF DriverFits, Asking
  <2>5. InOrder'
    BY <2>1 DEF InOrder
  <2>6. AskedNow' = battery[i]
    BY <2>1 DEF AskedNow, Case
  <2>7. AnswersFit'
    BY <2>1, <2>3, <2>6, AskFits
  <2>. QED
    BY <2>4, <2>5, <2>7
<1>4. CASE ~ (i <= Len(battery))
  <2>1. stage' = "done" /\ i = Len(battery) + 1
    BY <1>1, <1>4 DEF ReadCase
  <2>2. DriverFits'
    BY <1>2, <2>1 DEF DriverFits, Asking
  <2>3. InOrder'
    BY <2>1 DEF InOrder
  <2>4. AnswersFit'
    BY <2>1 DEF AnswersFit, Asking
  <2>. QED
    BY <2>2, <2>3, <2>4
<1>. QED
  BY <1>3, <1>4

LEMMA StartPolygraphFits ==
  ASSUME EngineInv, DriverFits, InOrder, command = "polygraph", UNCHANGED command,
         NEW t \in Threads, StartPolygraph(t)
  PROVE  DriverFits' /\ InOrder' /\ AnswersFit'
<1>1. stage = "start" /\ ReadCase(t, 1) /\ UNCHANGED <<battery, table>> /\ table = <<>>
  BY DEF StartPolygraph, Answered, DriverFits
<1>2. RightRows' = RightRows /\ \A k : ComesAfter(k)' = ComesAfter(k)
  BY <1>1 DEF RightRows, RowOf, ComesAfter
<1>3. table' \in Seq(RightRows)
  BY <1>1 DEF DriverFits
<1>4. 1 <= Len(battery) + 1
  <2>1. <<>> \in Seq(Requests)
    OBVIOUS
  <2>2. battery \in Seq(Requests)
    BY <2>1, BatteryAssumption DEF DriverFits
  <2>. QED
    BY <2>2
<1>5. ComesAfter(Len(table))' = <<1, 1>>
  <2>1. table' = <<>> /\ Len(<<>>) = 0
    BY <1>1
  <2>. QED
    BY <2>1 DEF ComesAfter
<1>6. \A k \in DOMAIN table' : <<table[k].case, table[k].n>>' = ComesAfter(k - 1)'
  BY <1>1
<1>. QED
  BY <1>1, <1>3, <1>4, <1>5, <1>6, ReadCaseFits

\* The case being read.
LEMMA CaseParts ==
  ASSUME DriverFits, stage \in Asking
  PROVE  /\ case \in DOMAIN battery /\ Case \in Requests /\ case \in Nat \ {0}
         /\ case <= Len(battery) /\ Len(battery) \in Nat
         /\ DOMAIN Case.prompts = 1 .. Len(Case.prompts)
         /\ Len(Case.prompts) \in Nat \ {0}
         /\ \A k \in DOMAIN Case.prompts :
               ControlCall(Case, k) \in Requests /\ SplitCall(Case, k) \in Requests
<1>1. PICK i : i = case
  OBVIOUS
<1>2. i \in DOMAIN battery
  BY <1>1 DEF DriverFits
<1>3. battery \in Seq(Requests)
  BY <1>2, CaseRequests
<1>. QED
  BY <1>1, <1>2, <1>3, CaseRequests DEF Case

\* What the driver has from a call of its stage.
LEMMA AnswerOf ==
  ASSUME AnswersFit, stage \in Asking, NEW t \in Threads, Answered(t, stage)
  PROVE  Reads(answer[t], AskedNow) \/ (stage = "split" /\ answer[t] = Rejected)
BY DEF AnswersFit, Answered

LEMMA KeepForkedFits ==
  ASSUME EngineInv, DriverFits, InOrder, AnswersFit, command = "polygraph",
         UNCHANGED command, NEW t \in Threads, KeepForked(t)
  PROVE  DriverFits' /\ InOrder' /\ AnswersFit'
<1>1. /\ stage = "forked" /\ Answered(t, stage)
      /\ Ask(t, ControlCall(Case, 1)) /\ forked' = answer[t].scores /\ nth' = 1
      /\ stage' = "control" /\ UNCHANGED <<battery, case, table>>
  BY DEF KeepForked, Answered
<1>2. RightRows' = RightRows /\ (\A k : ComesAfter(k)' = ComesAfter(k)) /\ Case' = Case
  BY <1>1 DEF RightRows, RowOf, ComesAfter, Case
<1>3. /\ case \in DOMAIN battery /\ 1 \in DOMAIN Case.prompts
      /\ ControlCall(Case, 1) \in Requests
  <2>1. 1 \in DOMAIN Case.prompts
    BY <1>1, CaseParts DEF Asking
  <2>. QED
    BY <1>1, <2>1, CaseParts DEF Asking
<1>4. [k \in DOMAIN forked |-> forked[k].marks]' = Reference(Case)
  <2>1. Reads(answer[t], Case)
    BY <1>1, AnswerOf DEF AskedNow, Asking
  <2>2. PICK scores : /\ answer[t] = Scored(scores)
                      /\ [k \in DOMAIN scores |-> scores[k].marks] = Reference(Case)
    BY <2>1 DEF Reads
  <2>3. forked' = scores
    BY <1>1, <2>2 DEF Scored
  <2>. QED
    BY <2>2, <2>3
<1>5. DriverFits'
  <2>1. (Reference(Case))' = Reference(Case)
    BY <1>2
  <2>. QED
    BY <1>1, <1>2, <1>3, <1>4, <2>1 DEF DriverFits, Asking
<1>6. InOrder'
  BY <1>1, <1>2 DEF InOrder
<1>7. AnswersFit'
  <2>1. AskedNow' = ControlCall(Case, 1)
    BY <1>1, <1>2 DEF AskedNow
  <2>. QED
    BY <1>1, <1>3, <2>1, AskFits
<1>. QED
  BY <1>5, <1>6, <1>7

LEMMA KeepControlFits ==
  ASSUME EngineInv, DriverFits, InOrder, AnswersFit, command = "polygraph",
         UNCHANGED command, NEW t \in Threads, KeepControl(t)
  PROVE  DriverFits' /\ InOrder' /\ AnswersFit'
<1>1. /\ stage = "control" /\ Answered(t, stage)
      /\ Ask(t, SplitCall(Case, nth)) /\ control' = answer[t].scores[1].marks
      /\ stage' = "split" /\ UNCHANGED <<battery, case, nth, forked, table>>
  BY DEF KeepControl, Answered, Marked
<1>2. RightRows' = RightRows /\ (\A k : ComesAfter(k)' = ComesAfter(k)) /\ Case' = Case
  BY <1>1 DEF RightRows, RowOf, ComesAfter, Case
<1>3. nth \in DOMAIN Case.prompts /\ SplitCall(Case, nth) \in Requests
  <2>1. nth \in DOMAIN Case.prompts
    BY <1>1 DEF DriverFits
  <2>. QED
    BY <1>1, <2>1, CaseParts DEF Asking
<1>4. control' = Reference(Case)[nth]
  <2>1. Reads(answer[t], ControlCall(Case, nth))
    BY <1>1, AnswerOf DEF AskedNow, Asking
  <2>. QED
    BY <1>1, <1>3, <2>1, MarkedIsReference DEF ControlCall
<1>5. DriverFits'
  <2>1. (Reference(Case)[nth])' = Reference(Case)[nth]
    BY <1>1, <1>2
  <2>2. ([k \in DOMAIN forked |-> forked[k].marks] = Reference(Case))'
    BY <1>1, <1>2 DEF DriverFits
  <2>. QED
    BY <1>1, <1>2, <1>3, <1>4, <2>1, <2>2 DEF DriverFits, Asking
<1>6. InOrder'
  BY <1>1, <1>2 DEF InOrder
<1>7. AnswersFit'
  <2>1. AskedNow' = SplitCall(Case, nth)
    BY <1>1, <1>2 DEF AskedNow
  <2>. QED
    BY <1>1, <1>3, <2>1, AskFits
<1>. QED
  BY <1>5, <1>6, <1>7

\* A row is of the fingerprint that is next, and its three readings are one.
LEMMA RowFits ==
  ASSUME DriverFits, InOrder, AnswersFit, command = "polygraph",
         NEW t \in Threads, PushRow(t)
  PROVE  /\ table' \in Seq(RightRows) /\ Len(table') = Len(table) + 1
         /\ \A k \in DOMAIN table' : <<table[k].case, table[k].n>>' = ComesAfter(k - 1)'
         /\ ComesAfter(Len(table))' =
               IF nth < Len(Case.prompts) THEN <<case, nth + 1>> ELSE <<case + 1, 1>>
<1>1. stage = "split" /\ Answered(t, stage) /\ UNCHANGED battery
  BY DEF PushRow, Answered
<1>2. /\ nth \in DOMAIN Case.prompts /\ control = Reference(Case)[nth]
      /\ [k \in DOMAIN forked |-> forked[k].marks] = Reference(Case)
      /\ table \in Seq(RightRows) /\ ComesAfter(Len(table)) = <<case, nth>>
  BY <1>1 DEF DriverFits, InOrder
<1>3. nth \in Nat /\ case \in Nat
  BY <1>1, <1>2, CaseParts DEF Asking
<1>4. forked[nth].marks = Reference(Case)[nth]
  <2>1. DOMAIN Reference(Case) = DOMAIN Case.prompts
    BY DEF Reference
  <2>2. nth \in DOMAIN forked
    BY <1>2, <2>1
  <2>. QED
    BY <1>2, <2>2
<1>5. SplitOr(t) = Reference(Case)[nth]
  <2>1. Reads(answer[t], SplitCall(Case, nth)) \/ answer[t] = Rejected
    BY <1>1, AnswerOf DEF AskedNow, Asking
  <2>2. ASSUME answer[t] = Rejected PROVE SplitOr(t) = control
    BY <2>2 DEF SplitOr, Rejected
  <2>3. ASSUME Reads(answer[t], SplitCall(Case, nth)) PROVE SplitOr(t) = Reference(Case)[nth]
    <3>1. answer[t].scores[1].marks = Reference(Case)[nth]
      BY <1>2, <2>3, MarkedIsReference DEF SplitCall
    <3>2. answer[t].status = "scored"
      BY <2>3 DEF Reads, Scored
    <3>. QED
      BY <3>1, <3>2 DEF SplitOr, Marked
  <2>. QED
    BY <1>2, <2>1, <2>2, <2>3
<1>6. PICK x : x = RowOf(case, nth)
  OBVIOUS
<1>7. table' = Append(table, x)
  BY <1>2, <1>4, <1>5, <1>6 DEF PushRow, RowOf, Case
<1>8. x \in RightRows /\ x.case = case /\ x.n = nth
  BY <1>3, <1>6 DEF RightRows, RowOf
<1>. HIDE DEF RightRows
<1>9. /\ table' \in Seq(RightRows) /\ Len(table') = Len(table) + 1 /\ Len(table) \in Nat
      /\ DOMAIN table' = 1 .. Len(table) + 1 /\ DOMAIN table = 1 .. Len(table)
      /\ \A k \in 1 .. Len(table) : table'[k] = table[k]
      /\ table'[Len(table) + 1] = x
  BY <1>2, <1>7, <1>8
<1>10. \A k \in 0 .. Len(table) : ComesAfter(k)' = ComesAfter(k)
  BY <1>1, <1>9 DEF ComesAfter
<1>11. ASSUME NEW k \in DOMAIN table'
       PROVE  <<table'[k].case, table'[k].n>> = ComesAfter(k - 1)'
  <2>1. k \in 1 .. Len(table) + 1
    BY <1>9
  <2>2. k - 1 \in 0 .. Len(table) /\ (k \in 1 .. Len(table) \/ k - 1 = Len(table))
    BY <1>9, <2>1
  <2>3. PICK j \in 0 .. Len(table) : j = k - 1
    BY <2>2
  <2>4. ComesAfter(j)' = ComesAfter(j)
    BY <1>10, <2>3
  <2>5. ComesAfter(k - 1)' = ComesAfter(k - 1)
    BY <2>3, <2>4 DEF ComesAfter
  <2>6. CASE k \in 1 .. Len(table)
    <3>1. k \in DOMAIN table /\ table'[k] = table[k]
      BY <1>9, <2>6
    <3>. QED
      BY <2>5, <3>1 DEF InOrder
  <2>7. CASE k - 1 = Len(table)
    <3>1. k = Len(table) + 1
      BY <1>9, <2>1, <2>7
    <3>2. ComesAfter(k - 1) = <<case, nth>>
      BY <1>2, <2>7
    <3>. QED
      BY <1>8, <1>9, <2>5, <3>1, <3>2
  <2>. QED
    BY <2>2, <2>6, <2>7
<1>12. ComesAfter(Len(table))' =
         IF nth < Len(Case.prompts) THEN <<case, nth + 1>> ELSE <<case + 1, 1>>
  <2>1. Len(table') # 0 /\ table'[Len(table')] = x
    BY <1>9
  <2>2. ComesAfter(Len(table))' =
           IF x.n < Len(battery[x.case].prompts)
           THEN <<x.case, x.n + 1>> ELSE <<x.case + 1, 1>>
    BY <1>1, <2>1 DEF ComesAfter
  <2>. QED
    BY <1>8, <2>2 DEF Case
<1>. QED
  BY <1>9, <1>11, <1>12

LEMMA PushRowFits ==
  ASSUME EngineInv, DriverFits, InOrder, AnswersFit, command = "polygraph",
         UNCHANGED command, NEW t \in Threads, PushRow(t)
  PROVE  DriverFits' /\ InOrder' /\ AnswersFit'
<1>1. stage = "split" /\ UNCHANGED <<battery, forked, control>>
  BY DEF PushRow, Answered
<1>2. RightRows' = RightRows
  BY <1>1 DEF RightRows, RowOf
<1>3. CASE nth < Len(Case.prompts)
  <2>1. Ask(t, ControlCall(Case, nth + 1)) /\ nth' = nth + 1 /\ stage' = "control" /\ case' = case
    BY <1>3 DEF PushRow
  <2>2. nth \in DOMAIN Case.prompts
    BY <1>1 DEF DriverFits
  <2>3. nth + 1 \in DOMAIN Case.prompts
    BY <1>1, <1>3, <2>2, CaseParts DEF Asking
  <2>4. ControlCall(Case, nth + 1) \in Requests /\ case \in DOMAIN battery
    BY <1>1, <2>3, CaseParts DEF Asking
  <2>5. Case' = Case
    BY <1>1, <2>1 DEF Case
  <2>6. DriverFits'
    <3>1. ([k \in DOMAIN forked |-> forked[k].marks] = Reference(Case))'
      BY <1>1, <2>5 DEF DriverFits
    <3>. QED
      BY <1>1, <1>2, <2>1, <2>3, <2>4, <2>5, <3>1, RowFits DEF DriverFits, Asking
  <2>7. InOrder'
    BY <1>3, <2>1, RowFits DEF InOrder
  <2>8. AskedNow' = ControlCall(Case, nth + 1)
    BY <2>1, <2>5 DEF AskedNow
  <2>9. PICK r \in Requests : r = ControlCall(Case, nth + 1)
    BY <2>4
  <2>10. AnswersFit'
    BY <2>1, <2>8, <2>9, AskFits
  <2>. QED
    BY <2>6, <2>7, <2>10
<1>4. CASE ~ (nth < Len(Case.prompts))
  <2>1. ReadCase(t, case + 1)
    BY <1>4 DEF PushRow
  <2>2. PICK i \in Nat \ {0} : i = case + 1
    BY <1>1, CaseParts DEF Asking
  <2>3. i <= Len(battery) + 1
    BY <1>1, <2>2, CaseParts DEF Asking
  <2>4. ReadCase(t, i) /\ ComesAfter(Len(table))' = <<i, 1>>
    BY <1>4, <2>1, <2>2, RowFits
  <2>5. /\ table' \in Seq(RightRows)
        /\ \A k \in DOMAIN table' : <<table[k].case, table[k].n>>' = ComesAfter(k - 1)'
    BY RowFits
  <2>. QED
    BY <1>1, <2>2, <2>3, <2>4, <2>5, ReadCaseFits
<1>. QED
  BY <1>3, <1>4

------------------------------------------------------------------------------

LEMMA PolygraphInvInit == PolygraphInit => PolygraphInv
<1> SUFFICES ASSUME PolygraphInit PROVE PolygraphInv
  OBVIOUS
<1>1. /\ Init /\ battery \in Batteries \cup {<<>>} /\ case = 1 /\ nth = 1
      /\ stage = "start" /\ table = <<>>
  BY DEF PolygraphInit
<1>2. DriverFits
  BY <1>1 DEF DriverFits, Asking
<1>3. InOrder
  <2>1. Len(table) = 0 /\ DOMAIN table = {}
    BY <1>1
  <2>. QED
    BY <1>1, <2>1 DEF InOrder, ComesAfter
<1>4. AnswersFit
  BY <1>1 DEF AnswersFit, Asking
<1>. QED
  BY <1>1, <1>2, <1>3, <1>4, InvInit DEF PolygraphInv

LEMMA PolygraphKeeps == PolygraphInv /\ [PolygraphNext]_polygraphVars => PolygraphInv'
<1> SUFFICES ASSUME PolygraphInv, [PolygraphNext]_polygraphVars
             PROVE  PolygraphInv'
  OBVIOUS
<1>0. EngineInv /\ DriverFits /\ InOrder /\ AnswersFit
  BY DEF PolygraphInv
<1>1. EngineInv'
  BY <1>0, EngineKept
<1>2. ASSUME UNCHANGED <<command, driver>>
      PROVE  DriverFits' /\ InOrder'
  <2>1. RightRows' = RightRows /\ (\A k : ComesAfter(k)' = ComesAfter(k)) /\ Case' = Case
    BY <1>2 DEF RightRows, RowOf, ComesAfter, Case, driver
  <2>2. DriverFits'
    BY <1>0, <1>2, <2>1 DEF DriverFits, driver
  <2>. QED
    BY <1>0, <1>2, <2>1, <2>2 DEF InOrder, driver
<1>3. ASSUME UNCHANGED <<pc, req, answer, driver>>, alive' = alive \/ alive' = FALSE
      PROVE  AnswersFit'
  <2>1. AskedNow' = AskedNow
    BY <1>3 DEF AskedNow, Case, driver
  <2>. QED
    BY <1>0, <1>3, <2>1 DEF AnswersFit, driver
<1>4. CASE UNCHANGED polygraphVars
  <2>1. UNCHANGED <<command, driver>> /\ UNCHANGED <<pc, req, answer, alive>>
    BY <1>4 DEF polygraphVars, vars
  <2>. QED
    BY <1>1, <1>2, <1>3, <2>1 DEF PolygraphInv
<1>5. CASE Engine(LAMBDA t : TRUE)
  <2>1. PICK t \in Threads : Step(t)
    BY <1>5 DEF Engine
  <2>2. UNCHANGED <<command, driver>>
    BY <1>5 DEF Engine
  <2>3. AnswersFit'
    BY <1>0, <2>1, <2>2, EngineFits
  <2>. QED
    BY <1>1, <1>2, <2>2, <2>3 DEF PolygraphInv
<1>6. CASE Serve
  <2>1. UNCHANGED <<command, driver>> /\ stage = "start"
    BY <1>0, <1>6 DEF Serve, DriverFits
  <2>2. AnswersFit'
    BY <2>1 DEF AnswersFit, Asking, driver
  <2>. QED
    BY <1>1, <1>2, <2>1, <2>2 DEF PolygraphInv
<1>7. CASE command = "polygraph" /\ Drive /\ UNCHANGED command
  <2>1. PICK t \in Threads :
           StartPolygraph(t) \/ KeepForked(t) \/ CutFails(t) \/ KeepControl(t) \/ PushRow(t)
    BY <1>7 DEF Drive
  <2>2. CASE CutFails(t)
    <3>1. UNCHANGED <<command, driver>> /\ UNCHANGED <<pc, req, answer>> /\ alive' = FALSE
      BY <1>7, <2>2 DEF CutFails
    <3>. QED
      BY <1>1, <1>2, <1>3, <3>1 DEF PolygraphInv
  <2>3. CASE StartPolygraph(t)
    BY <1>0, <1>1, <1>7, <2>3, StartPolygraphFits DEF PolygraphInv
  <2>4. CASE KeepForked(t)
    BY <1>0, <1>1, <1>7, <2>4, KeepForkedFits DEF PolygraphInv
  <2>5. CASE KeepControl(t)
    BY <1>0, <1>1, <1>7, <2>5, KeepControlFits DEF PolygraphInv
  <2>6. CASE PushRow(t)
    BY <1>0, <1>1, <1>7, <2>6, PushRowFits DEF PolygraphInv
  <2>. QED
    BY <2>1, <2>2, <2>3, <2>4, <2>5, <2>6
<1>. QED
  BY <1>4, <1>5, <1>6, <1>7 DEF PolygraphNext

LEMMA PolygraphInvariant == PolygraphSpec => []PolygraphInv
<1>1. PolygraphInit => PolygraphInv
  BY PolygraphInvInit
<1>2. PolygraphInv /\ [PolygraphNext]_polygraphVars => PolygraphInv'
  BY PolygraphKeeps
<1>. QED
  BY <1>1, <1>2, PTL DEF PolygraphSpec

\* Whatever calls failed windows, were cut in rounds, tries and splits or
\* found a session to go on from before: a row holds the whole-prompt reading
\* of its fingerprint three times over, so what the polygraph calls a
\* difference is the arithmetic's, and no fingerprint is left out, read twice
\* or read out of order (polygraph::run).
THEOREM ThreeReadingsAreOne == PolygraphSpec => []ReadingsAgree
<1>1. PolygraphInv => ReadingsAgree
  <2>. SUFFICES ASSUME PolygraphInv PROVE ReadingsAgree
    OBVIOUS
  <2>1. DriverFits /\ InOrder
    BY DEF PolygraphInv
  <2>2. ASSUME NEW i \in DOMAIN table
        PROVE  LET x == table[i]
                   truth == Reference(battery[x.case])[x.n]
               IN  /\ <<x.case, x.n>> = ComesAfter(i - 1)
                   /\ x.forked = truth /\ x.split = truth /\ x.control = truth
    <3>1. table[i] \in RightRows
      BY <2>1 DEF DriverFits
    <3>2. PICK j \in Nat, k \in Nat : table[i] = RowOf(j, k)
      BY <3>1 DEF RightRows
    <3>. QED
      BY <2>1, <3>2 DEF RowOf, InOrder
  <2>. QED
    BY <2>1, <2>2 DEF ReadingsAgree, InOrder
<1>. QED
  BY <1>1, PolygraphInvariant, PTL

\* The engine keeps its promise to the polygraph too, whose calls alternate
\* between a session's forks and readings that throw the session away.
THEOREM PolygraphsEngineImplementsScoring == PolygraphSpec => Implements
<1>1. PolygraphInit => Abstract!Init
  BY InitRefines DEF PolygraphInit
<1>2. PolygraphInv /\ [PolygraphNext]_polygraphVars => [Abstract!Next]_Abstract!vars
  <2>. SUFFICES ASSUME PolygraphInv, [PolygraphNext]_polygraphVars
                PROVE  [Abstract!Next]_Abstract!vars
    OBVIOUS
  <2>1. EngineInv /\ ([Next]_vars \/ GivesUp)
    BY PolygraphSteps DEF PolygraphInv
  <2>2. CASE GivesUp
    BY <2>2 DEF GivesUp, Abstract!vars
  <2>. QED
    BY <2>1, <2>2, StepRefines
<1>. QED
  BY <1>1, <1>2, PolygraphInvariant, PTL DEF PolygraphSpec, Implements, Abstract!Spec
==============================================================================
