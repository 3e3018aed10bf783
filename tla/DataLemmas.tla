----------------------------- MODULE DataLemmas -----------------------------
(***************************************************************************)
(* What the operators of the community modules give on the data of this    *)
(* project: Min and Max on naturals (the next card, the shortest prompt,   *)
(* the size of a round), LongestCommonPrefix (where a session is cut) and  *)
(* SetToSeq.  Their definitions CHOOSE; the proofs need that there is      *)
(* something to choose.  FlattenSeq (the prompts of a request, the rows of *)
(* its cases) and SumFunctionOnSet (means and charges) are recursive: what *)
(* is where in the one, and how the other changes, by induction on sets.   *)
(***************************************************************************)
EXTENDS Integers, FiniteSetsExt, SequencesExt, FiniteSetTheorems,
        SequenceTheorems, TLAPS

\* A set of naturals with a member has a least one, and Min is it: the n
\* whose 0 .. n is smallest by inclusion.
LEMMA MinOfNaturals ==
  ASSUME NEW S, S \subseteq Nat, S # {}
  PROVE  Min(S) \in S /\ \A y \in S : Min(S) =< y
<1> DEFINE T == {0 .. n : n \in S}
<1>1. T \subseteq FiniteSubsetsOf(Nat) /\ T # {}
  <2>1. ASSUME NEW n \in S PROVE 0 .. n \in FiniteSubsetsOf(Nat)
    BY FS_Interval DEF FiniteSubsetsOf
  <2>2. QED
    BY <2>1
<1>2. PICK X \in T : \A Y \in T : ~ (<<Y, X>> \in StrictSubsetOrdering(Nat))
  <2>1. IsWellFoundedOn(StrictSubsetOrdering(Nat), FiniteSubsetsOf(Nat))
    BY FS_StrictSubsetOrderingWellFounded
  <2>. HIDE DEF T
  <2>2. QED
    BY <1>1, <2>1, WFMin
<1>3. PICK x \in S : X = 0 .. x
  OBVIOUS
<1>4. ASSUME NEW y \in S PROVE x =< y
  <2>1. <<0 .. y, 0 .. x>> \notin StrictSubsetOrdering(Nat)
    BY <1>2, <1>3
  <2>2. SUFFICES ASSUME y < x PROVE FALSE
    OBVIOUS
  <2>3. 0 .. y \subseteq 0 .. x /\ 0 .. y # 0 .. x
    BY <2>2
  <2>4. QED
    BY <2>1, <2>3 DEF StrictSubsetOrdering
<1>5. QED
  BY <1>4 DEF Min

\* A bounded one has a greatest, and Max is it.
LEMMA MaxOfNaturals ==
  ASSUME NEW n \in Nat, NEW S, S \subseteq 0 .. n, S # {}
  PROVE  Max(S) \in S /\ \A y \in S : Max(S) >= y
<1> DEFINE T == {n - y : y \in S}
<1>1. T \subseteq Nat /\ T # {}
  <2>1. ASSUME NEW y \in S PROVE n - y \in Nat
    <3>1. y \in 0 .. n
      OBVIOUS
    <3>. QED
      BY <3>1
  <2>. QED
    BY <2>1
<1>2. Min(T) \in T /\ \A z \in T : Min(T) =< z
  BY <1>1, MinOfNaturals
<1>3. PICK x \in S : Min(T) = n - x
  BY <1>2
<1>4. ASSUME NEW y \in S PROVE x >= y
  <2>1. n - x =< n - y
    BY <1>2, <1>3
  <2>2. x \in Int /\ y \in Int
    OBVIOUS
  <2>. QED
    BY <2>1, <2>2
<1>5. QED
  BY <1>4 DEF Max

\* The image of a finite set is finite.
LEMMA ImageFinite ==
  ASSUME NEW S, IsFiniteSet(S), NEW f
  PROVE  IsFiniteSet({f[x] : x \in S})
<1> DEFINE T == {f[x] : x \in S}
           g == [x \in S |-> f[x]]
<1>1. g \in Surjection(S, T)
  BY DEF Surjection
<1>. QED
  BY <1>1, FS_Surjection

\* A finite set as a sequence: its members, as many as they are.
LEMMA SetToSeqOfFinite ==
  ASSUME NEW S, IsFiniteSet(S)
  PROVE  /\ SetToSeq(S) \in Seq(S)
         /\ Len(SetToSeq(S)) = Cardinality(S)
<1> DEFINE n == Cardinality(S)
<1>1. n \in Nat /\ ExistsBijection(1 .. n, S)
  BY FS_CardinalityType
<1>2. PICK f : f \in Bijection(1 .. n, S)
  BY <1>1 DEF ExistsBijection
<1>3. f \in [1 .. n -> S] /\ IsInjective(f)
  BY <1>2 DEF Bijection, Injection, IsInjective
<1>4. SetToSeq(S) \in [1 .. n -> S]
  BY <1>3 DEF SetToSeq
<1>5. QED
  BY <1>1, <1>4

\* The longest common prefix of two sequences is one of theirs.
LEMMA CommonPrefixOfTwo ==
  ASSUME NEW S, NEW a \in Seq(S), NEW b \in Seq(S)
  PROVE  LET l == Len(LongestCommonPrefix({a, b}))
         IN  /\ l \in 0 .. Len(a) /\ l =< Len(b)
             /\ LongestCommonPrefix({a, b}) = SubSeq(a, 1, l)
             /\ LongestCommonPrefix({a, b}) = SubSeq(b, 1, l)
<1> DEFINE C == CommonPrefixes({a, b})
           L == {Len(p) : p \in C}
<1>0. \A s \in Seq(S) : \A i \in 0 .. Len(s) :
         SubSeq(s, 1, i) \in Seq(S) /\ Len(SubSeq(s, 1, i)) = i
  OBVIOUS
<1>1. ASSUME NEW p \in C
      PROVE  /\ p \in Seq(S) /\ Len(p) \in 0 .. Len(a) /\ Len(p) =< Len(b)
             /\ p = SubSeq(a, 1, Len(p)) /\ p = SubSeq(b, 1, Len(p))
  <2>1. p \in Prefixes(a) \cup Prefixes(b) /\ IsPrefix(p, a) /\ IsPrefix(p, b)
    BY DEF CommonPrefixes
  <2>2. p \in Seq(S)
    BY <2>1, <1>0 DEF Prefixes
  <2>3. SubSeq(p, 1, Len(p)) = p
    BY <2>2, SubSeqFull
  <2>. QED
    BY <2>1, <2>2, <2>3 DEF IsPrefix
<1>2. <<>> \in C
  <2>1. SubSeq(a, 1, 0) = <<>> /\ SubSeq(b, 1, 0) = <<>> /\ SubSeq(<<>>, 1, 0) = <<>>
    BY SubSeqEmpty
  <2>2. Len(<<>>) = 0 /\ Len(a) \in Nat /\ Len(b) \in Nat
    OBVIOUS
  <2>3. <<>> \in Prefixes(a)
    BY <2>1, <2>2 DEF Prefixes
  <2>4. IsPrefix(<<>>, a) /\ IsPrefix(<<>>, b)
    BY <2>1, <2>2 DEF IsPrefix
  <2>. QED
    BY <2>3, <2>4 DEF CommonPrefixes
<1>3. L \subseteq 0 .. Len(a) /\ L # {}
  BY <1>1, <1>2
<1>4. Max(L) \in L /\ \A y \in L : Max(L) >= y
  <2>1. Len(a) \in Nat
    OBVIOUS
  <2>. HIDE DEF L
  <2>. QED
    BY <1>3, <2>1, MaxOfNaturals
<1>5. PICK q \in C : Max(L) = Len(q)
  BY <1>4
<1>6. \A p \in C : Len(p) <= Len(q)
  BY <1>1, <1>4, <1>5
<1>7. LongestCommonPrefix({a, b}) \in C
  <2>. HIDE DEF C, L
  <2>1. LongestCommonPrefix({a, b}) =
           CHOOSE x \in C : \A p \in C : Len(p) <= Len(x)
    BY Zenon DEF LongestCommonPrefix, C
  <2>. QED
    BY <1>6, <2>1
<1>8. QED
  <2>. HIDE DEF C, L
  <2>. QED
    BY <1>1, <1>7

\* The parts of a concatenation.
LEMMA ConcatParts ==
  ASSUME NEW S, NEW a \in Seq(S), NEW b \in Seq(S)
  PROVE  /\ a \o b \in Seq(S) /\ Len(a \o b) = Len(a) + Len(b)
         /\ SubSeq(a \o b, 1, Len(a)) = a
         /\ SubSeq(a \o b, Len(a) + 1, Len(a \o b)) = b
<1> DEFINE c == a \o b
           l == Len(a)
           n == Len(b)
<1>1. /\ c \in Seq(S) /\ Len(c) = l + n /\ l \in Nat /\ n \in Nat
      /\ \A i \in 1 .. l + n : c[i] = IF i <= l THEN a[i] ELSE b[i - l]
  BY ConcatProperties
<1>2. /\ \A i \in 1 .. l : a[i] \in S
      /\ \A i \in 1 .. n : b[i] \in S
  OBVIOUS
<1>. HIDE DEF c
<1>3. SubSeq(c, 1, l) = a
  <2>1. \A i \in 1 .. l : c[i] = a[i]
    BY <1>1
  <2>. HIDE DEF l
  <2>2. SubSeq(c, 1, l) \in Seq(S) /\ Len(SubSeq(c, 1, l)) = l
        /\ \A i \in 1 .. l : SubSeq(c, 1, l)[i] = a[i]
    BY <1>1, <1>2, <2>1
  <2>. QED
    BY <2>2, SeqEqual DEF l
<1>4. SubSeq(c, l + 1, l + n) = b
  <2>1. \A i \in 1 .. n : c[l + i] = b[i]
    <3>1. \A i \in 1 .. n : l + i \in 1 .. l + n /\ ~ (l + i <= l) /\ (l + i) - l = i
      BY <1>1
    <3>. HIDE DEF l, n
    <3>. QED
      BY <1>1, <3>1
  <2>. HIDE DEF l, n
  <2>2. SubSeq(c, l + 1, l + n) \in Seq(S) /\ Len(SubSeq(c, l + 1, l + n)) = n
        /\ \A i \in 1 .. n : SubSeq(c, l + 1, l + n)[i] = b[i]
    <3>1. \A i \in l + 1 .. l + n : c[i] \in S
      BY <1>1
    <3>2. l + 1 \in Int /\ l + n \in Int
      BY <1>1
    <3>3. /\ SubSeq(c, l + 1, l + n) \in Seq(S)
          /\ Len(SubSeq(c, l + 1, l + n)) =
                IF l + 1 <= l + n THEN (l + n) - (l + 1) + 1 ELSE 0
          /\ \A i \in 1 .. (l + n) - (l + 1) + 1 :
                SubSeq(c, l + 1, l + n)[i] = c[(l + 1) + i - 1]
      BY <3>1, <3>2, SubSeqProperties
    <3>4. (l + n) - (l + 1) + 1 = n /\ \A i \in 1 .. n : (l + 1) + i - 1 = l + i
      BY <1>1
    <3>5. (IF l + 1 <= l + n THEN (l + n) - (l + 1) + 1 ELSE 0) = n
      BY <1>1
    <3>. QED
      BY <2>1, <3>3, <3>4, <3>5
  <2>. QED
    BY <2>2, SeqEqual DEF n
<1>. QED
  BY <1>1, <1>3, <1>4 DEF c

\* A prefix, one element longer.
LEMMA LongerPrefix ==
  ASSUME NEW S, NEW s \in Seq(S), NEW d \in 0 .. Len(s) - 1
  PROVE  SubSeq(s, 1, d + 1) = SubSeq(s, 1, d) \o <<s[d + 1]>>
<1>1. 1 \in 1 .. Len(s) /\ d + 1 \in 1 .. Len(s) /\ (d + 1) - 1 = d
  OBVIOUS
<1>2. SubSeq(s, 1, d + 1) = SubSeq(s, 1, (d + 1) - 1) \o <<s[d + 1]>>
  BY <1>1, SubSeqRecursiveSecond
<1>. QED
  BY <1>1, <1>2

------------------------------------------------------------------------------
(* Recursive functions on an interval of naturals, and what holds of all   *)
(* their values: induction, of sets.                                       *)

LEMMA Induction ==
  ASSUME NEW lo \in Nat, NEW S, lo \in S,
         \A i \in Nat : i >= lo /\ i \in S => i + 1 \in S
  PROVE  \A i \in Nat : i >= lo => i \in S
<1> DEFINE Bad == {i \in Nat : i >= lo /\ i \notin S}
<1>1. SUFFICES ASSUME Bad # {} PROVE FALSE
  OBVIOUS
<1> DEFINE m == Min(Bad)
<1>2. m \in Bad /\ \A y \in Bad : m =< y
  <2>. HIDE DEF Bad
  <2>1. Bad \subseteq Nat
    BY DEF Bad
  <2>. QED
    BY <1>1, <2>1, MinOfNaturals
<1>. HIDE DEF m
<1>3. m \in Nat /\ m >= lo /\ m \notin S /\ m # lo
  BY <1>2
<1>4. m - 1 \in Nat /\ m - 1 >= lo /\ (m - 1) + 1 = m /\ ~ (m =< m - 1)
  BY <1>3
<1>5. m - 1 \in S
  BY <1>2, <1>4
<1>. QED
  BY <1>3, <1>4, <1>5

StepsWithin(V, step, lo, hi) == \A i \in lo + 1 .. hi : \A v \in V : step[i][v] \in V
Recurs(g, V, base, step, lo, hi) ==
    /\ g \in [lo .. hi -> V]
    /\ \A i \in lo .. hi : g[i] = IF i = lo THEN base ELSE step[i][g[i - 1]]

\* A recursion whose steps stay in V has a function, with values in V.
LEMMA Recursion ==
  ASSUME NEW V, NEW lo \in Nat, NEW hi \in Nat, lo =< hi, NEW base \in V,
         NEW step, StepsWithin(V, step, lo, hi)
  PROVE  \E g : Recurs(g, V, base, step, lo, hi)
<1>. USE DEF StepsWithin
<1> DEFINE one(g, i) == IF i = lo THEN base ELSE step[i][g[i - 1]]
           Good(g, m) == g \in [lo .. m -> V] /\ \A i \in lo .. m : g[i] = one(g, i)
           S == {m \in Nat : m =< hi => \E g : Good(g, m)}
<1>1. lo \in S
  <2> DEFINE g == [i \in lo .. lo |-> base]
  <2>1. Good(g, lo)
    OBVIOUS
  <2>. QED
    BY <2>1
<1>2. ASSUME NEW m \in Nat, m >= lo, m \in S PROVE m + 1 \in S
  <2>. SUFFICES ASSUME m + 1 =< hi PROVE \E h : Good(h, m + 1)
    OBVIOUS
  <2>1. PICK g : Good(g, m)
    BY <1>2
  <2> DEFINE x == step[m + 1][g[m]]
             h == [i \in lo .. m + 1 |-> IF i = m + 1 THEN x ELSE g[i]]
  <2>2. g[m] \in V /\ m + 1 \in lo + 1 .. hi
    BY <1>2, <2>1
  <2>3. x \in V
    BY <2>2
  <2>4. h \in [lo .. m + 1 -> V]
    <3>. HIDE DEF x
    <3>1. \A i \in lo .. m + 1 : i # m + 1 => i \in lo .. m
      OBVIOUS
    <3>. QED
      BY <2>1, <2>3, <3>1
  <2>5. ASSUME NEW i \in lo .. m + 1 PROVE h[i] = one(h, i)
    <3>1. CASE i = m + 1
      <4>1. i # lo /\ i - 1 = m /\ m \in lo .. m + 1 /\ m # m + 1
        BY <1>2, <3>1
      <4>2. h[i - 1] = g[m] /\ h[i] = x
        BY <3>1, <4>1
      <4>. QED
        BY <3>1, <4>1, <4>2
    <3>2. CASE i # m + 1
      <4>1. i \in lo .. m /\ h[i] = g[i]
        BY <3>2
      <4>2. i # lo => i - 1 \in lo .. m + 1 /\ i - 1 # m + 1
        BY <4>1
      <4>3. i # lo => h[i - 1] = g[i - 1]
        BY <4>2
      <4>4. g[i] = one(g, i)
        BY <2>1, <4>1
      <4>. QED
        BY <4>1, <4>3, <4>4
    <3>. QED
      BY <3>1, <3>2
  <2>. HIDE DEF h
  <2>6. Good(h, m + 1)
    BY <2>4, <2>5
  <2>. QED
    BY <2>6
<1>3. \E g : Good(g, hi)
  <2>. HIDE DEF S
  <2>1. hi \in S
    BY <1>1, <1>2, Induction
  <2>. QED
    BY <2>1 DEF S
<1>4. PICK g : Good(g, hi)
  BY <1>3
<1>. QED
  BY <1>4 DEF Recurs

------------------------------------------------------------------------------
(* What is in a sequence, once.                                            *)

LEMMA AppendRange ==
  ASSUME NEW S, NEW s \in Seq(S), NEW x \in S
  PROVE  /\ Append(s, x) \in Seq(S) /\ Range(Append(s, x)) = Range(s) \cup {x}
         /\ IsInjective(s) /\ x \notin Range(s) => IsInjective(Append(s, x))
<1> DEFINE a == Append(s, x)
           n == Len(s)
<1>1. /\ a \in Seq(S) /\ n \in Nat /\ DOMAIN a = 1 .. n + 1 /\ DOMAIN s = 1 .. n
      /\ a[n + 1] = x /\ \A i \in 1 .. n : a[i] = s[i]
  OBVIOUS
<1>2. \A i \in 1 .. n + 1 : i \in 1 .. n \/ i = n + 1
  BY <1>1
<1>3. \A i \in 1 .. n : i \in 1 .. n + 1
  BY <1>1
<1>4. n + 1 \in 1 .. n + 1
  BY <1>1
<1>. HIDE DEF a, n
<1>5. Range(a) = Range(s) \cup {x}
  BY <1>1, <1>2, <1>3, <1>4 DEF Range
<1>6. ASSUME IsInjective(s), x \notin Range(s) PROVE IsInjective(a)
  <2>1. \A i \in 1 .. n : s[i] # x
    BY <1>1, <1>6 DEF Range
  <2>2. \A i, j \in 1 .. n : s[i] = s[j] => i = j
    BY <1>1, <1>6 DEF IsInjective
  <2>. QED
    BY <1>1, <1>2, <2>1, <2>2 DEF IsInjective
<1>. QED
  BY <1>1, <1>5, <1>6 DEF a

LEMMA ConcatRange ==
  ASSUME NEW S, NEW a \in Seq(S), NEW b \in Seq(S)
  PROVE  /\ a \o b \in Seq(S) /\ Range(a \o b) = Range(a) \cup Range(b)
         /\ IsInjective(a) /\ IsInjective(b) /\ Range(a) \cap Range(b) = {}
               => IsInjective(a \o b)
<1> DEFINE c == a \o b
           l == Len(a)
           n == Len(b)
<1>1. /\ c \in Seq(S) /\ Len(c) = l + n /\ l \in Nat /\ n \in Nat
      /\ \A i \in 1 .. l + n : c[i] = IF i <= l THEN a[i] ELSE b[i - l]
  BY ConcatProperties
<1>2. DOMAIN a = 1 .. l /\ DOMAIN b = 1 .. n /\ DOMAIN c = 1 .. l + n
  BY <1>1
<1>3. \A i \in 1 .. l + n : i \in 1 .. l \/ (i > l /\ i - l \in 1 .. n)
  BY <1>1
<1>4. \A i \in 1 .. l : i \in 1 .. l + n /\ i <= l
  BY <1>1
<1>5. \A i \in 1 .. n : i + l \in 1 .. l + n /\ ~ (i + l <= l) /\ (i + l) - l = i
  BY <1>1
<1>. HIDE DEF c, l, n
<1>6. Range(c) = Range(a) \cup Range(b)
  <2>1. ASSUME NEW i \in DOMAIN c PROVE c[i] \in Range(a) \cup Range(b)
    <3>1. CASE i \in 1 .. l
      <4>1. c[i] = a[i] /\ i \in DOMAIN a
        BY <1>1, <1>2, <1>4, <3>1
      <4>. QED
        BY <4>1 DEF Range
    <3>2. CASE i > l /\ i - l \in 1 .. n
      <4>1. c[i] = b[i - l] /\ i - l \in DOMAIN b
        BY <1>1, <1>2, <2>1, <3>2
      <4>. QED
        BY <4>1 DEF Range
    <3>. QED
      BY <1>2, <1>3, <2>1, <3>1, <3>2
  <2>2. ASSUME NEW i \in DOMAIN a PROVE a[i] \in Range(c)
    <3>1. c[i] = a[i] /\ i \in DOMAIN c
      BY <1>1, <1>2, <1>4
    <3>. QED
      BY <3>1 DEF Range
  <2>3. ASSUME NEW i \in DOMAIN b PROVE b[i] \in Range(c)
    <3>1. c[i + l] = b[i] /\ i + l \in DOMAIN c
      BY <1>1, <1>2, <1>5
    <3>. QED
      BY <3>1 DEF Range
  <2>. QED
    BY <2>1, <2>2, <2>3 DEF Range
<1>7. ASSUME IsInjective(a), IsInjective(b), Range(a) \cap Range(b) = {},
             NEW i \in DOMAIN c, NEW j \in DOMAIN c, c[i] = c[j]
      PROVE  i = j
  <2>1. \A k \in 1 .. l, m \in 1 .. n : a[k] # b[m]
    BY <1>2, <1>7 DEF Range
  <2>2. /\ \A k, m \in 1 .. l : a[k] = a[m] => k = m
        /\ \A k, m \in 1 .. n : b[k] = b[m] => k = m
    BY <1>2, <1>7 DEF IsInjective
  <2>3. i \in 1 .. l + n /\ j \in 1 .. l + n
    BY <1>2, <1>7
  <2>4. CASE i \in 1 .. l /\ j \in 1 .. l
    BY <1>1, <1>4, <1>7, <2>2, <2>3, <2>4
  <2>5. CASE i > l /\ j > l
    <3>1. c[i] = b[i - l] /\ c[j] = b[j - l] /\ i - l \in 1 .. n /\ j - l \in 1 .. n
      BY <1>1, <2>3, <2>5
    <3>2. i - l = j - l
      BY <1>7, <2>2, <3>1
    <3>. QED
      BY <1>1, <2>3, <3>2
  <2>6. CASE i \in 1 .. l /\ j > l
    <3>1. c[i] = a[i] /\ c[j] = b[j - l] /\ j - l \in 1 .. n
      BY <1>1, <2>3, <2>6
    <3>. QED
      BY <1>7, <2>1, <2>6, <3>1
  <2>7. CASE i > l /\ j \in 1 .. l
    <3>1. c[j] = a[j] /\ c[i] = b[i - l] /\ i - l \in 1 .. n
      BY <1>1, <2>3, <2>7
    <3>. QED
      BY <1>7, <2>1, <2>7, <3>1
  <2>. QED
    BY <1>3, <2>3, <2>4, <2>5, <2>6, <2>7
<1>. QED
  BY <1>1, <1>6, <1>7 DEF c, IsInjective

\* Laying sequences end to end, one after another.
LEMMA FlattenSteps ==
  ASSUME NEW S, NEW ss \in Seq(Seq(S))
  PROVE  \E flat \in [0 .. Len(ss) -> Seq(S)] :
            /\ flat[0] = <<>> /\ flat[Len(ss)] = FlattenSeq(ss)
            /\ \A i \in 1 .. Len(ss) : flat[i] = flat[i - 1] \o ss[i]
<1> DEFINE n == Len(ss)
           V == Seq(S)
<1>1. n \in Nat /\ DOMAIN ss = 1 .. n /\ \A i \in 1 .. n : ss[i] \in Seq(S)
  OBVIOUS
<1>. HIDE DEF n
<1>2. <<>> \in V /\ \A s \in V : <<>> \o s = s
  OBVIOUS
<1>3. CASE n = 0
  <2> DEFINE flat == [i \in 0 .. n |-> <<>>]
  <2>1. FlattenSeq(ss) = ss /\ ss = <<>>
    BY <1>1, <1>3 DEF FlattenSeq, n
  <2>2. /\ flat \in [0 .. n -> V] /\ flat[0] = <<>> /\ flat[n] = FlattenSeq(ss)
        /\ \A i \in 1 .. n : flat[i] = flat[i - 1] \o ss[i]
    BY <1>1, <1>2, <1>3, <2>1
  <2>. HIDE DEF flat
  <2>. QED
    BY <2>2 DEF n
<1>4. CASE n # 0
  <2> DEFINE one(f, i) == IF i = 1 THEN ss[i] ELSE f[i - 1] \o ss[i]
             Is(f) == f = [i \in 1 .. n |-> one(f, i)]
             some == CHOOSE f : Is(f)
             step == [i \in 2 .. n |-> [v \in V |-> v \o ss[i]]]
             base == ss[1]
  <2>1. \E f : Is(f) /\ f \in [1 .. n -> V]
    <3>1. base \in V
      BY <1>1, <1>4
    <3>2. \A i \in 2 .. n : \A v \in V : step[i][v] = v \o ss[i] /\ step[i][v] \in V
      <4>1. ASSUME NEW i \in 2 .. n, NEW v \in V PROVE v \o ss[i] \in V
        <5>1. ss[i] \in Seq(S)
          BY <1>1
        <5>. QED
          BY <5>1, ConcatProperties
      <4>. QED
        BY <4>1
    <3>. HIDE DEF step, V, base
    <3>3. 1 \in Nat /\ 1 =< n /\ StepsWithin(V, step, 1, n)
      <4>1. \A i \in 1 + 1 .. n : i \in 2 .. n
        BY <1>1
      <4>2. \A i \in 1 + 1 .. n : \A v \in V : step[i][v] \in V
        BY <3>2, <4>1, Zenon
      <4>. QED
        BY <1>1, <1>4, <4>2 DEF StepsWithin
    <3>4. \E f : Recurs(f, V, base, step, 1, n)
      BY <1>1, <3>1, <3>3, Recursion
    <3>5. PICK f : Recurs(f, V, base, step, 1, n)
      BY <3>4
    <3>. USE DEF Recurs
    <3>6. ASSUME NEW i \in 1 .. n PROVE f[i] = one(f, i)
      <4>1. CASE i = 1
        BY <3>5, <4>1 DEF base
      <4>2. CASE i # 1
        <5>1. i \in 2 .. n /\ i - 1 \in 1 .. n
          BY <1>1, <4>2
        <5>2. f[i - 1] \in V
          BY <3>5, <5>1
        <5>3. f[i] = step[i][f[i - 1]]
          BY <3>5, <4>2
        <5>. QED
          BY <3>2, <4>2, <5>1, <5>2, <5>3
      <4>. QED
        BY <4>1, <4>2
    <3>. HIDE DEF one
    <3>7. Is(f) /\ f \in [1 .. n -> V]
      BY <3>5, <3>6
    <3>. HIDE DEF Is
    <3>. QED
      BY <3>7
  <2>2. Is(some)
    <3>. HIDE DEF Is
    <3>. QED
      BY <2>1
  <2>3. FlattenSeq(ss) = some[n]
    BY <1>1, <1>4, Zenon DEF FlattenSeq, some, Is, one, n
  <2>. HIDE DEF some
  <2>4. \A i \in 1 .. n : some[i] = one(some, i)
    BY <2>2
  <2> DEFINE F == {i \in Nat : i =< n => some[i] \in V}
  <2>5. 1 \in F
    <3>1. 1 \in 1 .. n
      BY <1>1, <1>4
    <3>. QED
      BY <1>1, <2>4, <3>1
  <2>6. ASSUME NEW i \in Nat, i >= 1, i \in F PROVE i + 1 \in F
    <3>. SUFFICES ASSUME i + 1 =< n PROVE some[i + 1] \in V
      OBVIOUS
    <3>1. i + 1 \in 1 .. n /\ i + 1 # 1 /\ (i + 1) - 1 = i /\ i =< n
      BY <1>1, <2>6
    <3>2. some[i] \in V /\ ss[i + 1] \in V /\ some[i + 1] = some[i] \o ss[i + 1]
      BY <1>1, <2>4, <2>6, <3>1
    <3>. QED
      BY <3>2, ConcatProperties
  <2>7. \A i \in 1 .. n : some[i] \in V
    <3>. HIDE DEF F
    <3>1. 1 \in Nat /\ \A i \in 1 .. n : i \in Nat /\ i >= 1 /\ i =< n
      BY <1>1
    <3>2. \A i \in 1 .. n : i \in F
      BY <2>5, <2>6, <3>1, Induction
    <3>. QED
      BY <3>1, <3>2 DEF F
  <2> DEFINE flat == [i \in 0 .. n |-> IF i = 0 THEN <<>> ELSE some[i]]
  <2>8. \A i \in 0 .. n : i # 0 => i \in 1 .. n
    BY <1>1
  <2>9. flat \in [0 .. n -> V] /\ flat[0] = <<>> /\ flat[n] = FlattenSeq(ss)
    <3>. HIDE DEF V
    <3>. QED
      BY <1>1, <1>2, <1>4, <2>3, <2>7, <2>8
  <2>10. ASSUME NEW i \in 1 .. n PROVE flat[i] = flat[i - 1] \o ss[i]
    <3>1. i \in 0 .. n /\ i # 0 /\ i - 1 \in 0 .. n /\ (i - 1 = 0 <=> i = 1)
      BY <1>1
    <3>2. flat[i] = one(some, i) /\ flat[i - 1] = IF i = 1 THEN <<>> ELSE some[i - 1]
      BY <2>4, <3>1
    <3>. HIDE DEF flat
    <3>. QED
      BY <1>1, <1>2, <3>2
  <2>. HIDE DEF flat
  <2>. QED
    BY <2>9, <2>10 DEF n
<1>. QED
  BY <1>3, <1>4

\* What is in a sequence of sequences laid end to end: what is in one of them,
\* and once if it is once in one of them alone.
LEMMA FlattenRange ==
  ASSUME NEW S, NEW ss \in Seq(Seq(S)),
         \A i \in DOMAIN ss : IsInjective(ss[i]),
         \A i, j \in DOMAIN ss : i # j => Range(ss[i]) \cap Range(ss[j]) = {}
  PROVE  /\ FlattenSeq(ss) \in Seq(S) /\ IsInjective(FlattenSeq(ss))
         /\ Range(FlattenSeq(ss)) = UNION {Range(ss[i]) : i \in DOMAIN ss}
<1> DEFINE n == Len(ss)
<1>1. n \in Nat /\ DOMAIN ss = 1 .. n /\ \A i \in 1 .. n : ss[i] \in Seq(S)
  OBVIOUS
<1>. HIDE DEF n
<1>2. PICK flat \in [0 .. n -> Seq(S)] :
         /\ flat[0] = <<>> /\ flat[n] = FlattenSeq(ss)
         /\ \A i \in 1 .. n : flat[i] = flat[i - 1] \o ss[i]
  BY FlattenSteps DEF n
<1> DEFINE Parts(i) == UNION {Range(ss[j]) : j \in 1 .. i}
           Fine(i) == /\ flat[i] \in Seq(S) /\ IsInjective(flat[i])
                      /\ Range(flat[i]) = Parts(i)
           F == {i \in Nat : i =< n => Fine(i)}
<1>3. 0 \in F
  <2>1. <<>> \in Seq(S) /\ DOMAIN <<>> = {} /\ Parts(0) = {}
    OBVIOUS
  <2>2. IsInjective(<<>>) /\ Range(<<>>) = {}
    BY <2>1 DEF IsInjective, Range
  <2>. QED
    BY <1>2, <2>1, <2>2
<1>4. ASSUME NEW i \in Nat, i >= 0, i \in F PROVE i + 1 \in F
  <2>. SUFFICES ASSUME i + 1 =< n PROVE Fine(i + 1)
    OBVIOUS
  <2>1. /\ i + 1 \in 1 .. n /\ (i + 1) - 1 = i /\ i =< n
        /\ \A j \in 1 .. i : j \in 1 .. n /\ j # i + 1
    <3>. HIDE DEF F
    <3>. QED
      BY <1>1, <1>4
  <2>2. flat[i + 1] = flat[i] \o ss[i + 1]
    BY <1>2, <2>1
  <2>3. Fine(i) /\ ss[i + 1] \in Seq(S) /\ IsInjective(ss[i + 1])
    BY <1>1, <1>4, <2>1
  <2>4. Range(flat[i]) \cap Range(ss[i + 1]) = {}
    <3>1. \A j \in 1 .. i : Range(ss[j]) \cap Range(ss[i + 1]) = {}
      BY <1>1, <2>1
    <3>. QED
      BY <2>3, <3>1
  <2>5. Parts(i + 1) = Parts(i) \cup Range(ss[i + 1])
    <3>1. 1 .. i + 1 = (1 .. i) \cup {i + 1}
      BY <1>4
    <3>. QED
      BY <3>1
  <2>. HIDE DEF Parts
  <2>6. PICK a \in Seq(S), b \in Seq(S) : a = flat[i] /\ b = ss[i + 1]
    BY <2>3
  <2>7. /\ IsInjective(a) /\ IsInjective(b) /\ Range(a) \cap Range(b) = {}
        /\ Range(a) = Parts(i) /\ flat[i + 1] = a \o b
    BY <2>2, <2>3, <2>4, <2>6
  <2>8. /\ a \o b \in Seq(S) /\ Range(a \o b) = Range(a) \cup Range(b)
        /\ IsInjective(a \o b)
    BY <2>7, ConcatRange
  <2>. QED
    BY <2>5, <2>6, <2>7, <2>8
<1>5. n \in F
  <2>. HIDE DEF F
  <2>1. 0 \in Nat /\ n >= 0
    BY <1>1
  <2>. QED
    BY <1>1, <1>3, <1>4, <2>1, Induction
<1>6. Fine(n)
  BY <1>1, <1>5
<1>. QED
  BY <1>1, <1>2, <1>6

------------------------------------------------------------------------------
(* Sums.  SumFunctionOnSet takes the members of its set in the order that  *)
(* CHOOSE gives; the sum is the same in any.                               *)

SumRec(g, f, S) ==
    g = [s \in SUBSET S |->
            IF s = {} THEN 0
            ELSE LET x == CHOOSE x \in s : TRUE IN f[x] + g[s \ {x}]]

LEMMA SumIsRec ==
  ASSUME NEW f, NEW S
  PROVE  SumFunctionOnSet(f, S) = (CHOOSE g : SumRec(g, f, S))[S]
BY Zenon DEF SumFunctionOnSet, FoldFunctionOnSet, MapThenFoldSet, SumRec

LEMMA SumRecAt ==
  ASSUME NEW f, NEW S, NEW g, SumRec(g, f, S), NEW s \in SUBSET S
  PROVE  /\ s = {} => g[s] = 0
         /\ s # {} => \E x \in s : x = (CHOOSE y \in s : TRUE) /\ g[s] = f[x] + g[s \ {x}]
<1>1. g[s] = IF s = {} THEN 0
             ELSE LET x == CHOOSE x \in s : TRUE IN f[x] + g[s \ {x}]
  BY DEF SumRec
<1>2. ASSUME s # {} PROVE (CHOOSE y \in s : TRUE) \in s
  BY <1>2
<1>. QED
  BY <1>1, <1>2, Zenon

\* A smaller set, by cardinality.
LEMMA OneLess ==
  ASSUME NEW s, IsFiniteSet(s), NEW x \in s
  PROVE  /\ IsFiniteSet(s \ {x}) /\ Cardinality(s) \in Nat /\ Cardinality(s) # 0
         /\ Cardinality(s \ {x}) \in Nat /\ Cardinality(s) = Cardinality(s \ {x}) + 1
<1>1. IsFiniteSet(s \ {x}) /\ Cardinality(s \ {x}) = Cardinality(s) - 1
  BY FS_RemoveElement
<1>2. Cardinality(s) \in Nat /\ Cardinality(s \ {x}) \in Nat
  BY <1>1, FS_CardinalityType
<1>. QED
  BY <1>1, <1>2

NatOn(f, S) == \A x \in S : f[x] \in Nat

\* There is a function that sums, on all the subsets.
LEMMA SumRecExists ==
  ASSUME NEW f, NEW S, IsFiniteSet(S), NatOn(f, S)
  PROVE  \E g : SumRec(g, f, S) /\ g \in [SUBSET S -> Nat]
<1> DEFINE N == Cardinality(S) + 1
           V == [SUBSET S -> Nat]
           one(g, s) == IF s = {} THEN 0
                        ELSE LET x == CHOOSE x \in s : TRUE IN f[x] + g[s \ {x}]
           next(g) == [s \in SUBSET S |-> one(g, s)]
           step == [i \in 1 .. N |-> [g \in V |-> next(g)]]
           base == [s \in SUBSET S |-> 0]
<1>1. Cardinality(S) \in Nat /\ N \in Nat /\ N >= 1
  BY FS_CardinalityType
<1>2. \A g \in V : \A s \in SUBSET S : one(g, s) \in Nat
  <2>1. ASSUME NEW g \in V, NEW s \in SUBSET S, s # {} PROVE one(g, s) \in Nat
    <3>1. PICK x \in s : x = (CHOOSE y \in s : TRUE)
      BY <2>1
    <3>2. f[x] \in Nat /\ g[s \ {x}] \in Nat
      BY <2>1, <3>1 DEF NatOn
    <3>3. one(g, s) = f[x] + g[s \ {x}]
      BY <2>1, <3>1
    <3>. QED
      BY <3>2, <3>3
  <2>. QED
    BY <2>1
<1>. HIDE DEF one
<1>3. \A g \in V : next(g) \in V
  BY <1>2
<1>4. base \in V
  OBVIOUS
<1>5. StepsWithin(V, step, 0, N)
  <2>. HIDE DEF V, next
  <2>1. \A i \in 0 + 1 .. N : i \in 1 .. N
    BY <1>1
  <2>. QED
    BY <1>3, <2>1 DEF StepsWithin
<1>6. \A i \in 1 .. N : \A g \in V : step[i][g] = next(g)
  <2>. HIDE DEF V, next, N
  <2>. QED
    OBVIOUS
<1>. HIDE DEF N, step, base, V
<1>7. PICK h : Recurs(h, V, base, step, 0, N)
  <2>1. 0 \in Nat /\ 0 =< N
    BY <1>1
  <2>2. \E h : Recurs(h, V, base, step, 0, N)
    BY <1>1, <1>4, <1>5, <2>1, Recursion
  <2>. QED
    BY <2>2
<1>8. h \in [0 .. N -> V] /\ \A i \in 1 .. N : h[i] = next(h[i - 1])
  <2>1. /\ h \in [0 .. N -> V]
        /\ \A i \in 0 .. N : h[i] = IF i = 0 THEN base ELSE step[i][h[i - 1]]
    BY <1>7 DEF Recurs
  <2>2. \A i \in 1 .. N : i \in 0 .. N /\ i # 0 /\ i - 1 \in 0 .. N
    BY <1>1
  <2>. HIDE DEF next
  <2>. QED
    BY <1>6, <2>1, <2>2
<1> DEFINE A == {m \in Nat : m < N =>
                    \A s \in SUBSET S : Cardinality(s) =< m => h[m + 1][s] = h[m][s]}
<1>9. 0 \in A
  <2>1. ASSUME NEW s \in SUBSET S, Cardinality(s) =< 0 PROVE h[0 + 1][s] = h[0][s]
    <3>1. IsFiniteSet(s) /\ Cardinality(s) \in Nat
      BY FS_Subset, FS_CardinalityType
    <3>2. s = {}
      BY <2>1, <3>1, FS_EmptySet
    <3>3. h[0] = base /\ h[1] = next(h[0])
      <4>1. 0 \in 0 .. N /\ 1 \in 1 .. N /\ 1 - 1 = 0
        BY <1>1
      <4>2. h[0] = base
        BY <1>7, <4>1 DEF Recurs
      <4>. HIDE DEF next
      <4>. QED
        BY <1>8, <4>1, <4>2
    <3>4. next(h[0])[s] = 0 /\ base[s] = 0
      BY <3>2 DEF one, base
    <3>. QED
      BY <3>3, <3>4
  <2>. QED
    BY <2>1
<1>10. ASSUME NEW m \in Nat, m >= 0, m \in A PROVE m + 1 \in A
  <2>. SUFFICES ASSUME m + 1 < N, NEW s \in SUBSET S, Cardinality(s) =< m + 1
                PROVE  h[(m + 1) + 1][s] = h[m + 1][s]
    OBVIOUS
  <2>1. /\ m < N /\ (m + 1) + 1 \in 1 .. N /\ m + 1 \in 1 .. N
        /\ ((m + 1) + 1) - 1 = m + 1 /\ (m + 1) - 1 = m
    BY <1>1, <1>10
  <2>2. h[(m + 1) + 1] = next(h[m + 1]) /\ h[m + 1] = next(h[m])
    <3>. HIDE DEF next
    <3>. QED
      BY <1>8, <2>1
  <2>3. h[(m + 1) + 1][s] = one(h[m + 1], s) /\ h[m + 1][s] = one(h[m], s)
    BY <2>2
  <2>4. one(h[m + 1], s) = one(h[m], s)
    <3>1. CASE s = {}
      BY <3>1 DEF one
    <3>2. CASE s # {}
      <4>1. PICK x \in s : x = (CHOOSE y \in s : TRUE)
        BY <3>2
      <4>2. IsFiniteSet(s)
        BY FS_Subset
      <4>3. Cardinality(s) \in Nat /\ Cardinality(s \ {x}) \in Nat
            /\ Cardinality(s) = Cardinality(s \ {x}) + 1
        BY <4>2, OneLess
      <4>4. s \ {x} \in SUBSET S /\ Cardinality(s \ {x}) =< m
        BY <4>3
      <4>5. h[m + 1][s \ {x}] = h[m][s \ {x}]
        BY <1>10, <2>1, <4>4
      <4>6. one(h[m + 1], s) = f[x] + h[m + 1][s \ {x}] /\ one(h[m], s) = f[x] + h[m][s \ {x}]
        BY <3>2, <4>1, Zenon DEF one
      <4>. QED
        BY <4>5, <4>6
    <3>. QED
      BY <3>1, <3>2
  <2>. QED
    BY <2>3, <2>4
<1>11. Cardinality(S) \in A
  <2>. HIDE DEF A
  <2>. QED
    BY <1>1, <1>9, <1>10, Induction
<1> DEFINE c == Cardinality(S)
<1>12. c < N /\ c \in 0 .. N /\ N \in 0 .. N /\ N \in 1 .. N /\ c + 1 = N /\ N - 1 = c
  BY <1>1 DEF N
<1>13. \A s \in SUBSET S : h[N][s] = h[c][s]
  <2>1. ASSUME NEW s \in SUBSET S PROVE Cardinality(s) =< c
    BY FS_Subset
  <2>. QED
    BY <1>11, <1>12, <2>1
<1>14. h[N] \in V /\ h[c] \in V /\ h[N] = next(h[c])
  <2>. HIDE DEF next, c
  <2>. QED
    BY <1>8, <1>12
<1>15. h[N] = h[c]
  BY <1>13, <1>14 DEF V
<1>16. SumRec(h[c], f, S)
  <2>1. h[c] = [s \in SUBSET S |-> one(h[c], s)]
    BY <1>14, <1>15, Zenon
  <2>. HIDE DEF c
  <2>. QED
    BY <2>1, Zenon DEF SumRec, one
<1>. QED
  BY <1>14, <1>16 DEF V

\* Two such functions agree.
LEMMA SumRecsAgree ==
  ASSUME NEW f, NEW S, NEW T, NEW g, NEW h, SumRec(g, f, S), SumRec(h, f, T),
         NEW r \in SUBSET (S \cap T), IsFiniteSet(r)
  PROVE  g[r] = h[r]
<1> DEFINE A == {n \in Nat : \A s \in SUBSET r : Cardinality(s) = n => g[s] = h[s]}
<1>1. \A s \in SUBSET r : /\ s \in SUBSET S /\ s \in SUBSET T
                          /\ IsFiniteSet(s) /\ Cardinality(s) \in Nat
  BY FS_Subset, FS_CardinalityType
<1>2. 0 \in A
  <2>1. ASSUME NEW s \in SUBSET r, Cardinality(s) = 0 PROVE g[s] = h[s]
    <3>1. s = {}
      BY <1>1, <2>1, FS_EmptySet
    <3>. QED
      BY <1>1, <3>1, SumRecAt
  <2>. QED
    BY <2>1
<1>3. ASSUME NEW n \in Nat, n >= 0, n \in A PROVE n + 1 \in A
  <2>1. ASSUME NEW s \in SUBSET r, Cardinality(s) = n + 1 PROVE g[s] = h[s]
    <3>1. s # {}
      BY <1>1, <2>1, FS_EmptySet
    <3>2. PICK x \in s : x = (CHOOSE y \in s : TRUE)
      BY <3>1
    <3>3. g[s] = f[x] + g[s \ {x}] /\ h[s] = f[x] + h[s \ {x}]
      <4>1. s \in SUBSET S /\ s \in SUBSET T
        BY <1>1
      <4>2. \E y \in s : y = (CHOOSE z \in s : TRUE) /\ g[s] = f[y] + g[s \ {y}]
        BY <3>1, <4>1, SumRecAt
      <4>3. \E y \in s : y = (CHOOSE z \in s : TRUE) /\ h[s] = f[y] + h[s \ {y}]
        BY <3>1, <4>1, SumRecAt
      <4>. QED
        BY <3>2, <4>2, <4>3
    <3>4. s \ {x} \in SUBSET r /\ Cardinality(s \ {x}) = n
      <4>1. Cardinality(s) = Cardinality(s \ {x}) + 1 /\ Cardinality(s \ {x}) \in Nat
        BY <1>1, OneLess
      <4>. QED
        BY <2>1, <4>1
    <3>5. g[s \ {x}] = h[s \ {x}]
      BY <1>3, <3>4
    <3>. QED
      BY <3>3, <3>5
  <2>. QED
    BY <2>1
<1>4. Cardinality(r) \in A
  <2>. HIDE DEF A
  <2>1. 0 \in Nat /\ Cardinality(r) \in Nat /\ Cardinality(r) >= 0
    BY FS_CardinalityType
  <2>. QED
    BY <1>2, <1>3, <2>1, Induction
<1>. QED
  BY <1>4

\* A sum is of the member CHOOSE takes first and of the others.
LEMMA SumFirst ==
  ASSUME NEW f, NEW S, IsFiniteSet(S), NatOn(f, S)
  PROVE  /\ SumFunctionOnSet(f, S) \in Nat
         /\ S = {} => SumFunctionOnSet(f, S) = 0
         /\ S # {} => \E x \in S : SumFunctionOnSet(f, S) = f[x] + SumFunctionOnSet(f, S \ {x})
<1> DEFINE G == CHOOSE g : SumRec(g, f, S)
<1>1. SumRec(G, f, S) /\ SumFunctionOnSet(f, S) = G[S]
  <2>1. \E g : SumRec(g, f, S)
    BY SumRecExists
  <2>. QED
    BY <2>1, SumIsRec
<1>2. PICK g : SumRec(g, f, S) /\ g \in [SUBSET S -> Nat]
  BY SumRecExists
<1>. HIDE DEF G
<1>3. G[S] = g[S]
  BY <1>1, <1>2, SumRecsAgree
<1>4. S = {} => G[S] = 0
  BY <1>1, SumRecAt
<1>5. ASSUME S # {}
      PROVE  \E x \in S : SumFunctionOnSet(f, S) = f[x] + SumFunctionOnSet(f, S \ {x})
  <2>1. PICK x \in S : G[S] = f[x] + G[S \ {x}]
    BY <1>1, <1>5, SumRecAt
  <2> DEFINE R == S \ {x}
             H == CHOOSE h : SumRec(h, f, R)
  <2>2. IsFiniteSet(R) /\ NatOn(f, R)
    BY FS_Subset DEF NatOn
  <2>3. SumRec(H, f, R) /\ SumFunctionOnSet(f, R) = H[R]
    <3>. HIDE DEF R
    <3>1. \E h : SumRec(h, f, R)
      BY <2>2, SumRecExists
    <3>. QED
      BY <3>1, SumIsRec
  <2>. HIDE DEF H
  <2>4. R \in SUBSET (S \cap R)
    OBVIOUS
  <2>. HIDE DEF R
  <2>5. G[R] = H[R]
    BY <1>1, <2>2, <2>3, <2>4, SumRecsAgree
  <2>. QED
    BY <1>1, <2>1, <2>3, <2>5 DEF R
<1>. QED
  BY <1>1, <1>2, <1>3, <1>4, <1>5

\* What holds of the empty set, and of a finite set if of it without one of
\* its members, holds of all finite sets: with P the subsets it holds of.
LEMMA BySize ==
  ASSUME NEW S, IsFiniteSet(S), NEW P, {} \in P,
         \A s \in SUBSET S : s # {} /\ (\A x \in s : s \ {x} \in P) => s \in P
  PROVE  S \in P
<1> DEFINE A == {n \in Nat : \A s \in SUBSET S : Cardinality(s) = n => s \in P}
<1>1. \A s \in SUBSET S : IsFiniteSet(s) /\ Cardinality(s) \in Nat
  BY FS_Subset, FS_CardinalityType
<1>2. 0 \in A
  <2>1. \A s \in SUBSET S : Cardinality(s) = 0 => s = {}
    BY <1>1, FS_EmptySet
  <2>. QED
    BY <2>1
<1>3. ASSUME NEW n \in Nat, n >= 0, n \in A PROVE n + 1 \in A
  <2>1. ASSUME NEW s \in SUBSET S, Cardinality(s) = n + 1 PROVE s \in P
    <3>1. s # {}
      BY <1>1, <2>1, FS_EmptySet
    <3>2. ASSUME NEW x \in s PROVE s \ {x} \in P
      <4>1. Cardinality(s) = Cardinality(s \ {x}) + 1 /\ Cardinality(s \ {x}) \in Nat
        BY <1>1, OneLess
      <4>2. s \ {x} \in SUBSET S /\ Cardinality(s \ {x}) = n
        BY <2>1, <4>1
      <4>. QED
        BY <1>3, <4>2
    <3>. QED
      BY <3>1, <3>2
  <2>. QED
    BY <2>1
<1>4. Cardinality(S) \in A
  <2>. HIDE DEF A
  <2>1. 0 \in Nat /\ Cardinality(S) \in Nat /\ Cardinality(S) >= 0
    BY FS_CardinalityType
  <2>. QED
    BY <1>2, <1>3, <2>1, Induction
<1>. QED
  BY <1>4

\* ... and of any member and of the others.
LEMMA SumWithout ==
  ASSUME NEW f, NEW S, IsFiniteSet(S), NatOn(f, S), NEW x \in S
  PROVE  SumFunctionOnSet(f, S) = f[x] + SumFunctionOnSet(f, S \ {x})
<1> DEFINE Sum(s) == SumFunctionOnSet(f, s)
           P == {s \in SUBSET S : \A y \in s : Sum(s) = f[y] + Sum(s \ {y})}
<1>1. \A s \in SUBSET S :
         /\ IsFiniteSet(s) /\ NatOn(f, s) /\ Sum(s) \in Nat
         /\ s # {} => \E z \in s : Sum(s) = f[z] + Sum(s \ {z})
  <2>1. \A s \in SUBSET S : IsFiniteSet(s) /\ NatOn(f, s)
    BY FS_Subset DEF NatOn
  <2>. QED
    BY <2>1, SumFirst
<1>. HIDE DEF Sum
<1>2. {} \in P
  OBVIOUS
<1>3. ASSUME NEW s \in SUBSET S, s # {}, \A y \in s : s \ {y} \in P PROVE s \in P
  <2>1. ASSUME NEW y \in s PROVE Sum(s) = f[y] + Sum(s \ {y})
    <3>1. PICK z \in s : Sum(s) = f[z] + Sum(s \ {z})
      BY <1>1, <1>3
    <3>2. CASE y = z
      BY <3>1, <3>2
    <3>3. CASE y # z
      <4>1. y \in s \ {z} /\ z \in s \ {y}
        BY <3>3
      <4>2. Sum(s \ {z}) = f[y] + Sum((s \ {z}) \ {y})
        BY <1>3, <4>1
      <4>3. Sum(s \ {y}) = f[z] + Sum((s \ {y}) \ {z})
        BY <1>3, <4>1
      <4>4. (s \ {z}) \ {y} = (s \ {y}) \ {z} /\ (s \ {y}) \ {z} \in SUBSET S
        OBVIOUS
      <4>5. Sum((s \ {y}) \ {z}) \in Nat /\ f[y] \in Nat /\ f[z] \in Nat
        BY <1>1, <4>4 DEF NatOn
      <4>6. PICK w \in Nat : w = Sum((s \ {y}) \ {z})
        BY <4>5
      <4>7. Sum(s \ {z}) = f[y] + w /\ Sum(s \ {y}) = f[z] + w
        BY <4>2, <4>3, <4>4, <4>6, Zenon
      <4>. QED
        BY <3>1, <4>5, <4>7
    <3>. QED
      BY <3>2, <3>3
  <2>. QED
    BY <2>1
<1>4. S \in P
  <2>. HIDE DEF P
  <2>. QED
    BY <1>2, <1>3, BySize
<1>. QED
  BY <1>4 DEF Sum

LEMMA SumType ==
  ASSUME NEW f, NEW S, IsFiniteSet(S), NatOn(f, S)
  PROVE  SumFunctionOnSet(f, S) \in Nat /\ (S = {} => SumFunctionOnSet(f, S) = 0)
BY SumFirst

\* One place more.
LEMMA SumWith ==
  ASSUME NEW f, NEW S, IsFiniteSet(S), NEW x, x \notin S, NatOn(f, S \cup {x})
  PROVE  SumFunctionOnSet(f, S \cup {x}) = f[x] + SumFunctionOnSet(f, S)
<1> DEFINE T == S \cup {x}
<1>1. IsFiniteSet(T) /\ x \in T /\ T \ {x} = S
  BY FS_AddElement
<1>. HIDE DEF T
<1>2. NatOn(f, T)
  BY DEF T
<1>. QED
  BY <1>1, <1>2, SumWithout DEF T

\* Two functions with the same values, at the places of a bijection.
LEMMA SumMoved ==
  ASSUME NEW f, NEW S, IsFiniteSet(S), NatOn(f, S), NEW g, NEW T, NEW b \in Bijection(S, T),
         \A x \in S : f[x] = g[b[x]]
  PROVE  SumFunctionOnSet(f, S) = SumFunctionOnSet(g, T)
<1> DEFINE To(s) == {b[x] : x \in s}
           P == {s \in SUBSET S : SumFunctionOnSet(f, s) = SumFunctionOnSet(g, To(s))}
<1>1. /\ \A x \in S : b[x] \in T
      /\ \A y \in T : \E x \in S : b[x] = y
      /\ \A x, y \in S : b[x] = b[y] => x = y
  BY DEF Bijection, Injection, Surjection, IsInjective
<1>2. \A s \in SUBSET S : /\ IsFiniteSet(s) /\ NatOn(f, s)
                          /\ IsFiniteSet(To(s)) /\ NatOn(g, To(s))
  <2>1. ASSUME NEW s \in SUBSET S PROVE IsFiniteSet(s) /\ IsFiniteSet(To(s))
    <3>1. IsFiniteSet(s)
      BY FS_Subset
    <3> DEFINE c == [x \in s |-> b[x]]
    <3>2. c \in Surjection(s, To(s))
      BY DEF Surjection
    <3>. HIDE DEF c
    <3>. QED
      BY <3>1, <3>2, FS_Surjection
  <2>2. ASSUME NEW s \in SUBSET S PROVE NatOn(f, s) /\ NatOn(g, To(s))
    BY DEF NatOn
  <2>. QED
    BY <2>1, <2>2
<1>3. {} \in P
  <2>1. To({}) = {} /\ {} \in SUBSET S
    OBVIOUS
  <2>2. /\ IsFiniteSet({}) /\ NatOn(f, {}) /\ NatOn(g, {})
    BY FS_EmptySet DEF NatOn
  <2>3. SumFunctionOnSet(f, {}) = 0 /\ SumFunctionOnSet(g, {}) = 0
    BY <2>2, SumType
  <2>. HIDE DEF To
  <2>. QED
    BY <2>1, <2>3
<1>4. ASSUME NEW s \in SUBSET S, s # {}, \A x \in s : s \ {x} \in P PROVE s \in P
  <2>1. PICK x \in s : TRUE
    BY <1>4
  <2>2. b[x] \in To(s) /\ To(s \ {x}) = To(s) \ {b[x]}
    BY <1>1
  <2>3. SumFunctionOnSet(f, s \ {x}) = SumFunctionOnSet(g, To(s \ {x}))
    BY <1>4
  <2>. HIDE DEF To
  <2>4. SumFunctionOnSet(f, s) = f[x] + SumFunctionOnSet(f, s \ {x})
    BY <1>2, SumWithout
  <2>5. SumFunctionOnSet(g, To(s)) = g[b[x]] + SumFunctionOnSet(g, To(s) \ {b[x]})
    BY <1>2, <2>2, SumWithout
  <2>. QED
    BY <2>2, <2>3, <2>4, <2>5
<1>5. S \in P
  <2>. HIDE DEF P
  <2>. QED
    BY <1>3, <1>4, BySize
<1>6. To(S) = T
  BY <1>1
<1>. QED
  BY <1>5, <1>6

LEMMA SumEqual ==
  ASSUME NEW f, NEW S, IsFiniteSet(S), NatOn(f, S), NEW g, \A x \in S : f[x] = g[x]
  PROVE  SumFunctionOnSet(f, S) = SumFunctionOnSet(g, S)
<1> DEFINE b == [x \in S |-> x]
<1>1. b \in Bijection(S, S) /\ \A x \in S : f[x] = g[b[x]]
  BY DEF Bijection, Injection, Surjection, IsInjective
<1>. HIDE DEF b
<1>. QED
  BY <1>1, SumMoved

\* Pointwise, two sums are one.
LEMMA SumPlus ==
  ASSUME NEW f, NEW g, NEW h, NEW S, IsFiniteSet(S), NatOn(f, S), NatOn(g, S),
         \A x \in S : h[x] = f[x] + g[x]
  PROVE  SumFunctionOnSet(h, S) = SumFunctionOnSet(f, S) + SumFunctionOnSet(g, S)
<1> DEFINE P == {s \in SUBSET S :
                   SumFunctionOnSet(h, s) = SumFunctionOnSet(f, s) + SumFunctionOnSet(g, s)}
<1>1. \A s \in SUBSET S :
         IsFiniteSet(s) /\ NatOn(f, s) /\ NatOn(g, s) /\ NatOn(h, s)
  <2>1. NatOn(h, S)
    BY DEF NatOn
  <2>. QED
    BY <2>1, FS_Subset DEF NatOn
<1>2. {} \in P
  <2>1. /\ SumFunctionOnSet(f, {}) = 0 /\ SumFunctionOnSet(g, {}) = 0
        /\ SumFunctionOnSet(h, {}) = 0
    BY <1>1, SumType
  <2>. QED
    BY <2>1
<1>3. ASSUME NEW s \in SUBSET S, s # {}, \A x \in s : s \ {x} \in P PROVE s \in P
  <2>1. PICK x \in s : TRUE
    BY <1>3
  <2> DEFINE r == s \ {x}
  <2>2. /\ SumFunctionOnSet(f, s) = f[x] + SumFunctionOnSet(f, r)
        /\ SumFunctionOnSet(g, s) = g[x] + SumFunctionOnSet(g, r)
        /\ SumFunctionOnSet(h, s) = h[x] + SumFunctionOnSet(h, r)
    BY <1>1, SumWithout
  <2>3. SumFunctionOnSet(h, r) = SumFunctionOnSet(f, r) + SumFunctionOnSet(g, r)
    BY <1>3
  <2>4. r \in SUBSET S
    OBVIOUS
  <2>. HIDE DEF r
  <2>5. /\ SumFunctionOnSet(f, r) \in Nat /\ SumFunctionOnSet(g, r) \in Nat
        /\ f[x] \in Nat /\ g[x] \in Nat /\ h[x] = f[x] + g[x]
    BY <1>1, <2>4, SumType DEF NatOn
  <2>. QED
    BY <2>2, <2>3, <2>5
<1>4. S \in P
  <2>. HIDE DEF P
  <2>. QED
    BY <1>2, <1>3, BySize
<1>. QED
  BY <1>4

LEMMA SumZero ==
  ASSUME NEW f, NEW S, IsFiniteSet(S), \A x \in S : f[x] = 0
  PROVE  SumFunctionOnSet(f, S) = 0
<1> DEFINE P == {s \in SUBSET S : SumFunctionOnSet(f, s) = 0}
<1>1. \A s \in SUBSET S : IsFiniteSet(s) /\ NatOn(f, s)
  BY FS_Subset DEF NatOn
<1>2. {} \in P
  BY <1>1, SumType
<1>3. ASSUME NEW s \in SUBSET S, s # {}, \A x \in s : s \ {x} \in P PROVE s \in P
  <2>1. PICK x \in s : TRUE
    BY <1>3
  <2>2. SumFunctionOnSet(f, s) = f[x] + SumFunctionOnSet(f, s \ {x})
    BY <1>1, SumWithout
  <2>3. SumFunctionOnSet(f, s \ {x}) = 0 /\ f[x] = 0
    BY <1>3
  <2>. QED
    BY <2>2, <2>3
<1>4. S \in P
  <2>. HIDE DEF P
  <2>. QED
    BY <1>2, <1>3, BySize
<1>. QED
  BY <1>4

\* At one place only.
LEMMA SumSingle ==
  ASSUME NEW f, NEW S, IsFiniteSet(S), NEW a \in S, f[a] \in Nat,
         \A x \in S : x # a => f[x] = 0
  PROVE  SumFunctionOnSet(f, S) = f[a]
<1>1. NatOn(f, S)
  BY DEF NatOn
<1>2. SumFunctionOnSet(f, S) = f[a] + SumFunctionOnSet(f, S \ {a})
  BY <1>1, SumWithout
<1>3. SumFunctionOnSet(f, S \ {a}) = 0
  <2>1. IsFiniteSet(S \ {a})
    BY FS_Subset
  <2>2. \A x \in S \ {a} : f[x] = 0
    OBVIOUS
  <2>. QED
    BY <2>1, <2>2, SumZero
<1>. QED
  BY <1>2, <1>3

\* Only the places that count.
LEMMA SumOver ==
  ASSUME NEW f, NEW S, IsFiniteSet(S), NatOn(f, S), NEW T \in SUBSET S,
         \A x \in S \ T : f[x] = 0
  PROVE  SumFunctionOnSet(f, S) = SumFunctionOnSet(f, T)
<1> DEFINE P == {s \in SUBSET S : SumFunctionOnSet(f, s) = SumFunctionOnSet(f, s \cap T)}
<1>1. \A s \in SUBSET S : IsFiniteSet(s) /\ NatOn(f, s) /\ s \cap T \in SUBSET S
  BY FS_Subset DEF NatOn
<1>2. {} \in P
  <2>1. {} \cap T = {}
    OBVIOUS
  <2>. QED
    BY <2>1
<1>3. ASSUME NEW s \in SUBSET S, s # {}, \A x \in s : s \ {x} \in P PROVE s \in P
  <2>1. PICK x \in s : TRUE
    BY <1>3
  <2>2. SumFunctionOnSet(f, s) = f[x] + SumFunctionOnSet(f, s \ {x})
    BY <1>1, SumWithout
  <2>3. SumFunctionOnSet(f, s \ {x}) = SumFunctionOnSet(f, (s \ {x}) \cap T)
    BY <1>3
  <2>4. CASE x \in T
    <3>1. x \in s \cap T /\ (s \cap T) \ {x} = (s \ {x}) \cap T
      BY <2>4
    <3>2. SumFunctionOnSet(f, s \cap T) = f[x] + SumFunctionOnSet(f, (s \cap T) \ {x})
      BY <1>1, <3>1, SumWithout
    <3>. QED
      BY <2>2, <2>3, <3>1, <3>2
  <2>5. CASE x \notin T
    <3>1. f[x] = 0 /\ (s \ {x}) \cap T = s \cap T
      BY <2>5
    <3>2. SumFunctionOnSet(f, s \cap T) \in Nat
      BY <1>1, SumType
    <3>. QED
      BY <2>2, <2>3, <3>1, <3>2
  <2>. QED
    BY <2>4, <2>5
<1>4. S \in P
  <2>. HIDE DEF P
  <2>. QED
    BY <1>2, <1>3, BySize
<1>5. S \cap T = T
  OBVIOUS
<1>. QED
  BY <1>4, <1>5

\* One place more at one of them.
LEMMA SumChanged ==
  ASSUME NEW f, NEW g, NEW S, IsFiniteSet(S), NatOn(f, S), NEW a \in S, NEW d \in Nat,
         g[a] = f[a] + d, \A x \in S : x # a => g[x] = f[x]
  PROVE  SumFunctionOnSet(g, S) = SumFunctionOnSet(f, S) + d
<1>1. NatOn(g, S) /\ f[a] \in Nat
  BY DEF NatOn
<1> DEFINE T == S \ {a}
<1>2. /\ SumFunctionOnSet(f, S) = f[a] + SumFunctionOnSet(f, T)
      /\ SumFunctionOnSet(g, S) = g[a] + SumFunctionOnSet(g, T)
  BY <1>1, SumWithout
<1>3. IsFiniteSet(T) /\ NatOn(f, T) /\ \A x \in T : f[x] = g[x]
  BY FS_Subset DEF NatOn
<1>. HIDE DEF T
<1>4. SumFunctionOnSet(f, T) = SumFunctionOnSet(g, T) /\ SumFunctionOnSet(f, T) \in Nat
  BY <1>3, SumEqual, SumType
<1>. QED
  BY <1>1, <1>2, <1>4

\* Where the members of sequences laid end to end are: after all those of the
\* sequences before theirs.
Lengths(ss) == [i \in DOMAIN ss |-> Len(ss[i])]
LenBefore(ss, k) == SumFunctionOnSet(Lengths(ss), 1 .. k - 1)

LEMMA LenBeforeNext ==
  ASSUME NEW S, NEW ss \in Seq(Seq(S))
  PROVE  /\ LenBefore(ss, 1) = 0
         /\ \A k \in DOMAIN ss : /\ LenBefore(ss, k) \in Nat /\ Len(ss[k]) \in Nat
                                 /\ LenBefore(ss, k + 1) = LenBefore(ss, k) + Len(ss[k])
<1>1. Len(ss) \in Nat /\ DOMAIN ss = 1 .. Len(ss) /\ \A k \in DOMAIN ss : Len(ss[k]) \in Nat
  OBVIOUS
<1> DEFINE f == Lengths(ss)
<1>2. \A k \in DOMAIN ss : f[k] = Len(ss[k])
  BY DEF Lengths
<1>. HIDE DEF f
<1>3. ASSUME NEW k \in DOMAIN ss
      PROVE  /\ LenBefore(ss, k) \in Nat
             /\ LenBefore(ss, k + 1) = LenBefore(ss, k) + Len(ss[k])
  <2>1. /\ k \in Nat /\ k # 0 /\ k \notin 1 .. k - 1
        /\ 1 .. (k + 1) - 1 = (1 .. k - 1) \cup {k}
        /\ \A j \in (1 .. k - 1) \cup {k} : j \in DOMAIN ss
    BY <1>1
  <2> DEFINE D == 1 .. k - 1
  <2>2. IsFiniteSet(D)
    BY <2>1, FS_Interval
  <2>. HIDE DEF D
  <2>3. NatOn(f, D \cup {k}) /\ NatOn(f, D) /\ k \notin D
    BY <1>1, <1>2, <2>1 DEF NatOn, D
  <2>4. SumFunctionOnSet(f, D \cup {k}) = f[k] + SumFunctionOnSet(f, D)
    BY <2>2, <2>3, SumWith
  <2>5. SumFunctionOnSet(f, D) \in Nat
    BY <2>2, <2>3, SumType
  <2>. QED
    <3>1. LenBefore(ss, k) = SumFunctionOnSet(f, D)
      BY DEF LenBefore, f, D
    <3>2. LenBefore(ss, k + 1) = SumFunctionOnSet(f, D \cup {k})
      BY <2>1, Zenon DEF LenBefore, f, D
    <3>3. f[k] = Len(ss[k]) /\ Len(ss[k]) \in Nat
      BY <1>1, <1>2
    <3>. QED
      BY <2>4, <2>5, <3>1, <3>2, <3>3
<1>4. LenBefore(ss, 1) = 0
  <2>1. 1 .. 1 - 1 = {} /\ IsFiniteSet({}) /\ NatOn(f, {})
    BY FS_EmptySet DEF NatOn
  <2>2. SumFunctionOnSet(f, {}) = 0
    BY <2>1, SumType
  <2>. QED
    BY <2>1, <2>2 DEF LenBefore, f
<1>. QED
  BY <1>1, <1>3, <1>4

LEMMA FlattenAt ==
  ASSUME NEW S, NEW ss \in Seq(Seq(S))
  PROVE  /\ FlattenSeq(ss) \in Seq(S)
         /\ Len(FlattenSeq(ss)) = LenBefore(ss, Len(ss) + 1)
         /\ \A k \in DOMAIN ss : \A r \in 1 .. Len(ss[k]) :
               /\ LenBefore(ss, k) + r \in 1 .. Len(FlattenSeq(ss))
               /\ FlattenSeq(ss)[LenBefore(ss, k) + r] = ss[k][r]
         /\ \A j \in 1 .. Len(FlattenSeq(ss)) :
               \E k \in DOMAIN ss : \E r \in 1 .. Len(ss[k]) : j = LenBefore(ss, k) + r
<1> DEFINE n == Len(ss)
<1>1. n \in Nat /\ DOMAIN ss = 1 .. n /\ \A i \in 1 .. n : ss[i] \in Seq(S)
  OBVIOUS
<1>. HIDE DEF n
<1>2. PICK flat \in [0 .. n -> Seq(S)] :
         /\ flat[0] = <<>> /\ flat[n] = FlattenSeq(ss)
         /\ \A i \in 1 .. n : flat[i] = flat[i - 1] \o ss[i]
  BY FlattenSteps DEF n
<1> DEFINE B(k) == LenBefore(ss, k)
<1>3. /\ B(1) = 0
      /\ \A k \in 1 .. n : /\ B(k) \in Nat /\ Len(ss[k]) \in Nat
                           /\ B(k + 1) = B(k) + Len(ss[k])
  BY <1>1, LenBeforeNext
<1>. HIDE DEF B
<1> DEFINE Fine(i) == /\ flat[i] \in Seq(S) /\ Len(flat[i]) = B(i + 1) /\ B(i + 1) \in Nat
                      /\ \A k \in 1 .. i : \A r \in 1 .. Len(ss[k]) :
                            /\ B(k) + r \in 1 .. B(i + 1)
                            /\ flat[i][B(k) + r] = ss[k][r]
                      /\ \A j \in 1 .. B(i + 1) :
                            \E k \in 1 .. i : \E r \in 1 .. Len(ss[k]) : j = B(k) + r
           F == {i \in Nat : i =< n => Fine(i)}
<1>4. 0 \in F
  <2>1. <<>> \in Seq(S) /\ Len(<<>>) = 0 /\ 1 .. 0 = {} /\ 0 + 1 = 1
    OBVIOUS
  <2>. QED
    BY <1>2, <1>3, <2>1
<1>5. ASSUME NEW i \in Nat, i >= 0, i \in F PROVE i + 1 \in F
  <2>. SUFFICES ASSUME i + 1 =< n PROVE Fine(i + 1)
    OBVIOUS
  <2>1. i + 1 \in 1 .. n /\ (i + 1) - 1 = i /\ i =< n
    BY <1>1, <1>5
  <2>2. Fine(i) /\ ss[i + 1] \in Seq(S)
    BY <1>1, <1>5, <2>1
  <2>3. PICK a \in Seq(S), b \in Seq(S) : a = flat[i] /\ b = ss[i + 1]
    BY <2>2
  <2>4. flat[i + 1] = a \o b /\ Len(a) = B(i + 1) /\ Len(b) = Len(ss[i + 1])
    BY <1>2, <2>1, <2>2, <2>3
  <2>5. /\ a \o b \in Seq(S) /\ Len(a \o b) = Len(a) + Len(b)
        /\ \A j \in 1 .. Len(a) + Len(b) : (a \o b)[j] = IF j <= Len(a) THEN a[j] ELSE b[j - Len(a)]
    BY ConcatProperties
  <2>6. B((i + 1) + 1) = Len(a) + Len(b) /\ B((i + 1) + 1) \in Nat
    BY <1>3, <2>1, <2>4
  <2>7. ASSUME NEW k \in 1 .. i + 1, NEW r \in 1 .. Len(ss[k])
        PROVE  /\ B(k) + r \in 1 .. B((i + 1) + 1)
               /\ flat[i + 1][B(k) + r] = ss[k][r]
    <3>1. CASE k = i + 1
      <4>1. Len(a) \in Nat /\ Len(b) \in Nat /\ r \in 1 .. Len(b) /\ B(k) = Len(a) /\ ss[k] = b
        BY <2>3, <2>4, <2>7, <3>1
      <4>2. /\ B(k) + r \in 1 .. Len(a) + Len(b) /\ ~ (B(k) + r <= Len(a))
            /\ (B(k) + r) - Len(a) = r
        BY <4>1
      <4>. QED
        BY <2>4, <2>5, <2>6, <4>1, <4>2
    <3>2. CASE k # i + 1
      <4>1. k \in 1 .. i
        BY <3>2
      <4>2. B(k) + r \in 1 .. Len(a) /\ a[B(k) + r] = ss[k][r]
        BY <2>2, <2>3, <2>4, <2>7, <4>1
      <4>3. B(k) + r \in 1 .. Len(a) + Len(b) /\ B(k) + r <= Len(a)
        BY <4>2
      <4>. QED
        BY <2>4, <2>5, <2>6, <4>2, <4>3
    <3>. QED
      BY <3>1, <3>2
  <2>8. flat[i + 1] \in Seq(S) /\ Len(flat[i + 1]) = B((i + 1) + 1)
    BY <2>4, <2>5, <2>6
  <2>9. ASSUME NEW j \in 1 .. B((i + 1) + 1)
        PROVE  \E k \in 1 .. i + 1 : \E r \in 1 .. Len(ss[k]) : j = B(k) + r
    <3>1. Len(a) \in Nat /\ Len(b) \in Nat /\ j \in 1 .. Len(a) + Len(b)
      BY <2>6
    <3>2. CASE j <= Len(a)
      <4>1. j \in 1 .. B(i + 1)
        BY <2>4, <3>1, <3>2
      <4>2. PICK k \in 1 .. i : \E r \in 1 .. Len(ss[k]) : j = B(k) + r
        BY <2>2, <4>1
      <4>3. k \in 1 .. i + 1
        BY <1>5
      <4>. QED
        BY <4>2, <4>3
    <3>3. CASE ~ (j <= Len(a))
      <4>1. j - Len(a) \in 1 .. Len(ss[i + 1]) /\ j = B(i + 1) + (j - Len(a))
        BY <2>4, <3>1, <3>3
      <4>2. i + 1 \in 1 .. i + 1
        BY <1>5
      <4>. QED
        BY <4>1, <4>2
    <3>. QED
      BY <3>2, <3>3
  <2>. QED
    BY <2>6, <2>7, <2>8, <2>9
<1>6. n \in F
  <2>. HIDE DEF F
  <2>1. 0 \in Nat /\ n >= 0
    BY <1>1
  <2>. QED
    BY <1>1, <1>4, <1>5, <2>1, Induction
<1>7. Fine(n)
  BY <1>1, <1>6
<1>. QED
  BY <1>1, <1>2, <1>7 DEF n, B

\* One sequence more at the end.
LEMMA FlattenAppend ==
  ASSUME NEW S, NEW ss \in Seq(Seq(S)), NEW x \in Seq(S)
  PROVE  FlattenSeq(Append(ss, x)) = FlattenSeq(ss) \o x
<1>0. PICK n \in Nat, tt \in Seq(Seq(S)) : n = Len(ss) /\ tt = Append(ss, x)
  <2>1. Append(ss, x) \in Seq(Seq(S))
    BY AppendProperties
  <2>2. Len(ss) \in Nat
    OBVIOUS
  <2>. QED
    BY <2>1, <2>2
<1>1. /\ DOMAIN ss = 1 .. n /\ DOMAIN tt = 1 .. n + 1 /\ Len(tt) = n + 1 /\ tt[n + 1] = x
      /\ \A k \in 1 .. n : tt[k] = ss[k]
  BY <1>0
<1>2. \A k \in 1 .. n : Len(ss[k]) \in Nat
  <2>1. \A k \in 1 .. n : ss[k] \in Seq(S)
    BY <1>1
  <2>. QED
    BY <2>1
<1>3. /\ FlattenSeq(ss) \in Seq(S)
      /\ Len(FlattenSeq(ss)) = LenBefore(ss, Len(ss) + 1)
      /\ \A k \in DOMAIN ss : \A r \in 1 .. Len(ss[k]) :
            /\ LenBefore(ss, k) + r \in 1 .. Len(FlattenSeq(ss))
            /\ FlattenSeq(ss)[LenBefore(ss, k) + r] = ss[k][r]
      /\ \A j \in 1 .. Len(FlattenSeq(ss)) :
            \E k \in DOMAIN ss : \E r \in 1 .. Len(ss[k]) : j = LenBefore(ss, k) + r
  BY FlattenAt
<1>4. /\ FlattenSeq(tt) \in Seq(S)
      /\ Len(FlattenSeq(tt)) = LenBefore(tt, Len(tt) + 1)
      /\ \A k \in DOMAIN tt : \A r \in 1 .. Len(tt[k]) :
            /\ LenBefore(tt, k) + r \in 1 .. Len(FlattenSeq(tt))
            /\ FlattenSeq(tt)[LenBefore(tt, k) + r] = tt[k][r]
  BY FlattenAt
<1>5. \A k \in DOMAIN tt : LenBefore(tt, k + 1) = LenBefore(tt, k) + Len(tt[k])
  BY LenBeforeNext
<1>6. ASSUME NEW k \in 1 .. n + 1 PROVE LenBefore(tt, k) = LenBefore(ss, k)
  <2>1. PICK f, g : f = Lengths(ss) /\ g = Lengths(tt)
    OBVIOUS
  <2>2. \A i \in 1 .. k - 1 : i \in 1 .. n /\ i \in 1 .. n + 1
    OBVIOUS
  <2>3. \A i \in DOMAIN ss : f[i] = Len(ss[i])
    BY <2>1 DEF Lengths
  <2>4. \A i \in DOMAIN tt : g[i] = Len(tt[i])
    BY <2>1 DEF Lengths
  <2>5. \A i \in 1 .. k - 1 : f[i] = g[i]
    BY <1>1, <2>2, <2>3, <2>4
  <2>6. \A i \in 1 .. k - 1 : f[i] \in Nat
    <3>1. \A i \in 1 .. n : f[i] = Len(ss[i])
      BY <1>1, <2>3
    <3>. QED
      BY <1>2, <2>2, <3>1
  <2>7. IsFiniteSet(1 .. k - 1) /\ NatOn(f, 1 .. k - 1)
    <3>1. IsFiniteSet(1 .. k - 1)
      BY FS_Interval
    <3>. QED
      BY <2>6, <3>1 DEF NatOn
  <2>8. SumFunctionOnSet(f, 1 .. k - 1) = SumFunctionOnSet(g, 1 .. k - 1)
    BY <2>5, <2>7, SumEqual
  <2>. QED
    BY <2>1, <2>8 DEF LenBefore
<1>7. PICK F \in Seq(S), G \in Seq(S) : F = FlattenSeq(ss) /\ G = FlattenSeq(tt)
  BY <1>3, <1>4
<1>8. LenBefore(tt, n + 1) = Len(F)
  <2>1. n + 1 \in 1 .. n + 1 /\ LenBefore(ss, n + 1) = Len(F)
    BY <1>0, <1>3, <1>7
  <2>. QED
    BY <1>6, <2>1
<1>9. Len(G) = Len(F) + Len(x)
  <2>1. n + 1 \in DOMAIN tt
    BY <1>1
  <2>2. LenBefore(tt, (n + 1) + 1) = LenBefore(tt, n + 1) + Len(tt[n + 1])
    BY <1>5, <2>1
  <2>. QED
    BY <1>1, <1>4, <1>7, <1>8, <2>2
<1>10. PICK l \in Nat, m \in Nat : l = Len(F) /\ m = Len(x)
  OBVIOUS
<1>11. ASSUME NEW j \in 1 .. l PROVE G[j] = F[j]
  <2>1. PICK k \in DOMAIN ss : \E r \in 1 .. Len(ss[k]) : j = LenBefore(ss, k) + r
    BY <1>3, <1>7, <1>10
  <2>2. PICK r \in 1 .. Len(ss[k]) : j = LenBefore(ss, k) + r
    BY <2>1
  <2>3. k \in 1 .. n /\ k \in 1 .. n + 1 /\ k \in DOMAIN tt /\ tt[k] = ss[k]
    BY <1>1
  <2>4. FlattenSeq(ss)[LenBefore(ss, k) + r] = ss[k][r]
    BY <1>3
  <2>5. FlattenSeq(tt)[LenBefore(tt, k) + r] = ss[k][r]
    BY <1>4, <2>3
  <2>6. LenBefore(tt, k) = LenBefore(ss, k)
    BY <1>6, <2>3
  <2>. QED
    BY <1>7, <2>2, <2>4, <2>5, <2>6
<1>12. ASSUME NEW j \in 1 .. m PROVE G[l + j] = x[j]
  <2>1. n + 1 \in DOMAIN tt /\ j \in 1 .. Len(tt[n + 1])
    BY <1>1, <1>10
  <2>2. FlattenSeq(tt)[LenBefore(tt, n + 1) + j] = tt[n + 1][j]
    BY <1>4, <2>1
  <2>. QED
    BY <1>1, <1>7, <1>8, <1>10, <2>2
<1>13. PICK a \in Seq(S) : a = F \o x
  BY ConcatProperties
<1>14. /\ Len(a) = l + m /\ Len(G) = l + m
       /\ \A j \in 1 .. l + m : a[j] = IF j <= l THEN F[j] ELSE x[j - l]
  BY <1>9, <1>10, <1>13, ConcatProperties
<1>15. ASSUME NEW j \in 1 .. l + m PROVE G[j] = a[j]
  <2>1. CASE j <= l
    <3>1. j \in 1 .. l
      BY <2>1
    <3>. QED
      BY <1>11, <1>14, <2>1, <3>1
  <2>2. CASE ~(j <= l)
    <3>1. j - l \in 1 .. m /\ l + (j - l) = j
      BY <2>2
    <3>2. G[l + (j - l)] = x[j - l]
      BY <1>12, <3>1
    <3>. QED
      BY <1>14, <2>2, <3>1, <3>2
  <2>. QED
    BY <2>1, <2>2
<1>16. G = a
  BY <1>14, <1>15
<1>. QED
  BY <1>0, <1>7, <1>13, <1>16

\* Each element of each, by a function.
Mapped(f, ss) == [j \in DOMAIN ss |-> f[ss[j]]]
AllMapped(f, ss, tt) ==
    \A k \in DOMAIN ss : /\ Len(tt[k]) = Len(ss[k])
                         /\ \A r \in 1 .. Len(ss[k]) : tt[k][r] = f[ss[k][r]]

LEMMA FlattenMap ==
  ASSUME NEW S, NEW T, NEW f, NEW ss \in Seq(Seq(S)), NEW tt \in Seq(Seq(T)),
         Len(ss) = Len(tt), AllMapped(f, ss, tt)
  PROVE  FlattenSeq(tt) = Mapped(f, FlattenSeq(ss))
<1>1. /\ FlattenSeq(ss) \in Seq(S)
      /\ Len(FlattenSeq(ss)) = LenBefore(ss, Len(ss) + 1)
      /\ \A k \in DOMAIN ss : \A r \in 1 .. Len(ss[k]) :
            /\ LenBefore(ss, k) + r \in 1 .. Len(FlattenSeq(ss))
            /\ FlattenSeq(ss)[LenBefore(ss, k) + r] = ss[k][r]
      /\ \A j \in 1 .. Len(FlattenSeq(ss)) :
            \E k \in DOMAIN ss : \E r \in 1 .. Len(ss[k]) : j = LenBefore(ss, k) + r
  BY FlattenAt
<1>2. /\ FlattenSeq(tt) \in Seq(T)
      /\ Len(FlattenSeq(tt)) = LenBefore(tt, Len(tt) + 1)
      /\ \A k \in DOMAIN tt : \A r \in 1 .. Len(tt[k]) :
            /\ LenBefore(tt, k) + r \in 1 .. Len(FlattenSeq(tt))
            /\ FlattenSeq(tt)[LenBefore(tt, k) + r] = tt[k][r]
  BY FlattenAt
<1>. SUFFICES ASSUME \A k \in DOMAIN ss :
                        /\ Len(tt[k]) = Len(ss[k])
                        /\ \A r \in 1 .. Len(ss[k]) : tt[k][r] = f[ss[k][r]]
              PROVE  FlattenSeq(tt) = Mapped(f, FlattenSeq(ss))
  BY DEF AllMapped
<1>3. DOMAIN ss = DOMAIN tt
  OBVIOUS
<1>4. Lengths(ss) = Lengths(tt)
  BY <1>3 DEF Lengths
<1>5. \A k : LenBefore(tt, k) = LenBefore(ss, k)
  BY <1>4 DEF LenBefore
<1>6. PICK F \in Seq(S), G \in Seq(T) : F = FlattenSeq(ss) /\ G = FlattenSeq(tt)
  BY <1>1, <1>2
<1>7. PICK l \in Nat : l = Len(F) /\ l = Len(G) /\ DOMAIN F = 1 .. l /\ DOMAIN G = 1 .. l
  <2>1. Len(F) = Len(G)
    BY <1>5, <1>1, <1>2, <1>6
  <2>. QED
    BY <2>1
<1>8. ASSUME NEW j \in 1 .. l PROVE G[j] = f[F[j]]
  <2>1. PICK k \in DOMAIN ss : \E r \in 1 .. Len(ss[k]) : j = LenBefore(ss, k) + r
    BY <1>1, <1>6, <1>7
  <2>2. PICK r \in 1 .. Len(ss[k]) : j = LenBefore(ss, k) + r
    BY <2>1
  <2>3. k \in DOMAIN tt /\ r \in 1 .. Len(tt[k]) /\ tt[k][r] = f[ss[k][r]]
    BY <1>3, <2>2
  <2>4. FlattenSeq(ss)[LenBefore(ss, k) + r] = ss[k][r]
    BY <1>1
  <2>5. FlattenSeq(tt)[LenBefore(tt, k) + r] = tt[k][r]
    BY <1>2, <2>3
  <2>. QED
    BY <1>5, <1>6, <2>2, <2>3, <2>4, <2>5
<1>9. G = [j \in 1 .. l |-> G[j]]
  BY <1>7
<1>. QED
  BY <1>6, <1>7, <1>8, <1>9 DEF Mapped

------------------------------------------------------------------------------
(* Sizes and sums of sets apart.                                          *)

\* A finite set as a sequence has each member once.
LEMMA SetToSeqOnce ==
  ASSUME NEW S, IsFiniteSet(S)
  PROVE  IsInjective(SetToSeq(S))
<1> DEFINE n == Cardinality(S)
<1>1. n \in Nat /\ ExistsBijection(1 .. n, S)
  BY FS_CardinalityType
<1>2. PICK f : f \in Bijection(1 .. n, S)
  BY <1>1 DEF ExistsBijection
<1>3. f \in [1 .. n -> S] /\ IsInjective(f)
  BY <1>2 DEF Bijection, Injection, IsInjective
<1>. QED
  BY <1>3 DEF SetToSeq

\* Two sets apart.
LEMMA SumJoin ==
  ASSUME NEW f, NEW A, NEW B, IsFiniteSet(A), IsFiniteSet(B), A \cap B = {},
         NatOn(f, A \cup B)
  PROVE  SumFunctionOnSet(f, A \cup B) = SumFunctionOnSet(f, A) + SumFunctionOnSet(f, B)
<1> DEFINE P == {s \in SUBSET B : SumFunctionOnSet(f, A \cup s)
                                     = SumFunctionOnSet(f, A) + SumFunctionOnSet(f, s)}
<1>1. NatOn(f, A) /\ SumFunctionOnSet(f, A) \in Nat
  <2>1. NatOn(f, A)
    BY DEF NatOn
  <2>. QED
    BY <2>1, SumType
<1>2. \A s \in SUBSET B : /\ IsFiniteSet(s) /\ IsFiniteSet(A \cup s) /\ NatOn(f, s)
                          /\ NatOn(f, A \cup s) /\ SumFunctionOnSet(f, s) \in Nat
  <2>1. ASSUME NEW s \in SUBSET B
        PROVE  IsFiniteSet(s) /\ IsFiniteSet(A \cup s) /\ NatOn(f, s) /\ NatOn(f, A \cup s)
    <3>1. IsFiniteSet(s)
      BY FS_Subset
    <3>2. IsFiniteSet(A \cup s)
      BY <3>1, FS_Union
    <3>. QED
      BY <3>1, <3>2 DEF NatOn
  <2>. QED
    BY <2>1, SumType
<1>3. {} \in P
  <2>1. A \cup {} = A /\ {} \in SUBSET B
    OBVIOUS
  <2>2. SumFunctionOnSet(f, {}) = 0
    BY <1>2, SumType
  <2>. QED
    BY <1>1, <2>1, <2>2
<1>4. ASSUME NEW s \in SUBSET B, s # {}, \A x \in s : s \ {x} \in P PROVE s \in P
  <2>1. PICK x \in s : TRUE
    BY <1>4
  <2> DEFINE rest == s \ {x}
             both == A \cup s
  <2>2. /\ rest \in SUBSET B /\ both \ {x} = A \cup rest /\ x \in both
        /\ SumFunctionOnSet(f, A \cup rest) = SumFunctionOnSet(f, A) + SumFunctionOnSet(f, rest)
    <3>1. x \notin A /\ x \in both /\ both \ {x} = A \cup rest
      OBVIOUS
    <3>2. rest \in P
      BY <1>4
    <3>. HIDE DEF rest, both
    <3>. QED
      BY <3>1, <3>2
  <2>3. SumFunctionOnSet(f, s) = f[x] + SumFunctionOnSet(f, rest)
    <3>1. IsFiniteSet(s) /\ NatOn(f, s)
      BY <1>2
    <3>. HIDE DEF P
    <3>. QED
      BY <3>1, SumWithout
  <2>4. SumFunctionOnSet(f, both) = f[x] + SumFunctionOnSet(f, both \ {x})
    <3>1. IsFiniteSet(both) /\ NatOn(f, both)
      BY <1>2
    <3>. HIDE DEF both
    <3>. QED
      BY <2>2, <3>1, SumWithout
  <2>5. f[x] \in Nat /\ SumFunctionOnSet(f, rest) \in Nat
    BY <1>2, <2>2 DEF NatOn
  <2>. HIDE DEF rest
  <2>6. SumFunctionOnSet(f, both) = SumFunctionOnSet(f, A) + SumFunctionOnSet(f, s)
    BY <1>1, <2>2, <2>3, <2>4, <2>5
  <2>. QED
    BY <2>6
<1>. HIDE DEF P
<1>5. B \in P
  BY <1>3, <1>4, BySize
<1>. QED
  BY <1>5 DEF P

\* How many are in sets apart.
Members(F, S) == UNION {F[x] : x \in S}

LEMMA UnionSize ==
  ASSUME NEW F, NEW S, NEW size, IsFiniteSet(S),
         \A x \in S : IsFiniteSet(F[x]) /\ Cardinality(F[x]) = size[x],
         \A x, y \in S : x # y => F[x] \cap F[y] = {}
  PROVE  /\ IsFiniteSet(Members(F, S))
         /\ Cardinality(Members(F, S)) = SumFunctionOnSet(size, S)
<1> DEFINE P == {s \in SUBSET S : /\ IsFiniteSet(Members(F, s))
                                  /\ Cardinality(Members(F, s)) = SumFunctionOnSet(size, s)}
<1>1. \A x \in S : size[x] \in Nat
  BY FS_CardinalityType
<1>2. \A s \in SUBSET S : IsFiniteSet(s) /\ NatOn(size, s)
  BY <1>1, FS_Subset DEF NatOn
<1>3. {} \in P
  <2>1. Members(F, {}) = {}
    BY DEF Members
  <2>2. SumFunctionOnSet(size, {}) = 0
    BY <1>2, SumType
  <2>. QED
    BY <2>1, <2>2, FS_EmptySet
<1>4. ASSUME NEW s \in SUBSET S, s # {}, \A x \in s : s \ {x} \in P PROVE s \in P
  <2>1. PICK x \in s : TRUE
    BY <1>4
  <2> DEFINE rest == s \ {x}
             T == Members(F, rest)
  <2>2. /\ rest \in SUBSET S /\ IsFiniteSet(T)
        /\ Cardinality(T) = SumFunctionOnSet(size, rest)
    BY <1>4
  <2>3. Members(F, s) = T \cup F[x] /\ T \cap F[x] = {}
    BY DEF Members
  <2>4. SumFunctionOnSet(size, s) = size[x] + SumFunctionOnSet(size, rest)
    BY <1>2, SumWithout
  <2>5. IsFiniteSet(F[x]) /\ Cardinality(F[x]) = size[x] /\ size[x] \in Nat
    BY <1>1
  <2>. HIDE DEF rest, T
  <2>6. /\ IsFiniteSet(T \cup F[x])
        /\ Cardinality(T \cup F[x]) = Cardinality(T) + size[x]
    <3>1. Cardinality(T) \in Nat /\ Cardinality({}) = 0
      BY <2>2, FS_CardinalityType, FS_EmptySet
    <3>2. PICK U : U = F[x]
      OBVIOUS
    <3>3. IsFiniteSet(U) /\ T \cap U = {} /\ Cardinality(U) = size[x]
      BY <2>3, <2>5, <3>2
    <3>4. /\ IsFiniteSet(T \cup U)
          /\ Cardinality(T \cup U) = Cardinality(T) + Cardinality(U) - Cardinality(T \cap U)
      BY <2>2, <3>3, FS_Union
    <3>5. Cardinality(T \cap U) = 0
      BY <3>1, <3>3
    <3>. QED
      BY <2>5, <3>1, <3>2, <3>3, <3>4, <3>5
  <2>7. Cardinality(T) \in Nat
    BY <2>2, FS_CardinalityType
  <2>8. /\ IsFiniteSet(Members(F, s))
        /\ Cardinality(Members(F, s)) = SumFunctionOnSet(size, s)
    BY <2>2, <2>3, <2>4, <2>5, <2>6, <2>7
  <2>. QED
    BY <2>8
<1>. HIDE DEF P
<1>5. S \in P
  BY <1>3, <1>4, BySize
<1>. QED
  BY <1>5 DEF P

\* A part taken from a finite set.
LEMMA SizeWithout ==
  ASSUME NEW S, IsFiniteSet(S), NEW T \in SUBSET S
  PROVE  /\ IsFiniteSet(T) /\ IsFiniteSet(S \ T)
         /\ Cardinality(S) \in Nat /\ Cardinality(T) \in Nat /\ Cardinality(S \ T) \in Nat
         /\ Cardinality(S) = Cardinality(S \ T) + Cardinality(T)
<1>1. IsFiniteSet(T) /\ IsFiniteSet(S \ T)
  BY FS_Subset
<1>2. (S \ T) \cup T = S /\ (S \ T) \cap T = {}
  OBVIOUS
<1>3. Cardinality(S \ T) \in Nat /\ Cardinality(T) \in Nat /\ Cardinality({}) = 0
  BY <1>1, FS_CardinalityType, FS_EmptySet
<1>4. Cardinality(S) = Cardinality(S \ T) + Cardinality(T) - 0
  BY <1>1, <1>2, <1>3, FS_Union
<1>. QED
  BY <1>1, <1>3, <1>4, FS_CardinalityType

LEMMA UpToFinite ==
  ASSUME NEW n \in Nat
  PROVE  IsFiniteSet(1 .. n) /\ Cardinality(1 .. n) = n
<1>1. 1 \in Int /\ n \in Int
  OBVIOUS
<1>2. IsFiniteSet(1 .. n) /\ Cardinality(1 .. n) = IF 1 > n THEN 0 ELSE n - 1 + 1
  BY <1>1, FS_Interval
<1>. QED
  BY <1>2

\* What a finite set has names for is no larger.
LEMMA NamedBy ==
  ASSUME NEW S, IsFiniteSet(S), NEW f, NEW T, \A y \in T : \E x \in S : f[x] = y
  PROVE  /\ IsFiniteSet(T) /\ Cardinality(T) \in Nat /\ Cardinality(S) \in Nat
         /\ Cardinality(T) <= Cardinality(S)
<1> DEFINE I == {f[x] : x \in S}
           g == [x \in S |-> f[x]]
<1>1. g \in Surjection(S, I)
  BY DEF Surjection
<1>2. IsFiniteSet(I) /\ Cardinality(I) <= Cardinality(S)
  BY <1>1, FS_Surjection
<1>3. T \in SUBSET I
  OBVIOUS
<1>. HIDE DEF I
<1>4. IsFiniteSet(T) /\ Cardinality(T) <= Cardinality(I)
  BY <1>2, <1>3, FS_Subset
<1>5. Cardinality(T) \in Nat /\ Cardinality(I) \in Nat /\ Cardinality(S) \in Nat
  BY <1>2, <1>4, FS_CardinalityType
<1>. QED
  BY <1>2, <1>4, <1>5

\* The values of a sequence without repetition, summed with those of a set
\* that has none of them.
Values(ns, m) == {ns[k] : k \in 1 .. m}

LEMMA SumMore ==
  ASSUME NEW m \in Nat, NEW ns, ns = [k \in 1 .. m |-> ns[k]], NEW f, NEW g, NEW A,
         IsFiniteSet(A), NatOn(g, A),
         \A k \in 1 .. m : ns[k] \notin A /\ f[k] \in Nat /\ f[k] = g[ns[k]],
         \A j, k \in 1 .. m : ns[j] = ns[k] => j = k
  PROVE  SumFunctionOnSet(g, A \cup Values(ns, m))
            = SumFunctionOnSet(g, A) + SumFunctionOnSet(f, 1 .. m)
<1>1. PICK S, B : S = 1 .. m /\ B = Values(ns, m)
  OBVIOUS
<1>2. IsFiniteSet(S)
  <2>1. IsFiniteSet(1 .. m)
    BY UpToFinite
  <2>. QED
    BY <1>1, <2>1
<1>3. ns \in [S -> B]
  BY <1>1 DEF Values
<1>4. ns \in Bijection(S, B)
  BY <1>1, <1>3 DEF Bijection, Injection, Surjection, IsInjective, Values
<1>5. NatOn(f, S) /\ \A k \in S : f[k] = g[ns[k]]
  BY <1>1 DEF NatOn
<1>6. SumFunctionOnSet(f, S) = SumFunctionOnSet(g, B)
  BY <1>2, <1>4, <1>5, SumMoved
<1>7. IsFiniteSet(B)
  BY <1>2, <1>4, FS_Bijection DEF ExistsBijection
<1>8. NatOn(g, A \cup B) /\ A \cap B = {}
  BY <1>1 DEF NatOn, Values
<1>9. SumFunctionOnSet(g, A \cup B) = SumFunctionOnSet(g, A) + SumFunctionOnSet(g, B)
  BY <1>7, <1>8, SumJoin
<1>. QED
  BY <1>1, <1>6, <1>9
==============================================================================
