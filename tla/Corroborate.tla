----------------------------- MODULE Corroborate -----------------------------
(***************************************************************************)
(* The rows an evaluation records (src/eval.rs) and two such runs compared *)
(* (src/corroborate.rs), as operators.  A reading is the label it puts     *)
(* first: how far two readings' probabilities are apart is left out.       *)
(***************************************************************************)
EXTENDS Integers, FiniteSets, Sequences, SequencesExt

CONSTANTS Cases,    \* the case file: of each case, its questions' gold labels
          Labels,
          NoGold,   \* of a question the case has no gold label for
          Failed    \* a case whose call the backend failed or refused

ASSUME CorroborateAssumption ==
    /\ Cases \in Seq(Seq(Labels \cup {NoGold}))
    /\ NoGold \notin Labels

\* What the judge may return for the cases, one by one.
Verdicts(case) == [DOMAIN case -> Labels] \cup {Failed}
Readings ==
    {v \in [DOMAIN Cases -> UNION {Verdicts(Cases[c]) : c \in DOMAIN Cases}] :
        \A c \in DOMAIN Cases : v[c] \in Verdicts(Cases[c])}

\* A failed case has no rows, a question without a gold label no row.
Row(c, q, label) == [key |-> <<c, q>>, top |-> label, gold |-> Cases[c][q]]
CaseRows(c, verdict) ==
    LET upTo[q \in 0 .. Len(Cases[c])] ==
            IF q = 0 THEN <<>>
            ELSE IF Cases[c][q] = NoGold THEN upTo[q - 1]
            ELSE Append(upTo[q - 1], Row(c, q, verdict[q]))
    IN  IF verdict = Failed THEN <<>> ELSE upTo[Len(Cases[c])]
RowsOf(v) == FlattenSeq([c \in DOMAIN Cases |-> CaseRows(c, v[c])])

\* compare: every row of a beside the row of b with its key, if there is one;
\* the pairs, as the places of their rows in a.
With(b, key) == {i \in DOMAIN b : b[i].key = key}
Beside(b, row) == b[CHOOSE i \in With(b, row.key) : \A j \in With(b, row.key) : j <= i]

Compare(a, b) ==
    LET pairs == {i \in DOMAIN a : With(b, a[i].key) # {}}
        Other(i) == Beside(b, a[i])
    IN  [matched      |-> Cardinality(pairs),
         only_in_a    |-> Len(a) - Cardinality(pairs),
         only_in_b    |-> Len(b) - Cardinality(pairs),
         same_argmax  |-> Cardinality({i \in pairs : a[i].top = Other(i).top}),
         accurate_a   |-> Cardinality({i \in pairs : a[i].top = a[i].gold}),
         accurate_b   |-> Cardinality({i \in pairs : Other(i).top = Other(i).gold})]

------------------------------------------------------------------------------
(* What the comparison of two readings should say, of the sets of          *)
(* questions each of them answered.                                        *)

Answered(v) ==
    {<<c, q>> : c \in {d \in DOMAIN Cases : v[d] # Failed},
                q \in UNION {DOMAIN Cases[d] : d \in DOMAIN Cases}}
GoldOf(k) == Cases[k[1]][k[2]]
Graded(v) ==
    {k \in Answered(v) : k[2] \in DOMAIN Cases[k[1]] /\ GoldOf(k) # NoGold}
Top(v, k) == v[k[1]][k[2]]

Compared(v, w) ==
    LET both == Graded(v) \cap Graded(w)
    IN  [matched      |-> Cardinality(both),
         only_in_a    |-> Cardinality(Graded(v) \ Graded(w)),
         only_in_b    |-> Cardinality(Graded(w) \ Graded(v)),
         same_argmax  |-> Cardinality({k \in both : Top(v, k) = Top(w, k)}),
         accurate_a   |-> Cardinality({k \in both : Top(v, k) = GoldOf(k)}),
         accurate_b   |-> Cardinality({k \in both : Top(w, k) = GoldOf(k)})]
==============================================================================
