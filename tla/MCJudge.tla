------------------------------- MODULE MCJudge -------------------------------
(***************************************************************************)
(* The judge's two callers on small requests: a choice past the letters,   *)
(* two questions, one option, and one of each refusal; small case files:   *)
(* ties of confidence, a question without a label, a case the judge        *)
(* refuses between others, a label that names nothing, questions that do   *)
(* not parse.                                                              *)
(***************************************************************************)
EXTENDS Callers

Q(kind, n) == [kind |-> kind, n |-> n]

MCRequests ==
    {<<Q("choice", 3)>>,
     <<Q("choice", 2), Q("noul", 2)>>,
     <<Q("choice", 1), Q("score", 3)>>,
     <<Q("choice", 2), Q("choice", 4)>>,
     <<Q("noul", 2), Q("score", 1)>>,
     <<Q("choice", 0)>>,
     <<Q("noul", 2), Q("unreadable", 0)>>,
     <<>>}

MCConfigs ==
    {[permutations |-> p, layout |-> "letters", multi |-> TRUE] : p \in {0, 2, 9}}
        \cup {[permutations |-> 9, layout |-> l, multi |-> FALSE] : l \in {"letters", "jev"}}

Case(qs, gold) == [questions |-> qs, gold |-> gold]
Noul(g) == Case(<<Q("noul", 2)>>, <<g>>)

MCFiles ==
    {<<Case(<<Q("noul", 2), Q("score", 3)>>, <<1, 3>>), Noul(2)>>,
     <<Noul(1), Case(<<Q("choice", 4)>>, <<1>>), Case(<<Q("score", 3), Q("noul", 2)>>, <<NoGold, 1>>)>>,
     <<Noul(1), Noul(1), Noul(2), Case(<<Q("score", 3), Q("noul", 2)>>, <<2, 1>>)>>,
     <<Case(<<Q("choice", 1), Q("choice", 2)>>, <<1, 2>>), Noul(Stray), Noul(1)>>,
     <<Noul(1), Case(<<Q("score", 1)>>, <<1>>)>>}
==============================================================================
