---------------------------- MODULE MCSubproject ----------------------------
(***************************************************************************)
(* A case file for Subproject: one case with a question that has no gold   *)
(* label, one with a single question.                                      *)
(***************************************************************************)
EXTENDS Subproject

CONSTANTS yes, no

MCCases == << <<yes, NoGold>>, <<no>> >>
==============================================================================
