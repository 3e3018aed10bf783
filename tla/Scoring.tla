------------------------------- MODULE Scoring -------------------------------
(***************************************************************************)
(* What the engine promises, with no cache, no forks and no lock: every    *)
(* call is answered by the reading of its own prompts, refused for a fault *)
(* of its own, or fails.  The Scorer trait of src/backend/mod.rs.          *)
(***************************************************************************)
EXTENDS Fingerprints

CONSTANTS Threads, NoRequest

VARIABLES asked,    \* asked[t]: the call thread t is in, or NoRequest
          answer    \* answer[t]: what its last call returned

vars == <<asked, answer>>

NoAnswer == [status |-> "none"]
Rejected == [status |-> "rejected"]
Failed == [status |-> "failed"]
ScoredBy(r) == [status |-> "scored", marks |-> Reference(r)]

Init == asked = [t \in Threads |-> NoRequest] /\ answer = [t \in Threads |-> NoAnswer]

Ask(t, r) ==
    /\ asked[t] = NoRequest
    /\ asked' = [asked EXCEPT ![t] = r]
    /\ answer' = [answer EXCEPT ![t] = NoAnswer]

Return(t, a) ==
    /\ asked' = [asked EXCEPT ![t] = NoRequest]
    /\ answer' = [answer EXCEPT ![t] = a]

Answer(t) ==
    /\ asked[t] # NoRequest
    /\ \/ Return(t, ScoredBy(asked[t]))
       \/ MayRefuse(asked[t]) /\ Return(t, Rejected)
       \/ Return(t, Failed)

Next == \E t \in Threads : Answer(t) \/ \E r \in Requests : Ask(t, r)

Spec == Init /\ [][Next]_vars
==============================================================================
