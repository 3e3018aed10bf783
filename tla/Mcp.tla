--------------------------------- MODULE Mcp ---------------------------------
(***************************************************************************)
(* The MCP server (src/mcp.rs): one JSON-RPC message per line on stdin,    *)
(* handled one at a time, a `judge` call through the judge, and a reply    *)
(* per request on stdout.                                                  *)
(***************************************************************************)
EXTENDS Judging

CONSTANTS Ids,        \* the ids of requests
          NoId,       \* of a notification, and in the reply to a line that is no JSON
          MaxLines    \* lines the client sends

ASSUME McpAssumption == NoId \notin Ids /\ MaxLines \in Nat

VARIABLES read,     \* the lines the server has read
          calling,  \* it is in a `judge` call, the last of them
          replies,  \* what it has written
          up        \* it runs

mcp == <<read, calling, replies, up>>
vars == <<cfg, judge, mcp>>

\* `protocol` stands for initialize, ping and tools/list.
Unjudged == {"protocol", "method not found", "unknown tool", "invalid arguments"}

Line(id, what, qs) == [id |-> id, what |-> what, questions |-> qs]
Lines ==
    {Line(NoId, "blank", <<>>), Line(NoId, "garbage", <<>>)}
        \cup {Line(i, w, <<>>) : i \in Ids \cup {NoId}, w \in Unjudged}
        \cup {Line(i, "judge", qs) : i \in Ids \cup {NoId}, qs \in Requests}

\* The server runs, or the process has another command.
Init == JudgeInit /\ read = <<>> /\ calling = FALSE /\ replies = <<>> /\ up \in BOOLEAN

\* A line is read when the one before it is done with; until then it waits in
\* the pipe.
Reads(l) ==
    /\ up /\ ~calling /\ Len(read) < MaxLines
    /\ read' = Append(read, l)

Reply(id, status) == replies' = Append(replies, [id |-> id, status |-> status])

Blank(l) == l.what = "blank"
Unanswered(l) == l.what = "blank" \/ (l.id = NoId /\ l.what # "garbage")

Skip(l) ==
    /\ Reads(l) /\ Unanswered(l)
    /\ UNCHANGED <<cfg, judge, calling, replies, up>>

StatusOf(w) ==
    CASE w = "protocol" -> "result"
      [] w = "invalid arguments" -> "tool error"
      [] OTHER -> "error"

Answer(l) ==
    /\ Reads(l) /\ ~Unanswered(l) /\ l.what # "judge"
    /\ Reply(l.id, StatusOf(l.what))
    /\ UNCHANGED <<cfg, judge, calling, up>>

Call(l) ==
    /\ Reads(l) /\ ~Unanswered(l) /\ l.what = "judge"
    /\ Judge(l.questions)
    /\ calling' = TRUE
    /\ UNCHANGED <<replies, up>>

Status == IF outcome = "answered" THEN "result" ELSE "tool error"

EndCall ==
    /\ up /\ calling /\ stage = "done"
    /\ Reply(Last(read).id, Status)
    /\ calling' = FALSE
    /\ Forget
    /\ UNCHANGED <<cfg, read, up>>

\* The client closed its end: stdin ends, or a write fails, or it is killed.
Hangup ==
    /\ up
    /\ up' = FALSE /\ calling' = FALSE
    /\ Forget
    /\ UNCHANGED <<cfg, read, replies>>

Work ==
    \/ up /\ JudgeNext /\ UNCHANGED mcp
    \/ EndCall

Next == Work \/ Hangup \/ (\E l \in Lines : Skip(l) \/ Answer(l) \/ Call(l))

\* Nothing says that a call ends: a backend's client waits for its answer
\* without a timeout.
Spec == Init /\ [][Next]_vars

------------------------------------------------------------------------------
(* Properties.                                                             *)

TypeOK ==
    /\ JudgeTypeOK
    /\ Len(read) <= MaxLines /\ Range(read) \subseteq Lines
    /\ calling \in BOOLEAN /\ up \in BOOLEAN
    /\ up => (calling <=> stage # "idle")

\* The lines that ask for a reply, but for the call under way.
AsksReply(l) == l.id # NoId \/ l.what = "garbage"
Due == {i \in DOMAIN read : AsksReply(read[i]) /\ ~(calling /\ i = Len(read))}

\* One reply for each request, with its id and in the order they came, whatever
\* became of each: never one for a notification, and none is lost to a call the
\* judge refused or the backend failed.
OneReplyEach ==
    up => /\ Len(replies) = Cardinality(Due)
          /\ \A i \in Due : replies[Cardinality({j \in Due : j <= i})].id = read[i].id
==============================================================================
