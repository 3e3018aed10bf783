# Models of `xks`

TLA+ models of `xks` (Intel-Phi-Jev): a server that answers typed questions
about a document by reading next-token probabilities off a language model,
in-process over llama.cpp, on this host or on Xeon Phi cards. TLC checks the
models on small instances; TLAPS proves most of their safety for every value
of the constants.

    tlc -config EngineServer.cfg MCArtichoke     # a run: its module and .cfg
    tlapm CardsProofs.tla                        # a proof module

Names are the source's: a *session* is a request's document, a *fingerprint* a
prompt about it, a *subject* a model, a *site* where it runs, ARTICHOKE the
in-process engine, BLUEBIRD a llama-server.

## The system

| component | state | operations | hard part |
|---|---|---|---|
| Engine (`artichoke/mod.rs`) | the llama.cpp context: cells tagged by sequence; `cached`, the tokens sequence 0 holds; the labels' cache; one mutex | `score_many`, `read_control`, `read_split` | any of many decodes may fail under a kept session; two lock sections per call; cells and sequences run out |
| Judge (`judge.rs`, `score.rs`, part of `prompt.rs`, `protocol.rs`) | none between calls; a call's plans and means | `raw`, `evaluate` | readings of all questions and rotations come back as one flat list |
| HTTP server (`server.rs`, `decisions.rs`) | `busy`, `last`, the log's file | accept loop, one thread per request, kill date | handlers race the two reads the loop stops on |
| MCP server (`mcp.rs`) | none | read a line, reply | one reply per request, none per notification |
| Sites (`site.rs`) | `cards.lock` with its flock and text, a marker per card, the cards' workers | `take_cards`, `holder`, `ensure_worker`, `note_serving`, `release` | processes that only ask take the lock; crashes anywhere; other tools restart workers |
| Detached server (`main.rs`) | `serve.pid` | `serve --detach`, `stop`, `retire` | a pid file without a lock; pids reused; the address polled, not the child |
| Subprojects (`subproject.rs`, `corroborate.rs`, part of `eval.rs`) | a deadline, one child, a llama-server's guard, the rows' files | scripts of children under a budget, a record of each | killed children, a late answer, files of an earlier run |
| Polygraph (`polygraph.rs`) | the rows; the engine's session between its readings | `run`: three readings of every fingerprint | each reading leaves the session to the next; one may fall back to another |
| Evaluation (`eval.rs`, confidences of `score.rs`) | the rows, the failed cases | `run`, `run_jev`, `metrics` | a case that fails among others, rows of equal confidence |
| Doctor (`doctor.rs`) | its findings; a link on PATH, the payload's build | `run`, `place_link`, `--fix` | repeats in its own words what a query will need; several at one link |
| Query (`main.rs`, `site.rs`) | its site; a request left in a file | `query`, `prepare`, `reexec_avx512`, `hand_over` | replaces itself by another build, which starts over |
| Configuration (`config.rs`) | files, the environment | `load` | read by each process anew |
| Conditioning, ledger, prompt, wire format, build | none or files | text, sums | floating point |

How they meet: `serve` (HTTP) and `mcp` call the judge; the judge calls a
`Scorer`, once per request: the engine, or a remote backend that reads one
prompt after another. A process that serves on the `cards` or `avx512` site
takes the cards for its life before it opens the engine; on `avx512` it is
replaced by another build under `phi512` first. The doctor looks at what all of
these need before they do. `stop`, `release` and
a server past its kill date act on the workers and on `serve.pid` from outside.

What makes each correct: the engine answers every call as if it had nothing
cached; the judge hands each reading to the question and option it is about;
the servers answer every request once, log what they judged as long as the log
can be written, and stop only on nobody; one process has the cards, the lock's
file says of a holder only what it wrote, and a subject runs on the workers it
asked for; the pid file names the one detached server; an
experiment's record tells what its children did, and nothing of it is left; the
polygraph compares readings of one fingerprint; an evaluation counts every case
once; the doctor's verdict is what a query then meets; the request judged is the
request asked, through whatever processes.

## Modules

| module | models | notes |
|---|---|---|
| `LlamaMemory` | the memory of a llama.cpp context, as the engine relies on it | external: a git submodule |
| `Fingerprints` | a request to the engine as pure operators: fork point, session, limits, the labels' trie, and `Reference`, the answer it should have | a log-probability is the set of its terms: the tokens (with positions) before it, and its own |
| `Scoring` | the abstract specification of the engine: `Ask`, then the reference answer, a refusal for a fault of the request's, or a failure | no cache, no forks, no lock |
| `Artichoke` | the engine, step by step under the mutex; every decode is a plan of tokens taken in windows of `NBatch`, any of which may fail part of the way | implements `Scoring` |
| `MCArtichoke` | requests and vocabulary for TLC | |
| `Polygraph` | the polygraph's loop over the engine of `Artichoke`, whose calls it chooses; or `serve`, whose clients do | |
| `MCPolygraph` | batteries of cases for TLC | |
| `Server` | the accept loop, the handlers' threads, clock, log | what a question is answered is `Scoring`'s business |
| `Cards` | the cards' lock, workers and markers, and the commands on them | process death at every step, process ids used again |
| `MCCards` | its symmetry for TLC | |
| `Detach` | `serve.pid`, the launchers, `stop`, the servers and their addresses | pids are reused, by other programs too |
| `Judging` | the judge's call: refusals, rotations, readings, averaging, argmax, charge | |
| `Mcp` | composes `Judging` with the MCP loop | |
| `Evaluation` | the cases of a file through `Judging`, or the hosted Jev; rows, confidences, the coverage | confidences are fractions, compared exactly |
| `Callers` | composes `Mcp` and `Evaluation` over one judge | a process is one or the other |
| `MCJudge` | requests, configurations and files for TLC | |
| `Corroborate` | the rows an evaluation records, two runs compared, as pure operators; `Compared`, what the comparison should say, of sets of questions | a reading is the label it puts first; the pairs are sets of places, found by the first row with a question's key |
| `Subproject` | `subproject run`: scripts, children, deadline, llama-server, record | a script is a sequence of steps |
| `MCSubproject` | a case file for TLC | |
| `Host` | what a doctor and a query meet: pieces, cards that are up, a server, who has the cards, the configuration files, and how they change | shared state of the next two |
| `Doctor` | `xks doctor`, any number at once: the link, the checks, `--fix` | |
| `Query` | `xks query`, one after another under one process id: server or site, `prepare`, `exec`, the file the request is left in | |
| `Setup` | composes `Doctor` and `Query` on a `Host` | |
| `MCSetup` | the hosts for TLC | |
| `ArtichokeProofs` (with the polygraph's), `JudgeProofs`, `CardsProofs`, `DetachProofs`, `ServerProofs`, `SubprojectProofs`, `SetupProofs` | theorems | below |
| `DataLemmas` | lemmas on numbers, sets and sequences that the theorems share | |

### State and code

`Artichoke`: `cells` is the context's KV memory, `cached` and `labels` the
fields of `Inner`, `owner` its mutex; `plan`, `rows`, `round`, `next`, `nodes`,
`readings` are the locals of `fork_and_read` and `read_trie`. Each `Begin…`,
`Start…` action is the code up to the next decode, each `End…` what follows it,
`DecodeWindow` one iteration of `decode`'s loop, `PrefillFails`, `ForksFail`,
`ReadingFails` the error returns with their clean-up. `Return` is a function's
end: the guard goes, whatever the result. `command` is the process's: `serve`
survives an error, `polygraph` ends with it, which is why its readings may leave
tokens behind. `work` is a history variable, the tokens decoded.

`Server`: `loop` and `waited` are the loop's place in `recv_timeout`; `idle` is
the value of `last.elapsed()` between its reading and that of `busy`; `stage`
is where a handler's thread is. Time is in ticks; no tick passes while the loop
or a handler has bookkeeping to do, so only judging takes time. `quiet` is a
history variable. The log's entry is written piece by piece under the log's lock
(`BeginLine`, `EndLine`), and may break off (`BreakLine`) or not be written at
all (`NoLine`: nothing could be, or the lock is poisoned); `record` passes over
both and the client is answered. `tail` is the log's last line while it is not
ended, whose entries are on it, or `Torn`, what a broken write or a killed
server left; `lines` counts the lines that are a request's entry and nothing
else, `spoilt` is a history variable: its write failed, or began on a torn line.

`Cards`: `lock` is the flock (released with its process), `text` the file's
content, written after the flock is taken and never erased by a crash: `Free`
when the write failed, since the file is emptied first (that much is assumed to
succeed). A process id is in use from a command's beginning to its end or death
and free again after, so the old text may name another command's process.
`worker` is what polls on a card, with its configuration; `marker` what xks
wrote of it: nothing, a configuration, or `Torn`, a write that broke off. Which
site a process runs on and which cards it finds up is chosen as it takes the
lock. `given` is a history variable: somebody has run `stop` or `release`.
`Foreign` is the sibling's tools run by hand while nobody holds the lock.

`Detach`: `proc` is what each pid runs, `pidfile` the file's content. `Pinned`
keeps a pid from being reused while its launcher has not reaped it. A stale pid
in the file may come to name another program but, by assumption, not a
foreground `xks serve`: `is_server_cmdline` could not tell that one apart, and
`stop` would end it.

`Judging`: `readings` is what `score_many` returned so far, `raws` the plans'
means and charges; `Read` is the default `score_many`, one prompt after
another, and no caller can tell ARTICHOKE's from it. A reading is a weight per
label; a probability counts parts of `Unit`, which every sum of weights
divides, so that averages are exact. A temperature above zero keeps the order
of probabilities; conditioning is left out.

`Polygraph`: `battery` is the cases `--limit` keeps, `stage` what was asked of
the engine last, `table` the rows; `Engine` is a step of the engine, `Drive` the
code between two calls. Questions that do not parse and empty prompts are left
out: a battery's cases are requests the engine can be given.

`Evaluation`: `case`, `found` and `failed` are the locals of `run` (`ci`,
`rows`, `failed`), `verdict` how the command ends, `covered` what `metrics`
gives for one error allowed, `1/OneIn`. `HostedCase` is one turn of `run_jev`.

`Host`, `Doctor`, `Query`: `host` is the files and binaries the code looks for,
each there or not, `up` the cards `/sys` shows, `files` the value of `XKS_SITE`
in the two configuration files, in order; `Load` is `config::load`, for that one
key. A doctor is a record that walks `run` from check to check (`at`), `missing`
its findings of level Missing. A query's `process` is what it has in memory and
in its environment; `Exec` forgets the former and keeps the latter, as `exec`
does, and starts over at `route`; `left` is the file named for the process id,
which outlives it. `told` is a history variable, the reports made before a query
began, each with the number of changes (`since`) then still to come, so that
`since = changes` says that nothing but `--fix` has changed the host since.
`--site` and `--subject` on the command line, `--backend-kind` and `--compare`
are left out; the site aliases `host` and `phi` are the sites they stand for.

`Mcp`: a line waits in the pipe until it is read, so it is chosen when read.

`Subproject`: `at` is the place in the script of `todo`'s head, `llama` the
guard's child (`Return` and `DropLlama` are its end of scope), `read` what the
rows' files of this run hold. A child may end between `try_wait` (`StillRuns`)
and the look at the deadline (`Kill`). `Tick` may fall anywhere while time is
left. `other` is a server that has llama-server's port.

## Runs

| run | shows | bounds |
|---|---|---|
| `EngineServer` | two threads: the kept session is what `cached` says, no window lacks cells, the cost is the work, a refusal costs nothing, and the engine implements `Scoring` | 7 requests over 3 tokens: two questions at once, the same state again, one that parts from it, three questions on two forks, a trie beside letters, too long, a label of no token; `NBatch` 2 cuts every prompt in windows; context of 4 cells |
| `EngineSolo` | a recurrent subject, whose session is cleared where another is cut, serving or under the polygraph: it implements `Scoring`, the mutex is always let go, and the three readings of every row are of one fingerprint and its whole prompt | one thread, 10 requests, 7 batteries of up to 3 cases with their readings, 3 forks |
| `EngineWideTrie` | **violated**: `RoomForAll`, below | three nodes to probe, 4 cells |
| `ServerAll` | `busy` is exact; an answered client finds its line in the log, once and alone, unless that write failed or began on a torn line; the kill date stops on no accepted request; every accepted request is answered, a server nobody asks stops | 2 clients, kill date 2 ticks, `PollGap` > `Timeout`, any write of the log failing, a torn line at the start or not |
| `ServerStaleIdle` | **violated**: `QuietForKillDate`, below | one client |
| `CardsAll` | one process has the cards; from its write on the lock's file names it or nobody, whoever has an earlier holder's pid; a subject runs on the workers it asked for, whatever crashed, was not written or was meddled with, until `stop` or `release` is run | 3 process ids used over and over, 2 cards, `use`, `ask` and `stop` (`release` does with the cards what the end of `stop` does); symmetric in the ids |
| `CardsRace` | **violated**: `RunsAsAsked`, below | 2 processes, with `release` |
| `DetachSerial` | commands one at a time: the pid file names every detached server, so there is one, `stop` signals only it and leaves none, a launcher reports its own server | 2 commands, 3 pids, 2 addresses |
| `DetachRace` | **violated**: `ReportsOwn`, below | the same, commands at once |
| `McpJudge` | readings go to the options the prompts showed, rotations cancel a pull to a position, an answer is whole and charged in full; one reply per request; every case of an evaluation is counted once, with its own gold label, and the coverage is one a threshold reaches | 8 requests of 0 to 2 questions of up to 3 options, 5 configurations, weights 0 and 1 (`Unit` 6), 2 lines; the limits scaled to 2 letters, 3 options, 3 levels; files of up to 4 cases, an error of 1 in 3 allowed |
| `Setup` | what the doctor calls ready, a query finds in place, and what it misses, no query does without, but for the exceptions below; the request judged is the one asked, whatever an earlier process left; the link is a placed one's and no file is lost | hosts that lack up to two of eight pieces, any cards of 2, five settings of the site: one doctor, one query; a complete host that changes once: one doctor, two queries; three doctors at one link |
| `Subprojects` | no subproject leaves a child or a llama-server, which runs beside its own evaluation only; a record says "finished" when every child gave its result; only rows of this run are corroborated, and counted right; the command ends, whatever hangs | every subproject and `all`, budget 2 ticks, 2 cases, one question without a gold label |

Why the bounds are enough: the engine's interesting cases are a session that is
extended, cut, cleared or replaced, a round that does not fit at once, a trie
with more nodes than forks, and a failure in each window of each of these; two
threads suffice because one mutex serialises all but the label lookup, and the
other thread is then "everyone else". Two clients give every race of one
handler with the loop while another request is received. Three processes give
a holder, a contender and an asker, and a fourth only repeats a role. Three
options are the first for which a rotation differs from its inverse; a choice
of two beside another question shows readings crossing from one to the next.
Two
missing pieces are enough to hide one refusal behind another, the order in which
`prepare` refuses; two queries of one process id give a file left by the first
to the second; a third doctor removes the link the second has put in place of
the first's.

`EngineServer` checks no deadlock away: only runs whose process may end (a kill
date, a command that exits, the bound on lines) say `CHECK_DEADLOCK FALSE`.

Fairness: `Artichoke` assumes that the thread in the mutex, and some thread when
it is free, goes on; nothing is assumed of who gets it, std's mutex is not fair.
`Server` assumes that the loop, the clock and each handler run, and that a
handler that finds the log's lock free again and again gets it once (strong
fairness: it is held for the write of a line, not for a judgement); clients and
signals are free.
`Subproject` assumes that the command and the clock go on, and that `/health` is
answered or refused when asked (`ureq` has no timeout here); its children and
llama-server may hang. `Polygraph` gives the engine its fairness, and none to
its clients. `Cards`, `Detach`, `Mcp`, `Evaluation` and `Setup` state safety
only. Of `Mcp` nothing more is true: the HTTP backends' clients have no read
timeout, so a backend that accepts a call and never answers it holds up the MCP
client for ever (`mcp.rs:88`).

## Where the code does something else than it says

- `EngineWideTrie`: `check_limits` counts a fingerprint with its longest label,
  but `read_trie` probes a whole round of nodes at once, each in a cell of its
  own. A request let through finds no cell after its prefill and fails (502),
  where the comment promises a free refusal (422).
- `ServerStaleIdle`: the loop reads `last`, then `busy`. A question that ends in
  between counts for neither and the server exits right after answering it.
- `CardsRace`: `release` (and `stop`) asks whether the cards are held, lets go,
  then stops workers; a process that takes the cards in between loses them.
- `DetachRace`: a launcher polls the address, and may report another server.

The models have these too, without a run of their own: a write of the decision
log that fails, or a lock some thread has poisoned, is passed over and the
client answered without a line, and an entry written where a torn line ends is
no JSON line (`decisions.rs:84-85`, against "one JSON line per question set",
`decisions.md:3`), so `LogKept` excepts the two; the lock's file keeps a dead
holder's text, and while the flock is a probe's, or a new holder's before its
write, a refusal names whoever has that pid by then (`site.rs:246-254`), so
`NamesHolder` speaks of a holder that has written; the kill date is looked
at only after a second without any request (`server.rs:92`), so frequent
`/health` calls keep a server nobody asks alive (`StopsWhenUnasked` holds under
`PollGap` > `Timeout`); with `--forks 1`, a
request with several-token labels is refused only after its prefill
(`mod.rs:736`, against "costs nothing"); a question in tiny_http's queue when
the kill date is reached is dropped unanswered (`server.rs:94`); a process that
asks who holds the cards holds them for that moment, and can have another
refused (`site.rs:246`); a worker that was started and not seen polling has no
marker, so `stop` leaves it (`site.rs:362`); a launcher killed before it wrote
`serve.pid` leaves a server no file names (`main.rs:427`); a BLUEBIRD subproject
asks the port, and may record another server's answers (`subproject.rs:226`); `run_jev` gives up on any status that is no success and loses every row it had,
where `eval.md:20-23` says a case that fails is counted (`EveryCaseCounted` says
so of the local run alone); a
child that ends well after the deadline, before it is looked at, is taken, so a
record may exceed its budget by a poll (`subproject.rs:163`).

Of the doctor and the query: the doctor says `ready` on the `avx512` site with
card 1 alone up, or without `phi512.sh`, and a query is refused (`site.rs`
needs card 0 and the wrapper); and it says so when `XKS_CONDITIONING` names a
file that is missing or malformed, for which every query is refused before it
looks for a server (`main.rs:647-654`). `ReadyAnswers` leaves these three
outcomes out;
it says MISS of `phi` that is not on PATH, and of the payload on `avx512` with
card 0 alone, which no query needs, against `doctor.rs:21`, so `MissingIsNeeded`
excepts them, and it says MISS of a subject that is not there while a running
server would answer without it. A request handed over to the process under
`phi512` stays in its file when that process is never reached (killed, or
refused by `reexec_avx512`), against `main.rs:1024` "removed by the reader";
the next owner of the process id overwrites it (`RequestHandedOver`).
`place_link` removes what is at the link's place by then, not what it looked at
(`doctor.rs:149`): a file put there in between is lost, against "never
replaced", and `LinkPlaced` speaks of a file that was seen. The models leave
out that a key repeated in one configuration file has its first value here and
its last in the shell that sources it, and that a numeric `XKS_*` that does not
parse ends the doctor in clap before it can report it (`main.rs:630`).

## Proofs

### The engine

`ArtichokeProofs`, for any vocabulary, requests, forks, cells, batch size and
threads: `TypeCorrect`, `SessionIsKept`, `RefusalsCostNothing` and
`EngineImplementsScoring`, the refinement of `Scoring`, all from the inductive
invariant `EngineInv`.

`SessionKept` speaks of the moments the mutex is free and says nothing of the
hundreds of steps in between; `Scoring` of the answers alone. What connects them
is what a decode is *for*. `Aims(t)` gives, for each place in the code, the
aims of the decode that runs there: which sequence is to hold which tokens at
its end, and which of its rows is read. `Decoding` says that at every window
what a sequence holds and what the plan still brings it make its aim, and that
every row read had the whole of its aim in sight and no more. It is kept by a
window (`GoesOn`), started by a copy and a plan (`Starts`, `StartsRound`), and
gives the readings at the end (`Ends`). The rest of `EngineInv`: the forks not
in use hold nothing (`MemoryFits`); a round is of one-token fingerprints or of
the trie's unread nodes (`RoundFits`); every reading so far is the reference's
(`ReadingsFit`); a control reading has read every node before its place
(`ControlFits`); a free mutex means that the locals are gone and the session is
kept (`AtRest`); a run ended by an error is in no call (`Ended`). One lemma for
each action shows that it is kept; `StepEnds` then says how a call may end:
answered right, failed, or refused for a fault of its own.

`RefusalsCostNothing` assumes `Forks >= 2`: with one fork a trie is refused
after its root's decode (`mod.rs:736`), and the property is false.

`CostsAreHonest` (`CostHonest`): what a call is charged for is what reading its
fingerprints one by one would cost, whatever the windows, rounds and tries they
were read in. `CostInv` accounts for every token decoded or still planned
(`Accounted`): those of the session, once, those of the fingerprints read, and
those of the round, root or probes under way (`Underway`). A sum over the
readings says this only as long as none is read twice: no fingerprint still to
be read is among them (`RoundsAhead`), and no node of a trie (`ProbesAhead`).

`RoomUnlessWide` (`RoomForAll`): what `check_limits` lets through is enough room
for every window and round. The invariant `RoomInv` (`RoomKept`): the cells held
and the tokens planned fit the context together, at a trie's root and when its
probes are decoded they are the question at most, and between two rounds of
probes that much would be left without the forks (`Kernel`). It assumes `Narrow`.
Of a fingerprint that is within the limits, its tries fit the context beside
their question (`TriesFit`): `check_limits` looks at the longest label alone, and
`EngineWideTrie` shows the property false without. Of a trial reading (`Control`,
`Split`, which check no limits of their own) that it is within the limits, as
those of the polygraph are, whose fork reading comes first. `EngineServer`'s
requests satisfy `Narrow`.

Its last sections, for any batteries: `ThreeReadingsAreOne` (`ReadingsAgree`)
and the refinement again, under the polygraph's calls. The invariant adds to
`EngineInv` that the call in progress is the one the driver's stage names and
that its answer is the reading of it (`AnswersFit`), what the driver keeps
between its calls (`DriverFits`), and that the table stops right before the
fingerprint being read (`InOrder`). An assumption on the constants says that
the command runs on one thread, as `main` does.

### The judge and its callers

`JudgeProofs`, for any requests, configurations, weights and costs, and any
lines or files of the two callers. The readings come back as one flat list with
no question on them, so everything rests on where in it a question's are.
`PromptsAre` says that the list of prompts is that of the first question's
rotations, then the second's, and so on: `Before(k)` is where those of question
`k` begin. The invariant `JudgeInv` has the types (`ReadingsFit`, `RawsFit`:
each reading has a weight for each label of its own prompt) and, while the
readings are averaged, `OnTurn` (the next one belongs to the first question with
a rotation to come, at the rotation it waits for, and the questions after it
have had none) and `SoFar` (each option's mean is the sum of what the readings
taken said of it, and the charges are the sum of theirs). `TypeCorrect`,
`OptionsKeepTheirs` (`OptionsKeepTheirReadings`) and `WholeOrNotAtAll`
(`AnsweredWhole`) follow at the end, when all readings are taken.
`PositionsBalanced` (`Balanced`) is the sum of one distribution over all
positions: with as many rotations as options, `PositionsOnce` says that the
positions of an option under the rotations are all the positions, each once, and
a sum does not change when its terms are moved along a bijection.

`EveryRequestAnswered` (`OneReplyEach`) is from `McpInv`: as long as the server
is up, its replies are those to the lines due one, in their order, and a line
whose call is under way is due when the call ends. `CasesCounted`
(`EveryCaseCounted`) is from `EvaluationInv`: the rows found are, in order, those
of the cases before this one that did not fail (`Tallied`), and the request being
judged is this case's. `CoverageOfThreshold` (`CoverageIsThreshold`) is of any
rows: confidences are fractions of positive denominators, hence a weak order
(`FractionsCompared`); `Ranked` sorts by it (`StableSort`, from the places of a
total order on a finite set, `Places`); and the cuts of such a sort where the
value changes are the thresholds, with as many rows and as many wrong ones
(`CutsAreThresholds`). `CallersStep` says that whatever a caller does with the
judge is a step of it, so `JudgeInv` is proved once for both.

### The processes around it

`CardsProofs`, for any process ids, used any number of times, and any cards and
commands: `TypeCorrect`, `CardsExclusive`, `HolderNamed` from the inductive
invariant `TypeOK /\ NamesHolder`. `TypeOK` has the equivalence that carries
exclusion (a process has the flock exactly while it holds the cards or asks who
does); `NamesHolder` is inductive with it, for between a holder's write and its
end nobody else has the flock to write under. What the file says before that is
not claimed. `SubjectsRunAsAsked` is of `RunsUnlessReleased`, whose condition
`CardsRace` shows to be needed; its invariant `UseInv` adds that nobody gives
workers back before `given` is set (`Commanded`), and that a holder's cards that
are no longer to do have workers of its configuration and, when it is done, that
none is left to do (`Ensured`).

`DetachProofs`, for any commands, pids and addresses: `TypeCorrect` and
`StopSignalsServers`, from `Known`: a pid that the file or a command knows is a
detached server's for as long as it is a server's. With `Serial`, commands one
at a time, also `PidFileNames` (`Named`), `StopLeavesNone` (`StopEnds`) and
`LaunchersReportTheirOwn` (`ReportsOwn`), from `Follows`: a launcher past its
look knows that no detached server is left but the one it started. `DetachRace`
shows that `Serial` is needed: the code has no lock that gives it, its user has.

`ServerProofs`, for any finite number of clients and any times: `TypeCorrect`,
`BusyIsExact`, `AnswersAreLogged`, `KillDateStopsOnNobody`, from
`TypeOK /\ BusyCounts /\ Waiting /\ Written /\ OneWriter`. `Waiting` says that
queued clients are distinct and have no thread (so a receipt adds one to the
count), `Written` how many log lines a request has at each stage, and
`OneWriter` that the thread with the log's lock is on its last line, alone but
for what was torn before (so a line begun clean and ended is one entry).

`SubprojectProofs`, for any budget, cases and labels: `SubprojectsCleanUp`,
`LlamaBesideItsOwn`, `RecordsAreWhole`, from `TypeOK`, the properties themselves
and `Placed`, `Guarded`, `Gathered`: at each place of a script the guard is held
or not, and the results are those of the children before it, whatever happened
on the way. `Scripts` lists the facts of the scripts that this rests on, so that
a new script only has to be checked against them; `FailsInv` is the step all
error paths share. `OnlyThisRunsRows` adds `Recorded`: an evaluation the script
is past has left its rows, so a corroboration is given rows of this run alone.
`CompareCountsRight` says that `compare`, which walks the rows of one file and
looks each up in the other, counts what sets of questions would (`Compared`),
for any two readings: a key is in a file at most once, so a pair of rows is a
question of both. `ReportsAreOfThisRun` (`ReportsThisRun`) concludes that a
report is of what the two sides of its corroboration answered in this run.

`SetupProofs`, for any hosts, changes, doctors and queries: `RequestsHandedOver`,
from `HandedOver` (a process under `phi512` that has not read its request yet
finds it in the file, and one that has finds the file gone), and `LinksPlaced`,
from `Typed` and `LinkInv`: once a run has reported its link, the place has a
reported link, or it is empty and a run that emptied it has yet to put its own.
`ReadyIsEnough` (`ReadyAnswers`) and `MissingIsNotIdle` (`MissingIsNeeded`) are
from the invariant `Inv`. Neither is inductive: a verdict is a sum of looks
taken one after another, each to be kept until the query is at the step it is
about. `Sees` says, check by check, that a report past a check agrees with the
host; `Told`, that it does as long as the host has not changed since it began;
`Follows`, that a query begun after such a report has read the same
configuration and that what it has passed is in place (`Stands`, `Reached`).
`Kept` is what every step but `Change` preserves, `--fix` included.

### What is assumed, and what is only model-checked

`DataLemmas` proves of the library's operators what it has no theorem of: `Min`
and `Max` of naturals, by well-foundedness; `SetToSeq`; the longest common
prefix of two sequences; the parts of a concatenation. Induction and recursion
over an interval are stated there of sets (the values for which something holds,
the functions that satisfy the recursion so far), since the provers cannot use a
theorem with an operator parameter; from them, what is where in a `FlattenSeq`
(`FlattenAt`, `FlattenAppend`, `FlattenMap`) and the sums of a function over a
finite set: that they do not depend on the order, and how they change with an
element, a value, a renaming or a part set apart (`SumWith`, `SumChanged`,
`SumMoved`, `SumJoin`); the size of a union of disjoint sets is such a sum
(`UnionSize`).

Assumed: the named `ASSUME`s of the modules, evaluated by TLC in every run, the
hypotheses named above, and the theorems of the TLAPS library.

Every safety invariant and every action property of a passing run is a theorem.
Only model-checked: liveness (`LockReleased`, `AllAnswered`,
`StopsWhenUnasked`, `Ends`), under the fairness named with each run; the backends
here have no rules for it. The types of `Cards`, `Subproject` and `Setup` are
proved and no run checks them again.

## Not modelled

Loading a subject (`Artichoke::open`), the card discovery and the sibling's
scripts (a free choice of results in `Cards` and `Host`), prompt texts and the
wire format beyond what the judge refuses, HTTP clients, the log relay of
`serve --detach`, the payload's ledger, the doctor's notes and memory estimate,
and the build: pure I/O or text. Brier scores, calibration errors, percentiles,
the fit of conditioning temperatures and the distances in a polygraph's row are
sums and searches over floating point. `xks query --compare`, the hosted backend
of a query and the site on the command line add no state to `Query`. Two servers
with one decision log can mix their lines (`decisions.rs:70`): one is modelled. The case
file and rows of a run given by hand (repeated keys, for which
`b.len() - pairs.len()` may underflow, `corroborate.rs:66`) are not modelled.

## Plan

1. Done: the engine and its refinement; the server; the cards; the detached
   server; the judge, MCP and the evaluation; the polygraph; the subprojects and
   corroboration; the doctor and the query; proofs for `Cards`, `Server`,
   `Subproject` and `Setup`.
2. Done: proofs for `Artichoke` with its refinement, cost and room, `Polygraph`,
   `Detach`, `Corroborate`, `Judging`, `Mcp` and `Evaluation`.
3. Left to TLC: liveness under fairness.
4. To model, if the code grows there: `phi512`'s wrapping of a command on the
   `avx512` site in `Cards`; the backends' choice of labels.
