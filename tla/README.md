# cortex-tutor in TLA+

A TLA+ specification of this repository: the coach service `src/tutor`, what it
keeps, what concurrent requests may do to it, and what has to be true of it all
the same; the grounding server `src/grounding_mcp`, which serves the lessons;
and the gate's regression test `src/evals`. TLC checks the modules on small instances;
TLAPS proves the theorems for every value of the constants.

    tlc -workers 2 -config DoubleSubmit.cfg MCTurnService   # one run; all of them are in PROJECT.json
    tlapm TurnServiceProofs.tla                             # one module of proofs

## 1. The system

A learner works on a problem in a *session*: a ladder of steps, six for a coding
problem, four for a conceptual one. At each step the learner submits an answer.
A *gate* model judges it; a pass moves the session up a step, a retry grants a
bigger hint; a *coach* model then replies. There are two transports. On a
server-judged session (`byok = false`) the service calls both models itself. On a
client-direct one (`byok = true`) the browser calls one model with the learner's
own key, on a prompt the service assembles, and posts verdict and reply to be
recorded. Sessions live in PostgreSQL until reset, cleared, or purged 48 hours
after their last activity.

| Component | State | Operations | Talks to |
|---|---|---|---|
| Ladders `domain/steps.py` | none | order, first, next, track of a step | used by all |
| State machine `domain/fsm.py` | `SessionState` (a value) | `transition(state, verdict)` | called by the turn pipeline |
| Verdict types `domain/verdict.py` | none | validation, fail-safe | gate, byok |
| Gate `orchestration/gate.py` | none | `evaluate`: call the judge, validate, repair once, fail safe | judge model (HTTP) |
| BYOK validation `orchestration/byok.py` | none | the same for a posted verdict; prompt text | routes |
| Turn pipeline `orchestration/turn.py` | one DB transaction | `apply_turn`, `apply_byok_turn`, `record_coach_reply` | persistence, gate, state machine |
| Persistence `persistence/*` | tables session, message, gate, gate_call, grounding_ref | locked and unlocked reads, inserts, the versioned update, deletes | PostgreSQL |
| Session routes `routes/sessions.py` | providers cached on the app | create, active, get, reset, clear-all, model, turns, prompt-bundle, byok-record | everything |
| Quotas `quotas.py` | none | sessions per user, messages per session | persistence |
| TTL purge `persistence/purge.py`, `app.py` | an hourly task | DELETE of lapsed sessions, on start and hourly | persistence |
| Catalog `models/catalog.py` | none | offer, validate and resolve a coach model | settings |
| Auth and tiers `auth.py` | a cached key set, and every key resolved from it | verify a token; allowlist; tier | Keycloak |
| Process `app.py` | the purge task | start, stop, body limit | all of the routes |
| Rate limiter `ratelimit.py` | a list of times per principal, in memory | `check` | routes |
| Grounding client and context | HTTP client | fetch a lesson, with or without its solution | grounding server |
| Grounding server `grounding_mcp` | corpus and search index, built on the first call | search, problem, lesson, outline, related | files |
| Providers, coach prompts, skills loader | HTTP clients, cached rubric files | model calls and prompt text | models |
| Evals `evals` | datasets, a frozen baseline | extract cases, make probes, replay them through the gate, compare | persistence, gate |

What is hard about it:

* **Concurrency.** Every request is an asyncio task with its own transaction at
  READ COMMITTED, and a turn awaits the grounding server and the judge in the
  middle of one. Two tabs, a retry of a turn whose answer was lost, a reset or a
  model switch during a turn, and the purge all meet on the same row. There is a
  row lock, an optimistic version and a partial unique index against that; and an
  identity map and an autoflush that undo part of it.
* **Failure between two steps.** The coach reply is a second transaction, after the
  turn was committed: the stream may break, the client leave, the process restart,
  the insert lose a race.
* **Time.** Sessions lapse while a turn slides their TTL; a rate-limited client is
  told when to come back.
* **Change.** A session stores its model and transport; allowlist, keys, backend
  and catalog change under it with every deployment.
* **A judge that says anything.** The verdict is whatever JSON a language model, or
  a browser, produced.
* **A solution that must not show.** The lesson with its worked solution is fetched
  for a step while the session may leave that step; on the server it is one
  regular expression away from what everybody sees, and one index away from what
  everybody finds.
* **A provider of keys that comes and goes**, behind two caches, one of which never
  expires.
* **Numbers that mean something.** A regression test of a judge that fails safe has
  to tell an outage from a good day.

What makes each part correct is stated with its properties in section 4. All
hazards, each at its line with the properties that would catch it, are in
`PROJECT.json`.

## 2. Modules

```
CoachSteps <- CoachFsm <- CoachLadder (abstract) <- Withholding <-+
                 ^            ^ INSTANCE, refinement              |
                 |            |            Corpus <- GroundingServer <- MCCoachLadder
                 |            |                         EvalCases <-+
                 +------- TurnService  <------------------------------- MCTurnService
                 +- GateRepair <-+- EvalRunner <----------------------+
                   CoachModels <-+- TurnPolicy <----------------------- MCTurnPolicy
                                    RateLimiter, Auth, PurgeLoop <----- MCRateLimiter
```

| Module | Models | Correspondence |
|---|---|---|
| `CoachSteps` | `domain/steps.py` | The ladder of a track is the constant `STEP_ORDER_BY_TRACK`; every helper is an operator of the same name in camel case. The shipped ladders are `ProductionOrder`. |
| `CoachFsm` | `domain/fsm.py`, `domain/verdict.py` | `Transition` with its two branches `Advance` and `Retry`. |
| `CoachLadder` | what the turn pipeline promises | The abstract specification: sessions are progress and the turns judged in them; a step judges an answer to the current step once, or replaces sessions by fresh ones. No requests, locks or database. |
| `TurnService` | routes, turn pipeline, persistence, quotas, purge | Below. |
| `Withholding` | `grounding/context.py`, `mcp_client.py`, and the routes that fetch a lesson | Below. |
| `Corpus` | `grounding_mcp/corpus.py`, `slug.py` | A corpus is a set of files with paths; what the string functions do to a name is a table; `Alphabet` is the order of the names as they are on disk. `Inside` is a sorted directory. A text is a sequence of terms with opening and closing tags between them; `Split` parts what is inside a block from the rest. |
| `GroundingServer` | `tools.py`, `search.py`, `server.py` | The index is built on the first call and kept: the recursive walk keeps a list of the entries left to visit, and passes over, collects or enters the first (`PassOver`, `CollectChapter`, `Enter`). Then one action per tool call served or turned away. A chapter's score is the number of the query's terms found in it, standing for BM25. |
| `EvalCases` | `evals/extract.py` | A session is recorded by turns and late replies, extracted into cases, labelled, and made into probes. An answer carries what the gate saw when it judged it, for the property to compare. |
| `EvalRunner` | `evals/gate_runner.py`, `schema.py` | A suite is replayed through `GateRepair`'s `Evaluate`, its metrics frozen or compared. Rates are fractions, compared by cross-multiplication. |
| `GateRepair` | `gate.py` (`evaluate`, `_coerce`), `byok.py` (`validate_client_verdict`) | A raw verdict is a record in which each field may be missing, null, of another type, out of range or not a number; the text fields count only by whether they validate or can be repaired. |
| `CoachModels` | `catalog.py`, `wants_byok` and `tier_for`, `prefers_local` | Functions of a *deployment*: the settings that matter and the shipped catalog. |
| `TurnPolicy` | the decisions of the routes on model, transport, funding and verdict | One session's stored model and transport over its life, across redeployments; requests one at a time, since their interleaving is `TurnService`'s, but a turn may find another session than it was sent to. |
| `RateLimiter` | `ratelimit.py` | One limiter; `check` has no await, so it is one step. `hits[k]` is the list `_hits[k]`, by places in the history of admitted checks. |
| `Auth` | `verify_jwt`, and the key client it uses | A token is what `verify_jwt` tells apart in it. The key fetch is synchronous, so a request is one step; Keycloak rotates its keys, becomes unreachable and comes back, time passes and the process restarts in between. |
| `PurgeLoop` | the purge task of `app.py` | A session is the time it has been idle; the task sweeps, sleeps, wakes; sweeps fail, the process dies and is started again. What one sweep does to rows in use is `TurnService`'s. |

### Withholding

A turn (for the gate) and a prompt bundle (for the learner's own model) read the
session, then fetch the lesson for a step, with or without its solution, and only
then put a prompt together. `request` is one of them that has its lesson in hand,
`prompt` the prompt made last. Between the two, `OthersMove` lets everything happen
to the session that `CoachLadder` allows, which `TurnService` implements. A turn's step is
compared with that of the session it locks (`TurnIsJudged`, `TurnIsRefused`); but if that is
the session it read, the locked SELECT answers with the instance in memory (`own`), so the
gate may be asked about a step that is over. That turn is then rolled back by the version guard,
`Outdated`: it is taken to be sound here; where it is not, the run LostUpdate tells.
A bundle is compared with nothing. Any lesson may come back without a solution: it may
have none, and an outage degrades to no lesson. Transports are not told apart here, so requests are allowed
that the routes refuse: an over-approximation, which these properties survive.

### TurnService

`session`, `message`, `gate`, `gateCall`, `lapsed` and `minted` are the committed
database. `pc[r]` is the statement request r is about to run, and `at`, `mem`,
`hold`, `del`, `seq` are its transaction: the row it works on, its ORM instance, the
rows it holds locked, the rows its DELETE has still to reach, and the sequence
number it computed. One action is one SQL statement, or several between which no
other task can tell the difference: between two actions a task awaits a lock, a
model, a commit or a client.

| Handler | Actions |
|---|---|
| `create_session` | `Create`, `CreateInsert` |
| `submit_turn` with `apply_turn` | `TurnRead`, `TurnScan`, `TurnLock`, `TurnLazyCreate`, `TurnBegin` (or `Replay`), `TurnGate` or `GateRaises`, `TurnFlush`, `CoachStream`, `CoachWrite`, `CoachCommit` |
| `record_byok_turn` with `apply_byok_turn` | `Address`, `ByokLock`, `ByokRecord` |
| `change_session_model` | `Address`, `ModelSwitch`, `ModelEcho` |
| `reset_session` | `Address`, `ResetLock`, `Sweep`, `ResetCommit` |
| `clear_all_sessions`, `purge_expired` | `DeleteScan`, `Sweep`, `DeleteCommit` |
| surroundings | `Lapse`, `Crash`, `DeadlockAbort` |

Outside the repository, and modelled from how it is used (PostgreSQL at READ
COMMITTED, SQLAlchemy with `expire_on_commit=False`):

* `SELECT ... FOR UPDATE` takes its row from a snapshot, waits for the row's lock and
  looks at its predicate again; a row that no longer fits is not returned.
* A unique index makes an INSERT wait for a transaction that inserted or deleted
  the same key, then fail if the key is there. A foreign key takes `FOR KEY SHARE`
  on the session row. ON DELETE CASCADE deletes a session's rows with it. A
  deadlock is detected, and one of its transactions aborted.
* The identity map answers a second SELECT of a row, a locked one too, with the
  instance already loaded. A bulk UPDATE of the ORM also updates the instance. A
  dirty instance is flushed, by id and with no version in the WHERE, before the
  next SELECT. A session closed without commit rolls back.

## 3. Plan

In this order, the most important behaviour first.

1. Ladder and state machine, as the vocabulary and the abstract specification
   (`CoachSteps`, `CoachFsm`, `CoachLadder`). *Done, with proofs.*
2. The turn service under concurrency (`TurnService`), its invariants, its
   refinement of the ladder, liveness, and the claims of the repository it does not
   keep. *Done, with proofs of all but the liveness.*
3. Rate limiter (`RateLimiter`). *Done, with proofs.*
4. Model choice, funding and verdicts across deployments (`CoachModels`,
   `GateRepair`, `TurnPolicy`). *Done, with proofs.*
5. When the worked solution may reach a prompt (`Withholding`, over `CoachLadder`).
   *Done, with proofs.*
6. The grounding server (`Corpus`, `GroundingServer`). *Done, with proofs.*
7. Sign-in and the purge loop (`Auth`, `PurgeLoop`). *Done, with proofs
   of all but the liveness.*
8. Evals: cases, probes, replays, baseline (`EvalCases`, `EvalRunner`). *Done, with
   proofs.*
9. Left, if they earn it: the two read-only routes under concurrent turns.

## 4. The runs

Bounds: two or three requests with two turn ids against one problem are enough for
every pair of handlers to meet at every statement and for a third to come between;
a run that needs more says so. The ladder of the concurrent runs has two steps,
enough for "the current step", "the next one" and "the last one" to differ.
`MaxSid` is the seeds plus the sessions the offered calls can create, so it stops
no create the code would perform.

Three runs check parts of the system that share no state. The variable `part` is
chosen initially and never changes; it says which part a behaviour runs, the others
keep still in one of their states. So each part is explored alone and whole, and
the states of the run are the sum of the parts', not the product.

### Ladder (`MCCoachLadder`)

*Part "ladder"*: one session on either shipped ladder, every kind of verdict, seven
answers (six steps and one more), with turns and bundles in flight. `ClearedInOrder`: the steps with a score are
those before the current one. `HintsFollowAttempts`: n failed attempts grant at least
hint level n. `ClimbsOnly`: a session climbs its own ladder one rung at a time.
`SolutionOnlyOnceReached`: a solution is put before a model only after a session of
the learner's was at implement or test. `GateContextFitsStep`: an answer is recorded only
as judged in the context of the step the stored session stood on, although the gate may be
asked about the step of an older instance. One session suffices for its predecessors, too:
its id is used again after a reset, and `reached` remembers.

*Part "grounding"*: the server over a corpus with every kind of path (numbered, plain,
index, hidden, asset, no slug, a number and nothing else, two files of one id), one with
equal chapters in two books, and one lesson with every text of up to five blocks,
tags in any order, which includes two blocks, text between, nesting and a tag left
open; of up to four blocks also with the first heading at every place, inside a block or out.
Lists are cut at two and texts at four, so that caps are both met and not.
`SolutionWithheld` is `Withheld` (what is not asked for is not shown, by title, summary or
text), `SolutionsUnsearchable` (nor found by) and `NothingElseHidden` (and nothing else is
hidden); it excepts a heading inside a block that became the title, and nothing more.
`ResolvesUnlessMangled`: an id that is given out is accepted, except exactly those with a
slug that `slug_like` refuses. In the corpora one name is such: "Izmir" stands for
"İzmir", whose first letter is lowered to a letter and a combining dot.
`OutlineFollowsSidebar` is `SidebarOrder` (the walk visits each chapter once, in the
order the sidebar shows, which is stated by comparing two paths where they part) and `OutlineIsBeginning` (as much of it as the budget takes).
`FindsTheBest` is `TopRanked` (a search in one book is as good as a search of it alone)
and `RelatedIsFull` (the chapter itself does not take a neighbour's place).

*Part "cases"*: sessions of up to four messages on three steps, two texts, a gate that
recalls two messages. `TranscriptCoversSeen`: a case holds what the gate saw, in order;
the rest is older than the window, and nothing was written while the gate was asked.
`ProbesAreFair` is `ProbesFitTheirStep` (transcript and context are of a case that
passed the probed step) and `ProbedOnce` (each answer at each such step, once).

### DoubleSubmit (`MCTurnService`)

Three submissions to one server-judged session, two of which may carry the same
turn id. `AuditTrail`: one gate call for each answer in the transcript, no turn
judged twice, no judged answer lost from the row. `GateLedger`: the gate table tells
the story of the session row. `ImplementsLadder`: every behaviour is one of
`CoachLadder`, under the refinement mapping that reads progress from the session
and gate rows and the judged turns from the transcript.

### Switching

A turn, a model switch, and a turn on either path or the purge, while TTLs lapse.
`SwitchStopsTurn`: a turn admitted before a switch to a client-direct model does not
judge the session after it. `RepliesFollowAnswers`: a reply stands behind its answer,
once. `PurgeSparesActivity`: what the purge deletes is lapsed when it commits, even
if a turn slid the TTL while the DELETE waited.

### StartOvers

Turns, creates, resets and clear-all racing for the active row of one problem, from
an empty database or one session, with restarts, deadlocks, 503s and clients that go
away. `LocksExclusive`, `OneActive`, and, under fairness, `Answered`: every request
that arrives is answered.

*Fairness.* Weak fairness of each request's own handler, nothing else. The event loop
runs every ready task; the model, grounding and token calls have timeouts; the
database wakes a waiting statement and breaks deadlocks. No fairness of clients, of
the clock, of lapsing sessions or of restarts.

### OwnKey

A capped learner: creates and client-judged turns, replays included, up to both
quotas (two sessions, three messages). `MessageCap`: the transcript never outgrows the
quota, but for the reply of its last answer. The message quota is odd, so that the second
turn passes the check with two messages and leaves four. The turns are
client-judged because a capped principal's sessions are.

### Limits (`MCRateLimiter`)

*Part "limiter"*: two principals, two admissions per window of two seconds, a tick of
half a second, two windows long. `WindowCap`: no window, wherever it starts, admits more
than the limit. `RefusesOnlyAtLimit`: a refusal is always due. `RetryAfterSuffices`: a
client that waits as told finds room, and a second earlier it would not have.

*Part "auth"*: two keys, tokens that are sound or wrong in one respect, a cached set
that expires after one tick of three, so that a key can be retired, cached, expired
and asked for during an outage. `AdmitsTheSound` is `SoundTokenGetsIn` (also right after
a rotation) and `OnlySoundTokens` (caches never stand in for a token's own checks).
`RefusalTellsFault` is `StatusTellsFault` (401 is the token's fault, 503 is not) and
`OutageSparesTheSignedIn` (whose key has let somebody in does not notice an outage).

*Part "purge"*: two sessions, a TTL and an hour of two ticks each; idle times are told
apart up to six ticks, beyond TTL and hour. `GoneWithinTheHour`: while sweeps succeed
and the process is there, no session outlives its TTL by more than the hour, however
often the process is restarted. `LapsedGo`: a lapsed session goes, or is active again.

*Fairness*, for `LapsedGo`: weak fairness of the task's waking, of the start of a process
that died, and of time; strong fairness of a successful sweep. The event loop runs the
task, the platform restarts the process, and a database that is asked again and again
does answer: that the loop does ask again, after a failure, is what is checked.

### Policy (`MCTurnPolicy`)

*Part "routes"*: one session through every request, redeployed among 26 deployments: with
and without server key, local backend and allowlist entry; the catalog as shipped,
before it dropped a model, and with a local-only homelab; dev settings. Raw verdicts
are off in one field, or in verdict and score, or in any of the text fields.
`TransportFollowsProvider`: a session is client-direct exactly when its model is not
local. `ServerKeySpentAstray`: the server's key pays the coach of nobody but a homelab
caller whose turn found, in place of the session it was sent to, a client-direct one.
`OfferHolds`: a model that was offered and picked finds a coach until the next
deployment. `BundleIsCallable`: a bundle names a cloud model of the running catalog.
`NeverGrants`: no repair makes a pass. `ScoreAsMeant`: a repaired score is the
judge's, to the nearest ten, ties down.

*Part "evals"*: suites of two cases or one, replayed twice, through verdicts that are
right, wrong, repairable, beyond repair or missing, and ones that end the run; one suite
has a case without a label. Two replays are the fewest that can differ.
`BaselineTells` is `OutageIsRegression` (a run in which the judge never answered does
not pass for a good one) and `OwnBaselineHolds` (equal is not worse). `ReportTells` is
`AccurateIsStable` (no flips where everything is right) and `ShapesMatchSchema` (a
verdict that misses the schema has a failure shape, with the exceptions named there).

### Where code and documentation part

Five runs expect a violation; each checks what a comment, the contract or a
migration says, and TLC finds what the code does.

| Run | Claim | What happens |
|---|---|---|
| LostUpdate | `save_state` returns False "if another writer advanced first" (`repo.py:245`) | The version counted up after the commit (`turn.py:176`) is flushed unguarded and committed with the grounding row. It can bring a version back that another turn read, whose guarded update then matches and overwrites a judged answer. Needs four writers. |
| OtherSession | The server-key path is closed to BYOK sessions (`sessions.py:375`) | The check is on the addressed session, the judgement on the problem's active one: after a reset and a switch that is another, client-direct one. |
| Repost | "re-POSTing the same turnId replays the committed result" (openapi:120) | The recorded reply is looked up under the session's current step: after a pass it is not found and the replay's reply is empty. |
| ResetRace | The fresh session of a reset "can't collide" (`sessions.py:270`) | The row a reset locks may be a completed one; a create in between makes its INSERT fail. |
| JudgeKind | A client-side verdict never passes for the server's (`0003-byok-judge-kind.sql:6`) | `upsert_gate` leaves `judge_kind` alone on conflict. |

Seen while modelling, and told here without a run of their own:

* What OtherSession shows costs more than the judge: the coach is resolved from the session
  found, and for a homelab caller's Claude pick with a server key it streams on that key.
  `ServerKeySpentAstray` says that this is the only way. So a homelab cloud pick does reach
  `resolve_coach`, which `src/tests/test_catalog.py:168-171` says it never does, and spends the
  server key, which `catalog.py:57-60` says it never does. No race is needed: a turn that is
  sent to a completed session finds the client-direct one that was begun after it.
* Two concurrent creates for one problem: the slower answers 500, where the contract
  (openapi:66) calls the operation idempotent.
* The row lock that "first" guards a double submit (`repo.py:43`) is answered from the
  identity map: the holder works on the row it read before it waited, and the
  version check is what saves it, after the judge was paid for.
* A turn may be refused as stale although nobody advanced, by the same flush as in
  LostUpdate.
* Creates for different problems that check the quota together overshoot it.
* `validate_choice(None, ...)` returns the homelab default without a local backend,
  where its docstring promises to fail closed (`catalog.py:180-182`); the turns of such
  a session are judged and then answered 503.
* `_coerce` raises on an unhashable verdict and on an infinite hint level, and on a raw
  verdict that is no object, where its docstring has "anything this can't fix" fall
  through to the fail-safe (`gate.py:158-159`). The turn answers 500 and is rolled back
  (`GateRaises`).
* A learner who left the allowlist and has an old local session still has its turns
  judged on the server's gate key before the 503.
* `FixedWindowLimiter` is a sliding log of times, which is stricter than its name. It
  keeps an entry per principal for ever.
* A message quota that is odd is overshot by the reply of a client-judged turn.
* A prompt bundle in flight survives a reset of its session: it is sent for the step the
  session had, solution included (`SolutionOnlyOnceReached` is about having been there
  once, which still holds).
* A `gate_call` row carries the rubric stamp of the session, not of the rubrics in use
  (`turn.py:143`), so after a redeployment it is not the "prompt provenance" of
  `evals/README.md:28`.
* A token whose header names no key answers 503, where `auth.py:86` says 401. A key that
  was resolved is accepted until the process restarts, also once retired: its cache does
  not heed the lifespan. While the keys are fetched no other request runs.
* "Every payload is capped server-side" (`tools.py:3`) does not hold for a negative limit,
  which `min` lets through and the slice takes for a count from the end.
* Nested `<details>` blocks, or one left open, show what stands behind the first closing
  tag, or all; `corpus.py:12-13` assumes there are none. Without a title in its front matter
  a lesson is named after the first heading of the body as it stands, solution included
  (`corpus.py:147`): a heading inside a block is then shown by every tool, and found by.
* A chapter with an "İ" in its path is listed and cannot be read: `slugify` lowers the letter to
  an "i" and a combining dot (`slug.py:40`), which `slug_like` refuses when the id comes
  back (`slug.py:72`).
* With a `max_related` of 0, `list_related` returns one neighbour (`tools.py:85` looks after it
  has appended). `ServerAssumption` has at least 1.
* Two files may have one id (a name that is a number alone leaves no segment): both are
  listed, only the last is served. A book order of 0 counts as none.
* A file that is not UTF-8 makes every tool call fail: `_safe_read` expects `OSError` only.
  The index is as old as the process.
* An extracted transcript is not "exactly as the gate saw it" (`schema.py:3`): it has the
  messages before the gate's window, and a context that is rebuilt even where the gate had
  none. (No reply comes while the gate thinks: its foreign key waits for the row.)
* The same answer labelled a pass at two steps gives probes that contradict its cases.
  Case ids that recur across datasets are not noticed.
* A wrong verdict that is no pass, where more than "pass" is allowed, counts neither as a
  false pass nor as a false retry. Fail-safes dilute the false-pass rate. A baseline that
  was frozen during an outage accepts outages; a comparison does not look at which
  datasets the baseline was made from; `--write-baseline` and `--baseline` of one file
  compare the run with itself.
* A dataset without a case ends the regression test in a division by zero; nothing is
  reported, frozen or compared.
* A null score or hint level, a hint that is no string and the items of a list have no
  failure shape.

## 5. The proofs

| Module | Proves |
|---|---|
| `CoachFsmProofs` | lemmas on ladders and on `Transition`: types, progress, hints |
| `CoachLadderProofs` | of `CoachLadder`, `LadderTypeOK`, `ClearedInOrder`, `HintsFollowAttempts`, `ClimbsOnly`; of `Withholding`, `WithholdingTypeOK`, `SolutionOnlyOnceReached`, `GateContextFitsStep`, and that its sessions are the ladder's; of what the run Ladder gathers, `GatheredTypeOK` |
| `TurnServiceProofs` | of `TurnService`, `TypeOK`, `LocksExclusive`, `OneActive`, `PurgeSparesActivity` |
| `TurnServiceTrail` | `RepliesFollowAnswers`; `AnswersAudited`, the one half of `AuditTrail`; `MessageCap` |
| `TurnServiceLadder` | `SavesOverWhatItRead`, `SwitchStopsTurn`, `GateLedger`, `AuditTrail`, `ImplementsLadder` |
| `GroundingProofs` | of `GroundingServer`, `ServerTypeOK`, `SolutionWithheld`, `ResolvesUnlessMangled`, `OutlineFollowsSidebar`, `FindsTheBest` |
| `JudgeProofs` | of `TurnPolicy`, `TransportFollowsProvider`, `ServerKeySpentAstray`, `OfferHolds`, `BundleIsCallable`, `NeverGrants`, `ScoreAsMeant`; of `EvalRunner`, `BaselineTells`, `ReportTells`; of it and `TurnPolicy` side by side, `JudgeTypeOK`; of `EvalCases`, `TranscriptCoversSeen`, `ProbesAreFair` |
| `ProcessProofs` | of `Auth`, `AdmitsTheSound`, `RefusalTellsFault`; of `PurgeLoop`, `GoneWithinTheHour`; of `RateLimiter`, `WindowCap`, `RefusesOnlyAtLimit`, `RetryAfterSuffices`; of all three, `DoorTypeOK` |

They hold for any number of requests, sessions, problems, turns and principals, any
ladders, quotas, limits, catalogs, deployments, suites, verdicts, keys, tokens, corpora and
queries that satisfy the named assumptions (`LadderAssumption`, `LadderConstants`,
`WithholdingConstants`, `ServiceAssumption`, `LimiterAssumption`, `CatalogAssumption`,
`RawAssumption`, `PolicyAssumption`, `RunnerAssumption`, `AuthAssumption`,
`PurgeAssumption`, `CasesAssumption`, `CorpusAssumption`, `ServerAssumption`), which TLC evaluates in the runs. Three
hypotheses are not assumptions of the modules, but of the theorems that need them:

* `NoVersionReturns`, of `TurnServiceLadder`: no step takes the version of a stored row back.
  Grounded turns, their citations and their flushes are in: a flush that is not overtaken
  writes the version it finds, or one above. `OnlyFlushesGoBack` shows, without the hypothesis,
  which step it excludes: the flush of a turn whose instance is older than the row by
  then. Without it these theorems are false, and the run LostUpdate is the
  counterexample, with four writers; with three requests the properties hold without the
  hypothesis, which is what DoubleSubmit and Switching check. What a turn does not owe to
  the optimistic version is proved without it (`TurnServiceTrail`).
* `IsFiniteSet(Req)`, of `ServiceImplementsLadder`: the turns of a session are ranked by how
  many of its answers are older, which counts them.
* `Capped => OwnKeyOnly`, of `QuotaHolds`: sessions of a learner under the quotas are client-direct.
  The quotas are for the BYOK tier, whose catalog has no local model
  (`CatalogAssumption`; `sessions.py:194, 216, 279, 325`). It fails for a learner who lost
  the allowlist and kept a server-judged session; such a turn writes its reply in a second
  transaction, after the check.

**Ladder.** Types, order and hints are inductive together: that the scored steps are
those before the current one needs the current step to be on the session's ladder,
and a completed session to be on its last step.

**Withholding.** Every step is one of the ladder's (`WithholdingClimbs`), so the ladder's
invariant holds. `WithholdingInv` adds to it that whoever stands on a solution step has
reached it (`ReachedKnows`), and that a request in hand asked by the step it was made
for, a bundle's being reached, as is the step of the instance a turn read (`RequestFits`). A
turn is the harder case: it may ask for any step, but its prompt is made only if its instance
or the locked session stands on that step, or, for a session it begins, if that is a first step,
which `WithholdingConstants` keeps free of solutions (`FoundStep`). That an answer is recorded
only in the context of its step (`GateContextsFit`) needs that an instance which is still
current stands where the row stands, across everything others do in between.

**Service.** `IInv` is `TypeInv /\ LockInv`. `TypeInv` adds to `TypeOK` what each
request has at each place of its handler (`ReqInv`): in "gate" there is a row in
memory and a session it works on, and so on. `OneActive` is not inductive:
uniqueness is enforced when a row is inserted, and a lazy create has inserted a row
that is not committed while the judge thinks. `LockInv` therefore says which rows a
request holds at each place (exactly the one it works on from "begin" to the commit,
the ones it is deleting in "sweep", none elsewhere), that a pending lazy create
excludes an active row of its problem, and that two pending ones never share a
problem. Then a commit that makes a row active finds no other. The row the flush
writes blindly keeps its problem and status, so it disturbs none of it. The purge
needs that all it holds is lapsed, which the held locks preserve.

**Transcript.** For what the service commits, its thirty-odd actions are of a few kinds
(`Moves`, `Flushes`, `Conjures`, `Inserts`, `Switches`, `ServerJudges`, `ClientJudges`,
`Replies`, `Deletes`); one lemma sorts every action into its kind (`StepOf`), and each
invariant is then shown once per kind. `FreshInv`: ids are drawn once, so a session that a turn
is creating lazily is at no other request (`Alone`), and starts with an empty transcript. `TrailInv`: an answer has
exactly one gate call, at its seq; a client-judged answer has its reply next to it; a
reply repeats an earlier answer's turn and step; and a request between its judgement and its reply
has its answer in the transcript and no reply for that turn yet. That a turn id is not judged
twice needs the lock: between `TurnBegin`, which looks for it, and the judgement, nobody else
judges in the session (`AtGate`). Two coaches that stream at once reply to different turns
(`Apart`).

**Quota.** `CapInv`: no session is server-judged, no request is on the server's path, and
every transcript has an even number of messages, at most `MaxMessages` rounded up.

**Lost updates.** `CurrentInv`: the copy a request has of a row is either the row itself or
has a smaller version. It needs that versions only grow, which is the hypothesis: every other
step than a flush does so by itself (`OthersGrow`), a flush that does leaves a row whose copies
are that row or older (`RowsGrow`). `NoLostUpdate` is then immediate: a guarded save that
matches has read what it overwrites. So is `SwitchStopsAdmittedTurn`, a switch being a
version of its own.

**Ledger.** `LedgerInv` says of each stored session that passed gate rows are the steps before
the current one, the attempts are those of the open gate row and the retries of the
audit trail, and that no gate row and no gate call is of a step that was not reached. The
last part is what makes it inductive: a pass opens a step on which nothing is recorded
yet. A judgement keeps it because what it computes from is the row as it stands
(`JudgesWhatStands`); a lazy create, because its session is new.

**Refinement.** A session's progress is its row with the scores of the passed gate rows, its
judged turns are those of its answers in order. A judgement appends one answer and moves the
row by `Transition`, so the ladder judges (`LadderJudges`); deletes, creates and resets are the
ladder's replacing of sessions (`LadderDeletes`, `LadderBegins`); everything else
leaves the mapping alone. That the ladder may judge a turn because it was not judged yet
is `TrailInv`'s; `RankInv` bounds the answers by the requests that have judged, for the
ranking to be a sequence.

**Limiter.** `LimiterInv`: times grow with places (`InOrder`); the list holds every
admitted check of the last window (`Remembers`), so an eviction never loses one that
still counts; and what a retry time was computed from is still the oldest entry of a full list
(`Promised`). `WindowCap` is inductive with
the first two.

**Policy.** `PolicyInv` is `PolicyTypeOK`, `TransportFollowsProvider` and `OfferStands`
(an offered model is one the running deployment offers). The server's key pays for a cloud
model only (`PaidCoach`), which by the second of them is a client-direct session's, and that one
admits no turn of its own. Every request's answer is
then right by the state it was given in. `CatalogAssumption` says what the shipped
catalog says: each tier's default is in the tier's catalog, the homelab's is local,
the BYOK tier has no local model. `SnapFaithful` shows that the nearest bucket exists
and is within the tie rule's reach for every integer.

**Regression test.** `RunnerInv`: a run has labelled cases, at least one, and only answers
that were judged; a baseline was frozen from a run with replays; the answer of a comparison
is what `Regresses` says of the finished run and that baseline. The rest is counting:
the replays that are right, false passes and false retries are disjoint sets of
replays (`CountsAddUp`); a run is right in as many replays as it has only if it is in each
(`AllRight`); each case's replays are its own (`ReplaysOfCase`, division by `Replays`). The
thresholds are compared by cross-multiplication (`ShareLost`, `NothingExceedsItself`).

**Cases and probes.** `CasesInv` says of every recorded answer, and of the turn under way,
that what it saw is a window that ends right before it (`SeesUpTo`): a turn holds the row
from before it loads the transcript until its answer is in, and replies wait for the row.
The window is compared with all that is before the answer by arithmetic
(`WindowCovered`). A case is its answer's own, and probes are the set that the labels call for; that there is a donor, and that the first of several equal answers is
probed, is that a set of places has a least one (`FirstOfPlaces`).

**Grounding server, the walk.** `ServerInv` says of the list of entries left to visit that each
stands for the chapters that are it or lie below it, that of two in one book the one before comes
before in the sidebar, as does each collected chapter, and that they and the chapters
collected so far are all there are (`WalkOK`). So it is inductive, though neither the order nor
the completeness of what was collected is: entering a directory replaces an entry by its sorted
children (`WalkEnters`), collecting moves a chapter from one list to the end of the other
(`WalkCollects`), and what is passed over leads to no chapter. When nothing is left, the chapters
collected are in the sidebar's order (`WalkFinishes`). That two paths part somewhere, and
that sorting the children by `_order_key` is the sidebar's comparison there, is `SidebarAgrees`.

**Grounding server, the answers.** The index is a function of the chapters (`IsIndex`), each answer
one of the index and the call (`AnswerIs`). Flat `<details>` tags alternate, so a term is in a block
exactly when more tags were opened than closed before it (`TagsCount`, `FlatBlocks`); then what is shown and
what is indexed of a text is what stands outside (`VisibleIsOutside`); titles come on top,
from the front matter, the first heading or the name. Slugs have no empty segments
(`SlugsAreWhole`), so an id that is given out is accepted if its segments are `slug_like`, which is
what `Spelled` says of the names they are made from (`SlugsAreSpelled`). Hits are all that match, sorted by
score (`HitsAre`), so a hit beyond the cut is no better than one before it. Of the neighbours,
one more is searched for than wanted, and at most one is the chapter itself (`RelatedAnswers`).
The outline ends at the least place where the budget is overrun (`LeastOf`).

**Sign-in.** `AuthInv`: what the caches hold was published while the process ran, and
`signed_in` is among the resolved keys, for these are never dropped (`CachesHold`); then
each reply is right at the moment it is given (`ReplyIsRight`).

**Purge loop.** `PurgeInv`: no session is older than the TTL and the part of the period
that is over while the task sleeps, the whole of it otherwise (`KeepsUp`). It is the
sleeping task's remaining time that makes `GoneWithinTheHour` inductive.

**Parts side by side.** `DoorKeepsPartsApart`, `JudgePartsApart` and `GatheredPartsApart`: the behaviours of
the runs Limits, Policy and Ladder are behaviours of each part's own specification, so what is proved of the
parts holds in the composition that TLC explores.

**Only model-checked.** `Answered` and `LapsedGo`: liveness under fairness is outside TLAPS
here. That is all of the properties of the passing runs. What the walk computes needed no induction
over data: it is a list that steps consume, and sorting and splitting are stated by counting.
Of the claims that the code does not keep, `SavesOverWhatItRead` is proved
where it does hold; the others are false as they stand.

## 6. What is not modelled

* Body validation of the routes (422 before any state is read), the two reads, JSON
  shapes, CORS, health checks, metrics, the wording of whoami, and logging: no state of
  theirs can be wrong.
* `abandon_active` (no caller), token counts and costs, `grounding_ref` rows (audit
  only, though the commit that writes them is modelled for what it flushes).
* Prompts, rubric files, transcripts: data. The answer's evidence (`compose_answer`) is
  text.
* The connection pool. A handler closes its session before its stream opens another,
  so no request waits for a connection while holding one.
* The judge's boolean hint level, which the repair leaves for validation to settle.
* Of the grounding server: the weights of BM25 (a chapter scores when it has a term of
  the query; how the found are ranked among each other is here by the number of terms),
  tokenising, snippets as excerpts (here the whole visible text), how front matter is read,
  and the titles of books and sections, which come from files of their own. Names are
  restricted: no book has an ordering number, a directory writes a number in one way (not
  "1-" beside "01-"), numbers stay below 2**31, and one markdown file has a path. A negative
  limit and a `max_related` of 0 are told in section 4. Of its client: `get_problem` and
  `search`, without a caller.
* Of the evals: latency, score statistics, the confusion table, the report, and reading
  and writing the files.
* The skills loader (cached files), the wire contract (generated types), configuration
  (values): nothing of theirs changes while the program runs.
* The providers' HTTP calls: a judge's call fails or returns any raw verdict, a coach's
  stream ends, fails or is abandoned.
