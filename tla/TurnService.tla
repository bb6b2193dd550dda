------------------------------ MODULE TurnService ------------------------------
(***************************************************************************)
(* The session endpoints of cortex-tutor (tutor/routes/sessions.py), the   *)
(* turn pipeline (tutor/orchestration/turn.py) and their persistence       *)
(* (tutor/persistence/repo.py), for the requests of ONE principal running  *)
(* concurrently against one PostgreSQL database at READ COMMITTED.         *)
(*                                                                         *)
(* Every request is one asyncio task with one database transaction at a    *)
(* time.  A step is one statement, or several between which no other task  *)
(* can tell the difference.  What a transaction wrote is private to it     *)
(* until its commit: other transactions only meet its row locks (hold),    *)
(* its deleted rows (Gone) and its unique-index entries (seq, a pending    *)
(* row), and wait for it.  mem is the ORM instance in the request's        *)
(* identity map: a later SELECT of the same row, FOR UPDATE included, does *)
(* not refresh it.                                                         *)
(***************************************************************************)
EXTENDS CoachFsm, FiniteSets

CONSTANTS
  Req,          \* requests; each is issued once
  Problem,      \* problem ids
  MaxSid,       \* bound on the sessions ever created
  Turn, NoTurn, \* idempotency keys (turnId), and none
  NoRow,        \* the session of an id that is absent or deleted
  NoGate,       \* a step with no gate row
  NoCall,       \* the call of a request that was not issued
  Verdicts,     \* the verdicts a gate can give
  Capped,       \* wants_byok(principal): the storage quotas apply
  MaxSessions, MaxMessages,   \* those quotas
  Citations,    \* whether the grounding result carries a citationUrl
  CoachModes,   \* how resolve_coach can come out: "local", "locked"
  MayExpire,    \* whether a session's idle TTL can lapse
  MayCrash,     \* whether the process can be restarted
  Offered,      \* Offered[r]: the calls request r may make
  Seeds         \* the sessions an initial database may hold

Sid == 1 .. MaxSid

(***************************************************************************)
(* Rows.  The columns no guard and no property reads (origin, rubric       *)
(* version, coach_model, costs, timestamps) are left out; expires_at is    *)
(* the set "lapsed", last_turn_id is written and never read.               *)
(***************************************************************************)
Row == [problem : Problem, track : Track, step : Step, status : SessionStatus,
        attempts : Nat, hint_level : 0 .. MAX_HINT_LEVEL, byok : BOOLEAN, version : Nat]

Message == [role : {"user", "coach"}, step : Step, turn : Turn \cup {NoTurn}]

GateRow == [verdict : Verdict, score : SCORE_VALUES, attempts : Nat, judge_kind : {"llm", "byok"}]

GateCall == [turn : Turn \cup {NoTurn}, step : Step, answer_seq : Nat,
             verdict : Verdict, provider : {"llm", "byok"}]

\* What a client may ask for.
Call ==
  [op : {"create"}, problem : Problem, track : Track, byok : BOOLEAN]
    \cup [op : {"turn", "byok"}, sid : Sid, step : Step, turn : Turn \cup {NoTurn}]
    \cup [op : {"model"}, sid : Sid, byok : BOOLEAN]
    \cup [op : {"reset"}, sid : Sid]
    \cup [op : {"clear", "purge"}]

FreshRow(problem, track, byok) ==
  [problem |-> problem, track |-> track, step |-> FirstStep(track), status |-> "active",
   attempts |-> 0, hint_level |-> 0, byok |-> byok, version |-> 0]

NoGates == [step \in Step |-> NoGate]

ASSUME ServiceAssumption ==
  /\ MaxSid \in Nat /\ MaxSessions \in Nat /\ MaxMessages \in Nat
  /\ Capped \in BOOLEAN /\ MayExpire \in BOOLEAN /\ MayCrash \in BOOLEAN
  /\ Verdicts \subseteq GateVerdict
  /\ Citations \subseteq BOOLEAN /\ CoachModes \subseteq {"local", "locked"}
  /\ NoTurn \notin Turn
  /\ NoRow \notin Row \cup SessionState /\ NoGate \notin GateRow /\ NoCall \notin Call
  /\ Offered \in [Req -> SUBSET Call]
  /\ \A seed \in Seeds :
       /\ seed \in Seq([problem : Problem, track : Track, byok : BOOLEAN])
       /\ Len(seed) <= MaxSid
       /\ \A s, q \in DOMAIN seed : seed[q].problem = seed[s].problem => q = s

VARIABLES
  session,    \* session[sid]: the committed row, or NoRow
  message,    \* message[sid]: the committed transcript; a message's seq is its place
  gate,       \* gate[sid][step]: the gate row
  gateCall,   \* gateCall[sid]: the append-only audit rows
  lapsed,     \* sessions with expires_at < now()
  minted,     \* session ids drawn so far (uuid4: never the same twice)
  pc,         \* pc[r]: the statement request r is about to run
  call,       \* call[r]: what r was asked
  resp,       \* resp[r]: what r answered
  at,         \* at[r]: the session r works on, 0 for none
  mem,        \* mem[r]: r's in-memory instance of that session
  hold,       \* hold[r]: the rows r's transaction holds locked FOR UPDATE
  del,        \* del[r]: the rows r's DELETE has still to reach
  seq         \* seq[r]: the message seq r computed, 0 for none

db   == <<session, message, gate, gateCall, lapsed, minted>>
txn  == <<at, mem, hold, del, seq>>
vars == <<db, pc, call, resp, txn>>

-------------------------------------------------------------------------------
(***************************************************************************)
(* What a transaction sees of the others.                                  *)
(***************************************************************************)

ActiveSids(problem) ==
  {s \in Sid : /\ session[s] # NoRow
               /\ session[s].problem = problem
               /\ session[s].status = "active"}

SidsOf(problem) == {s \in Sid : session[s] # NoRow /\ session[s].problem = problem}

Stored == {s \in Sid : session[s] # NoRow}

\* A SELECT that lost its with_for_update: no one is in the way.
NoRowLock(r, s) == {}

\* Who else holds the row lock.
Holders(r, s) == {q \in Req \ {r} : s \in hold[q]}

\* The rows q's DELETE has marked deleted and not committed.
Gone(q) == IF pc[q] = "sweep" THEN hold[q] \ del[q] ELSE {}

\* An INSERT of an active row waits for a transaction that inserted one for the
\* problem (its row is locked and not committed), or that deleted the one there is.
InsertBlockers(r, problem) ==
  {q \in Req \ {r} : \/ \E s \in hold[q] : session[s] = NoRow /\ mem[q].problem = problem
                     \/ Gone(q) \cap ActiveSids(problem) # {}}

\* A schema without the index.
NoUniqueIndex(problem) == FALSE

\* one_active_session, the partial unique index, refuses it.
InsertClashes(problem) == \E s \in ActiveSids(problem) : \A q \in Req : s \notin Gone(q)

\* The transactions with an uncommitted message under (sid, n): the answer of a
\* turn whose gate is running, the reply of a coach waiting for its foreign key.
SeqBlockers(r, s, n) ==
  {q \in Req \ {r} : pc[q] \in {"gate", "fk"} /\ at[q] = s /\ seq[q] = n}

NextSeq(s) == Len(message[s]) + 1

\* The quota compared with the answers alone.
OverCapByAnswers(s) ==
  Capped /\ Cardinality({i \in DOMAIN message[s] : message[s][i].role = "user"}) >= MaxMessages

\* check_message_quota: the conversation is full.
OverCap(s) == Capped /\ NextSeq(s) > MaxMessages

\* StepMismatch is not raised: the answer is for the current step of an open session.
Accepts(r) == mem[r].status # "completed" /\ call[r].step = mem[r].step

StateOf(row) ==
  [step |-> row.step, attempts |-> row.attempts, hint_level |-> row.hint_level,
   status |-> row.status, scores |-> NoScores]

\* A lookup that takes a turn for recorded once its reply is.
RecordedOnReply(s, turn) ==
  turn # NoTurn /\ \E i \in DOMAIN message[s] : message[s][i].role = "coach" /\ message[s][i].turn = turn

\* find_by_turn: the answer was recorded before.
Recorded(s, turn) ==
  turn # NoTurn /\ \E i \in DOMAIN message[s] : message[s][i].role = "user" /\ message[s][i].turn = turn

\* _last_coach_reply: the turn that the newest coach message of a step answers.
LastCoachReply(s, step) ==
  LET replies == {i \in DOMAIN message[s] : message[s][i].role = "coach" /\ message[s][i].step = step}
  IN  IF replies = {} THEN NoTurn
      ELSE message[s][CHOOSE i \in replies : \A j \in replies : j <= i].turn

-------------------------------------------------------------------------------
(***************************************************************************)
(* The ends of a request: everything its transactions held is released,    *)
(* and what they had not committed is rolled back.                         *)
(***************************************************************************)
Goto(r, label) == pc' = [pc EXCEPT ![r] = label]

Release(r) ==
  /\ at' = [at EXCEPT ![r] = 0]
  /\ mem' = [mem EXCEPT ![r] = NoRow]
  /\ hold' = [hold EXCEPT ![r] = {}]
  /\ del' = [del EXCEPT ![r] = {}]
  /\ seq' = [seq EXCEPT ![r] = 0]

Respond(r, status, reply) ==
  /\ Goto(r, "done")
  /\ resp' = [resp EXCEPT ![r] = [status |-> status, reply |-> reply]]

Finish(r, status, reply) == Respond(r, status, reply) /\ Release(r)

\* An error path that leaves its transaction open.
LeakyFail(r, status) == Respond(r, status, NoTurn) /\ UNCHANGED <<db, call, txn>>

Fail(r, status) == Finish(r, status, NoTurn) /\ UNCHANGED <<db, call>>

Init ==
  /\ \E seed \in Seeds :
       /\ session = [s \in Sid |-> IF s \in DOMAIN seed
                                   THEN FreshRow(seed[s].problem, seed[s].track, seed[s].byok)
                                   ELSE NoRow]
       /\ minted = Len(seed)
  /\ message = [s \in Sid |-> <<>>]
  /\ gate = [s \in Sid |-> NoGates]
  /\ gateCall = [s \in Sid |-> {}]
  /\ lapsed = {}
  /\ pc = [r \in Req |-> "idle"]
  /\ call = [r \in Req |-> NoCall]
  /\ resp = [r \in Req |-> [status |-> "none", reply |-> NoTurn]]
  /\ at = [r \in Req |-> 0]
  /\ mem = [r \in Req |-> NoRow]
  /\ hold = [r \in Req |-> {}]
  /\ del = [r \in Req |-> {}]
  /\ seq = [r \in Req |-> 0]

\* A request arrives; its handler's first statement belongs to the same step.
Arrive(r, c) ==
  /\ pc[r] = "idle"
  /\ c \in Offered[r]
  /\ call' = [call EXCEPT ![r] = c]

\* Turning away a request in its first step.
Refuse(r, status) == Respond(r, status, NoTurn) /\ UNCHANGED <<db, txn>>

-------------------------------------------------------------------------------
(***************************************************************************)
(* POST /sessions: get-or-create.                                          *)
(***************************************************************************)
Create(r) ==
  \E c \in Offered[r] :
    /\ c.op = "create"
    /\ Arrive(r, c)
    /\ IF ActiveSids(c.problem) # {} THEN Refuse(r, "200")       \* the active session is resumed
       ELSE IF Capped /\ Cardinality(Stored) >= MaxSessions THEN Refuse(r, "429")
       ELSE /\ mem' = [mem EXCEPT ![r] = FreshRow(c.problem, c.track, c.byok)]
            /\ Goto(r, "insert")
            /\ UNCHANGED <<db, resp, at, hold, del, seq>>

CreateInsert(r) ==
  /\ pc[r] = "insert"
  /\ InsertBlockers(r, mem[r].problem) = {}
  /\ IF InsertClashes(mem[r].problem) THEN Fail(r, "500")
     ELSE /\ minted < MaxSid
          /\ minted' = minted + 1
          /\ session' = [session EXCEPT ![minted + 1] = mem[r]]
          /\ Finish(r, "200", NoTurn)
          /\ UNCHANGED <<message, gate, gateCall, lapsed, call>>

(***************************************************************************)
(* POST /sessions/{id}/turns: the server-judged turn.                      *)
(***************************************************************************)

\* get_for_user, unlocked, and the refusals before the grounding lookup.  The
\* instance loaded here stays in the identity map for the whole request.
TurnRead(r) ==
  \E c \in Offered[r] :
    /\ c.op = "turn"
    /\ Arrive(r, c)
    /\ IF session[c.sid] = NoRow THEN Refuse(r, "404")
       ELSE IF session[c.sid].byok THEN Refuse(r, "403")
       ELSE IF OverCap(c.sid) THEN Refuse(r, "429")
       ELSE /\ at' = [at EXCEPT ![r] = c.sid]
            /\ mem' = [mem EXCEPT ![r] = session[c.sid]]
            /\ Goto(r, "scan")
            /\ UNCHANGED <<db, resp, hold, del, seq>>

\* get_active_locked, first half: the active row of the PROBLEM in the statement's
\* snapshot, which need not be the session the request addressed.
TurnScan(r) ==
  /\ pc[r] = "scan"
  /\ IF ActiveSids(mem[r].problem) = {} THEN Goto(r, "lazy") /\ UNCHANGED at
     ELSE Goto(r, "lock") /\ \E s \in ActiveSids(mem[r].problem) : at' = [at EXCEPT ![r] = s]
  /\ UNCHANGED <<db, call, resp, mem, hold, del, seq>>

\* get_active_locked, second half: wait for the row, look at the predicate again,
\* and load the row -- unless the identity map has it already.
TurnLock(r) ==
  /\ pc[r] = "lock" /\ call[r].op = "turn"
  /\ Holders(r, at[r]) = {}
  /\ IF at[r] \in ActiveSids(mem[r].problem)
     THEN /\ hold' = [hold EXCEPT ![r] = {at[r]}]
          /\ mem' = IF at[r] = call[r].sid THEN mem ELSE [mem EXCEPT ![r] = session[at[r]]]
          /\ Goto(r, "begin")
     ELSE Goto(r, "lazy") /\ UNCHANGED <<hold, mem>>
  /\ UNCHANGED <<db, call, resp, at, del, seq>>

\* The fallback create of apply_turn: a server-judged session on the ladder of the
\* submitted step, inserted and not yet committed.
TurnLazyCreate(r) ==
  /\ pc[r] = "lazy"
  /\ InsertBlockers(r, mem[r].problem) = {}
  /\ IF InsertClashes(mem[r].problem) THEN Fail(r, "500")
     ELSE /\ minted < MaxSid
          /\ minted' = minted + 1
          /\ at' = [at EXCEPT ![r] = minted + 1]
          /\ hold' = [hold EXCEPT ![r] = {minted + 1}]
          /\ mem' = [mem EXCEPT ![r] = FreshRow(mem[r].problem, TrackOf(call[r].step), FALSE)]
          /\ Goto(r, "begin")
          /\ UNCHANGED <<session, message, gate, gateCall, lapsed, call, resp, del, seq>>

\* The replay of a recorded turn: resolve_coach still comes first.
Replay(r) ==
  \E mode \in CoachModes :
    IF mode = "locked" THEN Fail(r, "503")
    ELSE Finish(r, "replay", LastCoachReply(at[r], mem[r].step)) /\ UNCHANGED <<db, call>>

\* Idempotency, the state checks, and the INSERT of the answer.
TurnBegin(r) ==
  /\ pc[r] = "begin"
  /\ IF Recorded(at[r], call[r].turn) THEN Replay(r)
     ELSE IF ~ Accepts(r) THEN Fail(r, "409")
     ELSE /\ SeqBlockers(r, at[r], NextSeq(at[r])) = {}
          /\ seq' = [seq EXCEPT ![r] = NextSeq(at[r])]
          /\ Goto(r, "gate")
          /\ UNCHANGED <<db, call, resp, at, mem, hold, del>>

\* The transcript entries of a turn: the learner's answer and the coach's reply, both
\* under the step the answer was judged at.  (The column turn_id is the answer's;
\* a reply's turn is what it replies to.)
AnswerMessage(r) == [role |-> "user", step |-> mem[r].step, turn |-> call[r].turn]

\* The reply filed under the step the turn led to.
ReplyAtNewStep(r) == [role |-> "coach", step |-> mem[r].step, turn |-> call[r].turn]

ReplyMessage(r) == [role |-> "coach", step |-> call[r].step, turn |-> call[r].turn]

\* A row with the progress columns of a state, and a version.
WithProgress(row, state, version) ==
  [row EXCEPT !.status = state.status, !.step = state.step, !.attempts = state.attempts,
              !.hint_level = state.hint_level, !.version = version]

\* upsert_gate, add_gate_call, save_state, commit: what judging an answer writes.
\* save_state sets the progress columns of the row it finds; on conflict
\* upsert_gate leaves the judge_kind of the gate row alone.
RecordJudgement(r, verdict, judge, base, replies) ==
  LET s     == at[r]
      state == Transition(StateOf(mem[r]), verdict)
      old   == gate[s][mem[r].step]
  IN  /\ session' = [session EXCEPT ![s] = WithProgress(base, state, mem[r].version + 1)]
      /\ message' = [message EXCEPT ![s] = @ \o <<AnswerMessage(r)>> \o replies]
      /\ gate' = [gate EXCEPT ![s][mem[r].step] =
                   [verdict |-> verdict.verdict, score |-> verdict.score, attempts |-> state.attempts,
                    judge_kind |-> IF old = NoGate THEN judge ELSE old.judge_kind]]
      /\ gateCall' = [gateCall EXCEPT ![s] = @ \cup
                       {[turn |-> call[r].turn, step |-> mem[r].step, answer_seq |-> NextSeq(s),
                         verdict |-> verdict.verdict, provider |-> judge]}]
      /\ lapsed' = lapsed \ {s}
      /\ UNCHANGED minted

\* An UPDATE without its version guard.
UnguardedSave(r) == TRUE

\* The optimistic guard of save_state: the row still has the version in memory.
VersionMatches(r) == session[at[r]] # NoRow => session[at[r]].version = mem[r].version

\* save_state makes a completed row active again, its version having come back: the
\* unique index has a say, as for an INSERT.
Revives(r, verdict) ==
  /\ session[at[r]] # NoRow /\ session[at[r]].status = "completed"
  /\ Transition(StateOf(mem[r]), verdict).status = "active"

\* The gate answers (the row stays locked while it thinks); transition, persist and
\* commit, or StaleTurn.  The update has put version + 1 into the instance, and
\* turn.py:176 counts it up once more.
TurnGate(r) ==
  /\ pc[r] = "gate"
  /\ IF ~ VersionMatches(r) THEN Fail(r, "409")
     ELSE \E verdict \in Verdicts :
            /\ Revives(r, verdict) => InsertBlockers(r, session[at[r]].problem) = {}
            /\ IF Revives(r, verdict) /\ InsertClashes(session[at[r]].problem) THEN Fail(r, "500")
               ELSE /\ RecordJudgement(r, verdict, "llm",
                                  IF session[at[r]] = NoRow THEN mem[r] ELSE session[at[r]], <<>>)
                    /\ mem' = [mem EXCEPT ![r] =
                                 WithProgress(@, Transition(StateOf(@), verdict), @.version + 2)]
                    /\ hold' = [hold EXCEPT ![r] = {}]
                    /\ seq' = [seq EXCEPT ![r] = 0]
                    /\ Goto(r, "flush")
                    /\ UNCHANGED <<call, resp, at, del>>

\* The judge says what the pipeline can neither take nor repair, and the exception that
\* nothing catches (GateRepair's Broken) takes the answer with it.
GateRaises(r) ==
  /\ pc[r] = "gate"
  /\ Fail(r, "500")

\* load_recent_messages flushes the dirty instance first: UPDATE ... SET version
\* WHERE id, with no guard.  It waits for the row; a row that is gone is an error.
\* The write is committed with the grounding audit row when the lesson had a
\* citation, and rolled back otherwise.  Then resolve_coach.
TurnFlush(r) ==
  /\ pc[r] = "flush"
  /\ Holders(r, at[r]) = {}
  /\ IF session[at[r]] = NoRow THEN Fail(r, "500")
     ELSE \E cited \in Citations, mode \in CoachModes :
            /\ session' = IF cited THEN [session EXCEPT ![at[r]].version = mem[r].version]
                                   ELSE session
            /\ IF mode = "locked" THEN Finish(r, "503", NoTurn)
               ELSE Goto(r, "stream") /\ UNCHANGED <<resp, txn>>
            /\ UNCHANGED <<message, gate, gateCall, lapsed, minted, call>>

\* The coach streams: to its end (a failure falls back to the gate's hint), or until
\* the client goes away and the generator is cancelled with the reply unrecorded.
\* record_coach_reply, in a new transaction, computes the seq first.
CoachStream(r) ==
  /\ pc[r] = "stream"
  /\ \/ Fail(r, "lost")
     \/ /\ seq' = [seq EXCEPT ![r] = NextSeq(at[r])]
        /\ Goto(r, "write")
        /\ UNCHANGED <<db, call, resp, at, mem, hold, del>>

\* INSERT of the reply: wait for a transaction that inserted the same seq; a seq
\* taken meanwhile is a duplicate key, logged and swallowed.
CoachWrite(r) ==
  /\ pc[r] = "write"
  /\ SeqBlockers(r, at[r], seq[r]) = {}
  /\ IF seq[r] <= Len(message[at[r]]) THEN Fail(r, "200")
     ELSE Goto(r, "fk") /\ UNCHANGED <<db, call, resp, txn>>

\* The foreign key of the inserted reply: FOR KEY SHARE on the session row, which
\* waits for whoever holds it FOR UPDATE; then commit.
CoachCommit(r) ==
  /\ pc[r] = "fk"
  /\ Holders(r, at[r]) = {}
  /\ message' = IF session[at[r]] = NoRow THEN message
                ELSE [message EXCEPT ![at[r]] = Append(@, ReplyMessage(r))]
  /\ Finish(r, "200", call[r].turn)
  /\ UNCHANGED <<session, gate, gateCall, lapsed, minted, call>>

(***************************************************************************)
(* The writers that address a session by id and lock it first:             *)
(* POST .../turns/byok-record, .../model, .../reset.                       *)
(***************************************************************************)
Address(r) ==
  \E c \in Offered[r] :
    /\ c.op \in {"byok", "model", "reset"}
    /\ Arrive(r, c)
    /\ IF session[c.sid] = NoRow THEN Refuse(r, "404")
       ELSE /\ at' = [at EXCEPT ![r] = c.sid]
            /\ Goto(r, "lock")
            /\ UNCHANGED <<db, resp, mem, hold, del, seq>>

\* get_for_user_locked: the row lock, or a row deleted while waiting for it.
LockById(r, op) ==
  /\ pc[r] = "lock" /\ call[r].op = op
  /\ Holders(r, at[r]) = {}

ByokLock(r) ==
  /\ LockById(r, "byok")
  /\ IF session[at[r]] = NoRow THEN Fail(r, "404")
     ELSE /\ mem' = [mem EXCEPT ![r] = session[at[r]]]
          /\ hold' = [hold EXCEPT ![r] = {at[r]}]
          /\ Goto(r, "record")
          /\ UNCHANGED <<db, call, resp, at, del, seq>>

\* apply_byok_turn: the browser's verdict, the answer and the coach reply are
\* recorded in one transaction under the lock.
ByokRecord(r) ==
  /\ pc[r] = "record"
  /\ IF ~ mem[r].byok THEN Fail(r, "403")
     ELSE IF OverCap(at[r]) THEN Fail(r, "429")
     ELSE IF Recorded(at[r], call[r].turn)
          THEN Finish(r, "replay", LastCoachReply(at[r], mem[r].step)) /\ UNCHANGED <<db, call>>
     ELSE IF ~ Accepts(r) THEN Fail(r, "409")
     ELSE /\ SeqBlockers(r, at[r], NextSeq(at[r])) = {}
          /\ IF ~ VersionMatches(r) THEN Fail(r, "409")
             ELSE /\ \E verdict \in Verdicts :
                       RecordJudgement(r, verdict, "byok", session[at[r]], <<ReplyMessage(r)>>)
                  /\ Finish(r, "200", call[r].turn)
                  /\ UNCHANGED call

\* A switch that leaves the version alone.
SwitchedInPlace(row, byok) == [row EXCEPT !.byok = byok]

\* set_coach_model
Switched(row, byok) == [row EXCEPT !.byok = byok, !.version = @ + 1]

\* change_session_model: the transport follows the model's provider.
ModelSwitch(r) ==
  /\ LockById(r, "model")
  /\ IF session[at[r]] = NoRow THEN Fail(r, "404")
     ELSE IF session[at[r]].status # "active" THEN Fail(r, "409")
     ELSE /\ session' = [session EXCEPT ![at[r]] = Switched(@, call[r].byok)]
          /\ lapsed' = lapsed \ {at[r]}
          /\ Goto(r, "echo")
          /\ UNCHANGED <<message, gate, gateCall, minted, call, resp, txn>>

\* It reads the row back after the commit, and fails if it is gone by then.
ModelEcho(r) ==
  /\ pc[r] = "echo"
  /\ Fail(r, IF session[at[r]] = NoRow THEN "500" ELSE "200")

\* reset_session: the addressed row, then every row of its problem.
ResetLock(r) ==
  /\ LockById(r, "reset")
  /\ IF session[at[r]] = NoRow THEN Fail(r, "404")
     ELSE /\ mem' = [mem EXCEPT ![r] = session[at[r]]]
          /\ hold' = [hold EXCEPT ![r] = {at[r]}]
          /\ del' = [del EXCEPT ![r] = SidsOf(session[at[r]].problem)]
          /\ Goto(r, "sweep")
          /\ UNCHANGED <<db, call, resp, at, seq>>

(***************************************************************************)
(* The DELETEs: reset, POST /sessions/clear-all, and the hourly purge of   *)
(* the sessions whose TTL lapsed.  A DELETE fixes its rows when it starts  *)
(* and locks them one by one, in no promised order, waiting for each and   *)
(* looking at its predicate again.                                         *)
(***************************************************************************)
DeleteScan(r) ==
  \E c \in Offered[r] :
    /\ c.op \in {"clear", "purge"}
    /\ Arrive(r, c)
    /\ del' = [del EXCEPT ![r] = IF c.op = "clear" THEN Stored ELSE lapsed]
    /\ Goto(r, "sweep")
    /\ UNCHANGED <<db, resp, at, mem, hold, seq>>

\* Deleting by the ids a SELECT found.
StillThere(r, s) == session[s] # NoRow

\* The DELETE's predicate, looked at again under the row lock.
StillDue(r, s) == session[s] # NoRow /\ (call[r].op = "purge" => s \in lapsed)

Sweep(r) ==
  /\ pc[r] = "sweep"
  /\ \E s \in del[r] :
       /\ Holders(r, s) = {}
       /\ del' = [del EXCEPT ![r] = @ \ {s}]
       /\ hold' = IF StillDue(r, s) THEN [hold EXCEPT ![r] = @ \cup {s}] ELSE hold
  /\ UNCHANGED <<db, pc, call, resp, at, mem, seq>>

\* What is committed when the rows in "gone" go and "fresh" is inserted: messages,
\* gate rows and audit rows go with their session (ON DELETE CASCADE).
CommitDelete(gone, fresh) ==
  /\ session' = [s \in Sid |-> IF s \in gone THEN NoRow
                               ELSE IF s \in DOMAIN fresh THEN fresh[s] ELSE session[s]]
  /\ message' = [s \in Sid |-> IF s \in gone THEN <<>> ELSE message[s]]
  /\ gate' = [s \in Sid |-> IF s \in gone THEN NoGates ELSE gate[s]]
  /\ gateCall' = [s \in Sid |-> IF s \in gone THEN {} ELSE gateCall[s]]
  /\ lapsed' = lapsed \ gone

DeleteCommit(r) ==
  /\ pc[r] = "sweep" /\ call[r].op \in {"clear", "purge"} /\ del[r] = {}
  /\ CommitDelete(hold[r], <<>>)
  /\ Finish(r, "200", NoTurn)
  /\ UNCHANGED <<minted, call>>

\* The fresh session of a reset, on the same ladder and transport.
ResetCommit(r) ==
  /\ pc[r] = "sweep" /\ call[r].op = "reset" /\ del[r] = {}
  /\ InsertBlockers(r, mem[r].problem) = {}
  /\ IF InsertClashes(mem[r].problem) THEN Fail(r, "500")
     ELSE /\ minted < MaxSid
          /\ minted' = minted + 1
          /\ CommitDelete(hold[r], [s \in {minted + 1} |->
                                      FreshRow(mem[r].problem, mem[r].track, mem[r].byok)])
          /\ Finish(r, "200", NoTurn)
          /\ UNCHANGED call

(***************************************************************************)
(* The surroundings: idle sessions lapse; the process is restarted; the    *)
(* database breaks a deadlock by aborting one of its transactions.         *)
(***************************************************************************)
Lapse(s) ==
  /\ MayExpire
  /\ s \in Stored \ lapsed
  /\ lapsed' = lapsed \cup {s}
  /\ UNCHANGED <<session, message, gate, gateCall, minted, pc, call, resp, txn>>

InFlight == {r \in Req : pc[r] \notin {"idle", "done"}}

\* Every request in flight dies and the database rolls its transaction back.
Crash ==
  /\ MayCrash /\ InFlight # {}
  /\ pc' = [r \in Req |-> IF r \in InFlight THEN "done" ELSE pc[r]]
  /\ resp' = [r \in Req |-> IF r \in InFlight THEN [status |-> "lost", reply |-> NoTurn]
                                              ELSE resp[r]]
  /\ at' = [r \in Req |-> 0]
  /\ mem' = [r \in Req |-> NoRow]
  /\ hold' = [r \in Req |-> {}]
  /\ del' = [r \in Req |-> {}]
  /\ seq' = [r \in Req |-> 0]
  /\ UNCHANGED <<db, call>>

\* The next statement of r inserts an answer.
Appends(r) ==
  /\ pc[r] = "begin" \/ (pc[r] = "record" /\ mem[r].byok /\ ~ OverCap(at[r]))
  /\ ~ Recorded(at[r], call[r].turn) /\ Accepts(r)

\* The transactions that request r is waiting for.
WaitsFor(r) ==
  CASE pc[r] \in {"lock", "flush", "fk"} -> Holders(r, at[r])
    [] pc[r] \in {"insert", "lazy"}      -> InsertBlockers(r, mem[r].problem)
    [] pc[r] = "gate" /\ (\E verdict \in Verdicts : Revives(r, verdict))
                                         -> InsertBlockers(r, session[at[r]].problem)
    [] Appends(r)                        -> SeqBlockers(r, at[r], NextSeq(at[r]))
    [] pc[r] = "write"                   -> SeqBlockers(r, at[r], seq[r])
    [] pc[r] = "sweep" /\ del[r] # {}    -> UNION {Holders(r, s) : s \in del[r]}
    [] pc[r] = "sweep" /\ call[r].op = "reset" /\ del[r] = {}
                                         -> InsertBlockers(r, mem[r].problem)
    [] OTHER                             -> {}

\* r waits for itself, through others: it is in every set that holds the requests
\* r waits for and, with each member, those that the member waits for.
Deadlocked(r) ==
  \A S \in SUBSET Req : WaitsFor(r) \subseteq S /\ (\A q \in S : WaitsFor(q) \subseteq S) => r \in S

\* The victim's handler dies of it; a coach reply is lost behind its log line.
DeadlockAbort(r) ==
  /\ Deadlocked(r)
  /\ Fail(r, IF pc[r] \in {"write", "fk"} THEN "200" ELSE "500")

Handle(r) ==
  \/ CreateInsert(r)
  \/ TurnScan(r) \/ TurnLock(r) \/ TurnLazyCreate(r) \/ TurnBegin(r) \/ TurnGate(r)
  \/ GateRaises(r) \/ TurnFlush(r)
  \/ CoachStream(r) \/ CoachWrite(r) \/ CoachCommit(r)
  \/ ByokLock(r) \/ ByokRecord(r)
  \/ ModelSwitch(r) \/ ModelEcho(r)
  \/ ResetLock(r) \/ Sweep(r) \/ DeleteCommit(r) \/ ResetCommit(r)
  \/ DeadlockAbort(r)

Request(r) == Create(r) \/ TurnRead(r) \/ Address(r) \/ DeleteScan(r)

\* Nothing in flight: no more has to happen.
Quiet == InFlight = {} /\ UNCHANGED vars

Next ==
  \/ \E r \in Req : Request(r) \/ Handle(r)
  \/ \E s \in Sid : Lapse(s)
  \/ Crash
  \/ Quiet

Spec == Init /\ [][Next]_vars

\* The event loop runs every handler on, the model calls have timeouts, and the
\* database wakes a waiting statement and aborts a deadlocked one.  Nothing is
\* assumed of clients, of the clock or of restarts.
FairSpec == Spec /\ \A r \in Req : WF_vars(Handle(r))

-------------------------------------------------------------------------------
(***************************************************************************)
(* Correctness.                                                            *)
(***************************************************************************)
Labels == {"idle", "insert", "scan", "lock", "lazy", "begin", "gate", "flush", "stream", "write",
           "fk", "record", "echo", "sweep", "done"}

Statuses == {"none", "200", "replay", "403", "404", "409", "429", "500", "503", "lost"}

\* Every variable has its type.
TypeOK ==
  /\ session \in [Sid -> Row \cup {NoRow}]
  /\ message \in [Sid -> Seq(Message)]
  /\ gate \in [Sid -> [Step -> GateRow \cup {NoGate}]]
  /\ gateCall \in [Sid -> SUBSET GateCall]
  /\ lapsed \subseteq Sid
  /\ minted \in 0 .. MaxSid
  /\ pc \in [Req -> Labels]
  /\ call \in [Req -> Call \cup {NoCall}]
  /\ resp \in [Req -> [status : Statuses, reply : Turn \cup {NoTurn}]]
  /\ at \in [Req -> Sid \cup {0}]
  /\ mem \in [Req -> Row \cup {NoRow}]
  /\ hold \in [Req -> SUBSET Sid]
  /\ del \in [Req -> SUBSET Sid]
  /\ seq \in [Req -> Nat]

\* No two requests hold the same row, and only ids already drawn are in use.
LocksExclusive ==
  /\ \A r, q \in Req : r # q => hold[r] \cap hold[q] = {}
  /\ \A r \in Req : hold[r] \subseteq 1 .. minted
  /\ Stored \subseteq 1 .. minted

\* A learner has at most one active session per problem, however creates, lazy
\* creates and resets race (the index one_active_session and get_active's
\* scalar_one_or_none, repo.py:32-39).
OneActive ==
  \A s, q \in Stored :
    session[s].status = "active" /\ session[q].status = "active"
      /\ session[s].problem = session[q].problem => s = q

\* The gate table tells the same story as the session row: the steps with a
\* recorded pass are the steps before the current one (all of them when
\* completed), and while a step is open its gate row carries the row's attempts.
GateLedger ==
  \A s \in Stored :
    LET row    == session[s]
        passed == {step \in Step : gate[s][step] # NoGate /\ gate[s][step].verdict = "pass"}
        open   == gate[s][row.step]
    IN  /\ passed = IF row.status = "completed" THEN LadderOf(row.step) ELSE StepsBefore(row.step)
        /\ row.status = "active" => row.attempts = IF open = NoGate THEN 0 ELSE open.attempts

\* One gate call for each answer in the transcript, at its seq, for its turn and step,
\* and no turn id is judged twice in a session.
AnswersAudited ==
  \A s \in Stored :
    LET answers == {i \in DOMAIN message[s] : message[s][i].role = "user"}
    IN  /\ \A g \in gateCall[s] : g.answer_seq \in answers
        /\ \A i \in answers : \E g \in gateCall[s] :
             /\ g.answer_seq = i /\ g.turn = message[s][i].turn /\ g.step = message[s][i].step
             /\ \A h \in gateCall[s] : h.answer_seq = i => h = g
        /\ \A i, j \in answers :
             message[s][i].turn = message[s][j].turn /\ message[s][i].turn # NoTurn => i = j

\* The attempts the row shows are the retries the trail holds for the open step.
AttemptsAreRetries ==
  \A s \in Stored :
    session[s].status = "active" =>
      session[s].attempts =
        Cardinality({g \in gateCall[s] : g.step = session[s].step /\ g.verdict = "retry"})

\* The append-only audit trail is complete and exact, and no judged answer is lost
\* from the row (turn.py:127-168).
AuditTrail == AnswersAudited /\ AttemptsAreRetries

\* A coach reply stands behind the answer it replies to, at most once, and a
\* client-judged answer is followed at once by the reply recorded with it.
RepliesFollowAnswers ==
  \A s \in Stored : \A i \in DOMAIN message[s] :
    LET m == message[s][i]
    IN  /\ m.role = "coach" =>
             /\ \E j \in 1 .. i - 1 : message[s][j] = [m EXCEPT !.role = "user"]
             /\ m.turn # NoTurn => \A j \in 1 .. i - 1 : message[s][j] # m
        /\ (\E g \in gateCall[s] : g.answer_seq = i /\ g.provider = "byok") =>
             i + 1 \in DOMAIN message[s] /\ message[s][i + 1] = [m EXCEPT !.role = "coach"]

(***************************************************************************)
(* The service implements the ladder: sessions progress by judgements of   *)
(* their current state only, one per turn id.  The scores are in the gate  *)
(* table.                                                                  *)
(***************************************************************************)
Progress(s) ==
  IF session[s] = NoRow THEN NoRow
  ELSE [StateOf(session[s]) EXCEPT !.scores =
         [step \in Step |-> IF gate[s][step] # NoGate /\ gate[s][step].verdict = "pass"
                            THEN gate[s][step].score ELSE NoScore]]

\* The places of the answers in a transcript; those of a set with n of it up to them; and
\* the turns of the answers in their order.
AnswersIn(texts) == {i \in DOMAIN texts : texts[i].role = "user"}

Ranked(S, n) == {i \in S : Cardinality({j \in S : j <= i}) = n}

Only(S) == CHOOSE i \in S : TRUE

TurnsIn(texts) ==
  [n \in 1 .. Cardinality(AnswersIn(texts)) |-> texts[Only(Ranked(AnswersIn(texts), n))].turn]

Ladder == INSTANCE CoachLadder
            WITH NoSession <- NoRow, MaxAnswers <- Cardinality(Req),
                 progress <- [s \in Sid |-> Progress(s)],
                 judged <- [s \in Sid |-> TurnsIn(message[s])]

ImplementsLadder == Ladder!LadderSpec

\* The purge deletes no session with activity: what it commits the deletion of is
\* lapsed at that moment, even if a turn slid the TTL while the DELETE was waiting
\* for its row (purge.py:18).
PurgeSparesActivity ==
  [][\A r \in Req : DeleteCommit(r) /\ call[r].op = "purge" =>
       \A s \in Stored : session'[s] = NoRow => s \in lapsed]_vars

\* A turn never judges the addressed session on the server's key once a model
\* switch made it client-direct, even if it was admitted before the switch
\* (sessions.py:374-379, the version that set_coach_model bumps).
SwitchStopsTurn ==
  [][\A r \in Req : pc[r] = "gate" /\ pc'[r] = "flush" /\ at[r] = call[r].sid =>
       ~ session[at[r]].byok]_vars

\* The conversation of a capped learner never outgrows the message quota, by more
\* than the reply of its last answer when the quota is odd: a turn adds two messages
\* and is refused when the first of them would be over (quotas.py:39-55, 65 of config).
MessageCap == Capped => \A s \in Sid : Len(message[s]) <= MaxMessages + (MaxMessages % 2)

\* Every request that arrives is answered.
Answered == \A r \in Req : pc[r] # "idle" ~> pc[r] = "done"

(***************************************************************************)
(* Claims of the repository that the code does not keep.                   *)
(***************************************************************************)

\* sessions.py:269-270: the rows of the problem are deleted before re-creating "so
\* the fresh active session can't collide with the one-active partial unique index".
ResetCannotCollide ==
  [][\A r \in Req : pc[r] = "sweep" /\ call[r].op = "reset" /\ ~ Deadlocked(r) =>
       resp'[r].status # "500"]_vars

\* repo.py:245: save_state returns False "if another writer advanced first": what a
\* turn writes over is the row it read.
SavesOverWhatItRead ==
  [][\A r \in Req : pc[r] = "gate" /\ pc'[r] = "flush" /\ session[at[r]] # NoRow =>
       session[at[r]] = mem[r]]_vars

\* openapi:120: "re-POSTing the same turnId replays the committed result", the
\* recorded coach reply included (sessions.py:471).
RepostReplaysResult ==
  [][\A r \in Req : resp[r].status = "none" /\ resp'[r].status = "replay"
       /\ (\E i \in DOMAIN message[at[r]] : message[at[r]][i].role = "coach"
                                            /\ message[at[r]][i].turn = call[r].turn)
       => resp'[r].reply = call[r].turn]_vars

\* sessions.py:375-376: the server-key path is closed to BYOK sessions.
ServerNeverJudgesByok ==
  [][\A r \in Req : pc[r] = "gate" /\ pc'[r] = "flush" /\ session[at[r]] # NoRow =>
       ~ session[at[r]].byok]_vars

\* 0003-byok-judge-kind.sql:6-8: a client-side verdict "gets its own judge_kind
\* rather than masquerading as 'llm'".
ByokNeverMasquerades ==
  \A s \in Stored : \A g \in gateCall[s] :
    g.provider = "byok" /\ (\A h \in gateCall[s] : h.step = g.step => h.answer_seq <= g.answer_seq)
      => gate[s][g.step].judge_kind = "byok"
===============================================================================
