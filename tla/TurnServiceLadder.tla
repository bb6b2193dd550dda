--------------------------- MODULE TurnServiceLadder ---------------------------
(***************************************************************************)
(* What a turn writes back, proved as long as no stored version goes back. *)
(* Grounded turns are covered: the version each flushes, unguarded, behind *)
(* its commit (TurnFlush) goes back only if the row was written twice in   *)
(* between.  Until that happens a turn saves over the row it read, the     *)
(* gate table, the audit trail and the session row tell one story, and the *)
(* service implements the ladder.                                          *)
(***************************************************************************)
EXTENDS TurnServiceTrail, FiniteSetTheorems

-------------------------------------------------------------------------------
(***************************************************************************)
(* Versions.  The instance a request has in memory is the row itself, or   *)
(* has a smaller version than the row has now.                             *)
(***************************************************************************)

\* The session whose row is in r's memory.
Instance(r) == IF pc[r] \in {"scan", "lock"} THEN call[r].sid ELSE at[r]

HasRow(r) == (Reading(r) /\ pc[r] # "lazy") \/ pc[r] = "record"

\* An instance of the row of a session.
IsInstance(mine, row) ==
  mine.version <= row.version /\ (mine.version = row.version => mine = row)

Current(r) ==
  /\ HasRow(r) /\ session[Instance(r)] # NoRow => IsInstance(mem[r], session[Instance(r)])
  /\ Reading(r) /\ pc[r] # "lazy" /\ Instance(r) = call[r].sid => ~ mem[r].byok

CurrentInv == \A r \in Req : Current(r)

\* Versions after a transition and a switch.
LEMMA Versions ==
  ASSUME NEW row \in Row
  PROVE  /\ \A state, version : WithProgress(row, state, version).version = version
         /\ \A byok : Switched(row, byok).version = row.version + 1
  <1>1. ASSUME NEW byok PROVE Switched(row, byok).version = row.version + 1
    <2> DEFINE moved == [row EXCEPT !.byok = byok]
    <2>1. Switched(row, byok) = [moved EXCEPT !.version = row.version + 1]
      BY DEF Switched, Row
    <2>2. "version" \in DOMAIN moved
      BY DEF Row
    <2> HIDE DEF moved
    <2> QED
      BY <2>1, <2>2
  <1>2. ASSUME NEW state, NEW version PROVE WithProgress(row, state, version).version = version
    BY DEF WithProgress, Row
  <1> QED
    BY <1>1, <1>2

\* No row is left with a smaller version than it had.
VersionsGrow ==
  \A s \in Sid : session[s] # NoRow /\ session'[s] # NoRow => session'[s].version >= session[s].version

\* The hypothesis: no step takes a stored version back.
NoVersionReturns == [][VersionsGrow]_vars

\* A flush writes a version, or nothing.
LEMMA FlushedRow ==
  ASSUME IInv, NEW r \in Req, Flushes(r), NEW s \in Sid, session[s] # NoRow
  PROVE  \/ session'[s] = session[s]
         \/ /\ s = at[r] /\ session'[s] \in Row
            /\ session'[s] = [session[s] EXCEPT !.version = mem[r].version]
            /\ session'[s].version = mem[r].version
            /\ \A field \in {"step", "status", "attempts", "hint_level"} : session'[s][field] = session[s][field]
  <1>1. session \in [Sid -> Row \cup {NoRow}] /\ session[s] \in Row
    BY DEF IInv, TypeInv, TypeOK
  <1>2. CASE session' = session
    BY <1>2
  <1>3. CASE session' = [session EXCEPT ![at[r]].version = mem[r].version]
    <2>1. CASE s = at[r]
      <3>1. session'[s] = [session[s] EXCEPT !.version = mem[r].version]
        BY <1>1, <1>3, <2>1
      <3>2. mem[r].version \in Nat
        BY RowFields DEF Flushes, Answering, IInv, TypeInv, ReqInv
      <3> QED
        BY <1>1, <2>1, <3>1, <3>2 DEF Row
    <2> QED
      BY <1>1, <1>3, <2>1
  <1> QED
    BY <1>2, <1>3 DEF Flushes

\* A row that is not flushed is written with a greater version than it had.
LEMMA OthersGrow ==
  ASSUME IInv, NEW r \in Req, StepOf(r), ~ Flushes(r), NEW s \in Sid,
         session[s] # NoRow, session'[s] # NoRow
  PROVE  session'[s] = session[s] \/ session'[s].version > session[s].version
  <1>1. session \in [Sid -> Row \cup {NoRow}] /\ session[s] \in Row /\ session[s].version \in Nat
    BY RowFields DEF IInv, TypeInv, TypeOK
  <1>2. CASE Moves(r) \/ Conjures(r) \/ Replies(r)
    BY <1>2 DEF Moves, Conjures, Replies
  <1>3. CASE Inserts(r)
    <2>1. minted + 1 # s
      BY RowsOfStep DEF Stored
    <2> QED
      BY <1>1, <1>3, <2>1 DEF Inserts
  <1>4. CASE Switches(r)
    <2>1. CASE s = at[r]
      <3>1. session'[s] = Switched(session[s], call[r].byok)
        BY <1>1, <1>4, <2>1 DEF Switches
      <3> QED
        BY <1>1, <3>1, Versions
    <2> QED
      BY <1>1, <1>4, <2>1 DEF Switches
  <1>5. CASE ServerJudges(r) \/ ClientJudges(r)
    <2>1. PICK verdict \in Verdicts, base \in {mem[r], session[at[r]]} :
            /\ session' = [session EXCEPT ![at[r]] =
                             WithProgress(base, Transition(StateOf(mem[r]), verdict), mem[r].version + 1)]
            /\ session[at[r]] # NoRow => base = session[at[r]] /\ base.version = mem[r].version
      BY <1>5 DEF ServerJudges, ClientJudges, RecordJudgement, VersionMatches
    <2>2. CASE s = at[r]
      <3>1. session'[s] = WithProgress(session[s], Transition(StateOf(mem[r]), verdict), session[s].version + 1)
        BY <1>1, <2>1, <2>2
      <3> QED
        BY <1>1, <3>1, Versions
    <2> QED
      BY <1>1, <2>1, <2>2
  <1>6. CASE Deletes(r)
    <2>1. s # minted + 1
      BY RowsOfStep DEF Stored
    <2> QED
      BY <1>6, <2>1 DEF Deletes, CommitDelete
  <1> QED
    BY <1>2, <1>3, <1>4, <1>5, <1>6 DEF StepOf

\* A row is written with a greater version than it had.
LEMMA RowsGrow ==
  ASSUME VersionsGrow, IInv, NEW r \in Req, StepOf(r), NEW s \in Sid,
         session[s] # NoRow, session'[s] # NoRow
  PROVE  session'[s] = session[s] \/ session'[s].version > session[s].version
  <1>1. session[s] \in Row /\ session[s].version \in Nat
    BY RowFields DEF IInv, TypeInv, TypeOK
  <1>2. CASE Flushes(r)
    <2>1. CASE session'[s] = session[s]
      BY <2>1
    <2>2. CASE session'[s] \in Row /\ session'[s] = [session[s] EXCEPT !.version = mem[r].version]
      <3>1. session'[s].version \in Nat /\ session'[s].version >= session[s].version
        BY <2>2, RowFields DEF VersionsGrow
      <3>2. session'[s].version = session[s].version => session'[s] = session[s]
        <4>1. session'[s].version = mem[r].version
          BY <1>1, <2>2 DEF Row
        <4> QED
          BY <1>1, <2>2, <4>1 DEF Row
      <3> QED
        BY <1>1, <3>1, <3>2
    <2> QED
      BY <1>2, <2>1, <2>2, FlushedRow
  <1> QED
    BY <1>2, OthersGrow

\* The flush of a turn whose instance is older than the row by now.
LateFlush(s) == \E r \in Req : pc[r] = "flush" /\ at[r] = s /\ mem[r].version < session[s].version

\* The hypothesis asks nothing but that no flush is overtaken: the only step that takes a
\* version back is the flush of a turn whose instance is older than the row by then
\* (turn.py:176, flushed at sessions.py:417 and committed at 440).
THEOREM OnlyFlushesGoBack ==
  Spec => [][\A s \in Sid : session[s] # NoRow /\ session'[s] # NoRow =>
               session'[s].version >= session[s].version \/ LateFlush(s)]_vars
  <1>1. ASSUME IInv, IInv', Next, NEW s \in Sid, session[s] # NoRow, session'[s] # NoRow
        PROVE  session'[s].version >= session[s].version \/ LateFlush(s)
    <2>1. session[s].version \in Nat /\ session'[s].version \in Nat
      BY <1>1, RowFields DEF IInv, TypeInv, TypeOK
    <2>2. CASE Weathers
      BY <2>1, <2>2 DEF Weathers
    <2>3. ASSUME NEW r \in Req, StepOf(r), Flushes(r)
          PROVE  session'[s].version >= session[s].version \/ LateFlush(s)
      <3>1. mem[r].version \in Nat /\ pc[r] = "flush"
        BY <1>1, <2>3, RowFields DEF Flushes, Answering, IInv, TypeInv, ReqInv
      <3>2. session'[s] = session[s] \/ (s = at[r] /\ session'[s].version = mem[r].version)
        BY <1>1, <2>3, FlushedRow
      <3> QED
        BY <2>1, <3>1, <3>2 DEF LateFlush
    <2>4. ASSUME NEW r \in Req, StepOf(r), ~ Flushes(r) PROVE session'[s].version >= session[s].version
      <3>1. session'[s] = session[s] \/ session'[s].version > session[s].version
        BY <1>1, <2>4, OthersGrow
      <3>2. CASE session'[s] = session[s]
        BY <2>1, <3>2
      <3>3. CASE session'[s].version > session[s].version
        BY <2>1, <3>3
      <3> QED
        BY <3>1, <3>2, <3>3
    <2> QED
      BY <1>1, <2>2, <2>3, <2>4, StepKinds
  <1>2. IInv /\ IInv' /\ [Next]_vars =>
         [\A s \in Sid : session[s] # NoRow /\ session'[s] # NoRow =>
            session'[s].version >= session[s].version \/ LateFlush(s)]_vars
    BY <1>1
  <1> QED
    BY <1>2, ServiceInvariant, PTL DEF Spec

\* The instance that r's own step leaves in memory.
LEMMA OwnInstance ==
  ASSUME IInv, NEW r \in Req, StepOf(r), Current(r)
  PROVE  Current(r)'
  <1>1. CASE ~ HasRow(r)'
    BY <1>1 DEF Current, HasRow
  <1>2. CASE Conjures(r)
    <2>1. Instance(r)' = minted + 1 /\ session' = session /\ ~ mem'[r].byok
      BY <1>2 DEF Conjures, Instance, FreshRow
    <2>2. minted' \in Sid /\ minted + 1 \notin Stored /\ minted' = minted + 1
      BY <1>2, RowsOfStep DEF Conjures
    <2>3. session'[minted + 1] = NoRow
      BY <2>1, <2>2 DEF Stored
    <2> QED
      BY <2>1, <2>3 DEF Current
  <1>3. CASE HasRow(r)' /\ ~ Conjures(r)
    <2>1. Moves(r) /\ (Arrives(r) \/ GoesOn(r))
      BY <1>3 DEF HasRow, Reading, StepOf, Moves, Flushes, Inserts, Switches, ServerJudges, ClientJudges,
                  Replies, Deletes
    <2>2. session' = session
      BY <2>1 DEF Moves
    <2>3. ASSUME NEW row \in Row PROVE IsInstance(row, row)
      BY RowFields DEF IsInstance
    <2>4. \A s \in Sid : session[s] # NoRow => session[s] \in Row
      BY DEF IInv, TypeInv, TypeOK
    <2>5. CASE Arrives(r)
      BY <1>3, <2>2, <2>3, <2>4, <2>5 DEF Arrives, Current, HasRow, Reading, Instance, Stored
    <2>6. CASE GoesOn(r)
      <3>1. CASE pc'[r] = "record"
        BY <2>2, <2>3, <2>4, <2>6, <3>1 DEF GoesOn, Current, Reading, Instance, Stored
      <3>2. CASE pc'[r] = "begin"
        <4>1. /\ pc[r] = "lock" /\ Reading(r) /\ at'[r] = at[r] /\ at[r] \in Stored /\ call'[r] = call[r]
              /\ mem'[r] = IF at[r] = call[r].sid THEN mem[r] ELSE session[at[r]]
          BY <2>6, <3>2 DEF GoesOn
        <4>2. Instance(r) = call[r].sid /\ Instance(r)' = at[r] /\ HasRow(r)
          BY <3>2, <4>1 DEF Instance, HasRow
        <4> QED
          BY <2>2, <2>3, <2>4, <3>2, <4>1, <4>2 DEF Current, Stored
      <3>3. CASE pc'[r] \in {"gate", "lock"}
        <4>1. HasRow(r) /\ Instance(r)' = Instance(r) /\ mem'[r] = mem[r] /\ call'[r] = call[r]
              /\ Reading(r) /\ pc[r] # "lazy"
          BY <1>3, <2>6, <3>3 DEF GoesOn, HasRow, Reading, Instance
        <4> QED
          BY <2>2, <4>1 DEF Current
      <3> QED
        BY <1>3, <2>6, <3>1, <3>2, <3>3 DEF GoesOn, HasRow, Reading
    <2> QED
      BY <2>1, <2>5, <2>6
  <1> QED
    BY <1>1, <1>2, <1>3

LEMMA CurrentStep ==
  ASSUME VersionsGrow, IInv, IInv', FreshInv, CurrentInv, NEW r \in Req, StepOf(r)
  PROVE  CurrentInv'
  <1>1. Current(r)'
    BY OwnInstance DEF CurrentInv
  <1>2. ASSUME NEW q \in Req \ {r} PROVE Current(q)'
    <2>1. Same(q) /\ Current(q)
      BY DEF StepOf, OthersWait, CurrentInv
    <2>2. /\ HasRow(q)' <=> HasRow(q)
          /\ Reading(q)' <=> Reading(q)
          /\ Instance(q)' = Instance(q)
      BY <2>1 DEF HasRow, Reading, Instance, Same
    <2>3. ASSUME HasRow(q), session'[Instance(q)] # NoRow
          PROVE  IsInstance(mem[q], session'[Instance(q)])
      <3> DEFINE s == Instance(q)
      <3>1. s \in Sid /\ s <= minted /\ mem[q] \in Row
        <4>1. CASE pc[q] \in {"scan", "lock"}
          <5>1. Reading(q) /\ s = call[q].sid
            BY <2>3, <4>1 DEF HasRow, Instance
          <5>2. mem[q] \in Row
            BY <4>1, <5>1 DEF Reading, IInv, TypeInv, ReqInv, Answering
          <5> QED
            BY <5>1, <5>2, ReadingCall DEF FreshInv, Drawn
        <4>2. CASE pc[q] \notin {"scan", "lock"}
          <5>1. pc[q] \in {"begin", "gate", "record"} /\ s = at[q]
            BY <2>3, <4>2 DEF HasRow, Reading, Instance
          <5> QED
            BY <5>1, TrailTypes DEF FreshInv, Drawn, Placed, Answering
        <4> QED
          BY <4>1, <4>2
      <3>2. ~ (ServerJudges(r) /\ session[at[r]] = NoRow /\ s = at[r])
        <4>1. SUFFICES ASSUME Pending(r), s = at[r] PROVE FALSE
          BY DEF ServerJudges, Pending
        <4>2. (pc[q] \in Placed => at[q] # at[r]) /\ (Reading(q) => call[q].sid # at[r])
          BY <4>1 DEF FreshInv, Alone
        <4>3. CASE pc[q] \in {"scan", "lock"}
          BY <2>3, <4>1, <4>2, <4>3 DEF HasRow, Instance
        <4>4. CASE pc[q] \notin {"scan", "lock"}
          BY <2>3, <4>1, <4>2, <4>4 DEF HasRow, Instance, Reading, Placed
        <4> QED
          BY <4>3, <4>4
      <3>3. session[s] # NoRow
        <4>1. minted \in Nat /\ s \in Nat
          BY <3>1, RowsOfStep DEF Sid
        <4>2. s # minted + 1
          BY <3>1, <4>1
        <4> QED
          BY <2>3, <3>1, <3>2, <4>2, RowsOfStep
      <3>4. IsInstance(mem[q], session[s])
        BY <2>1, <2>3, <3>3 DEF Current
      <3>5. session'[s] = session[s] \/ session'[s].version > session[s].version
        BY <2>3, <3>1, <3>3, RowsGrow
      <3>6. session[s] \in Row /\ session'[s] \in Row
        BY <2>3, <3>1, <3>3 DEF IInv, TypeInv, TypeOK
      <3>7. mem[q].version \in Nat /\ session[s].version \in Nat /\ session'[s].version \in Nat
        BY <3>1, <3>6, RowFields
      <3> HIDE DEF s
      <3> QED
        BY <3>4, <3>5, <3>7 DEF IsInstance, s
    <2> QED
      BY <2>1, <2>2, <2>3 DEF Current, Same
  <1> QED
    BY <1>1, <1>2 DEF CurrentInv

\* A step that changes nothing takes no version back either.
LEMMA StaysPut ==
  ASSUME [VersionsGrow]_vars, TypeInv PROVE VersionsGrow
  <1>1. CASE UNCHANGED vars
    <2> SUFFICES ASSUME NEW s \in Sid, session[s] # NoRow PROVE session'[s].version >= session[s].version
      BY DEF VersionsGrow
    <2>1. session[s].version \in Nat /\ session' = session
      BY <1>1, RowFields DEF vars, db, TypeInv, TypeOK
    <2> QED
      BY <2>1
  <1> QED
    BY <1>1

LEMMA NextCurrent ==
  ASSUME [VersionsGrow]_vars, IInv, IInv', FreshInv, CurrentInv, [Next]_vars
  PROVE  CurrentInv'
  <1>1. CASE Weathers
    <2>1. ASSUME NEW q \in Req, HasRow(q)' \/ Reading(q)' PROVE Same(q)
      BY <1>1, <2>1 DEF Weathers, HasRow, Reading
    <2>2. UNCHANGED <<session, call>>
      BY <1>1 DEF Weathers
    <2> QED
      BY <2>1, <2>2 DEF CurrentInv, Current, HasRow, Reading, Instance, Same
  <1>2. VersionsGrow
    BY StaysPut DEF IInv
  <1> QED
    BY <1>1, <1>2, StepKinds, CurrentStep

LEMMA InitCurrent ==
  ASSUME Init
  PROVE  CurrentInv
  BY DEF Init, CurrentInv, Current, HasRow, Reading

\* Who passes from the gate to the flush has judged.
LEMMA GatePassed ==
  ASSUME IInv, [Next]_vars, NEW r \in Req, pc[r] = "gate", pc'[r] = "flush"
  PROVE  StepOf(r) /\ ServerJudges(r)
  <1>1. PICK q \in Req : StepOf(q)
    BY StepKinds DEF Weathers, Same
  <1>2. q = r
    BY <1>1 DEF StepOf, OthersWait, Same
  <1> QED
    BY <1>1, <1>2 DEF StepOf, Moves, Flushes, Conjures, Inserts, Switches, ClientJudges, Replies, Deletes,
                      Arrives, GoesOn, Reading

\* What an accepted judgement was computed from is the row as it stands.
LEMMA JudgesWhatStands ==
  ASSUME IInv, CurrentInv, NEW r \in Req, ServerJudges(r), session[at[r]] # NoRow
  PROVE  session[at[r]] = mem[r]
  BY DEF ServerJudges, VersionMatches, CurrentInv, Current, HasRow, Reading, Instance, IsInstance

\* Whatever a request has in memory is the row itself or has a smaller version, in every
\* deployment and for grounded turns too, as long as no version goes back.
THEOREM CurrentInvariant ==
  Spec /\ NoVersionReturns => [](IInv /\ FreshInv /\ TrailInv /\ CurrentInv)
  <1>1. Init => CurrentInv
    BY InitCurrent
  <1>2. IInv /\ IInv' /\ FreshInv /\ CurrentInv /\ [Next]_vars /\ [VersionsGrow]_vars => CurrentInv'
    BY NextCurrent
  <1> QED
    BY <1>1, <1>2, TrailInvariant, PTL DEF Spec, NoVersionReturns

\* As long as no version goes back, a turn never writes over a row it has not read,
\* although each grounded one flushes a version behind its commit: the claim of save_state
\* (repo.py:245), which the run LostUpdate refutes once a version does go back.
THEOREM NoLostUpdate ==
  Spec /\ NoVersionReturns => SavesOverWhatItRead
  <1>1. IInv /\ CurrentInv /\ [Next]_vars =>
          [\A r \in Req : pc[r] = "gate" /\ pc'[r] = "flush" /\ session[at[r]] # NoRow =>
             session[at[r]] = mem[r]]_vars
    BY GatePassed, JudgesWhatStands
  <1> QED
    BY <1>1, CurrentInvariant, PTL DEF Spec, SavesOverWhatItRead

\* Nor does it judge, on the server's key, a session that a model switch made
\* client-direct after the turn was admitted (sessions.py:374-379).
THEOREM SwitchStopsAdmittedTurn ==
  Spec /\ NoVersionReturns => SwitchStopsTurn
  <1>1. ASSUME IInv, FreshInv, CurrentInv, [Next]_vars,
               NEW r \in Req, pc[r] = "gate", pc'[r] = "flush", at[r] = call[r].sid
        PROVE  ~ session[at[r]].byok
    <2>1. ServerJudges(r) /\ Reading(r) /\ Instance(r) = call[r].sid
      BY <1>1, GatePassed DEF Reading, Instance
    <2>2. ~ Pending(r)
      BY <1>1, <2>1 DEF FreshInv, Alone
    <2>3. session[at[r]] = mem[r]
      BY <1>1, <2>1, <2>2, JudgesWhatStands DEF Pending
    <2> QED
      BY <1>1, <2>1, <2>3 DEF CurrentInv, Current
  <1>2. IInv /\ FreshInv /\ CurrentInv /\ [Next]_vars =>
          [\A r \in Req : pc[r] = "gate" /\ pc'[r] = "flush" /\ at[r] = call[r].sid =>
             ~ session[at[r]].byok]_vars
    BY <1>1
  <1> QED
    BY <1>2, CurrentInvariant, PTL DEF Spec, SwitchStopsTurn

-------------------------------------------------------------------------------
(***************************************************************************)
(* The gate table and the audit trail of one session, against its row.     *)
(* One judgement writes all three; that they agree afterwards rests on     *)
(* where gate rows and audit rows can be: on the steps up to the row's.    *)
(***************************************************************************)
Reached(step) == StepsBefore(step) \cup {step}

Passed(gates) == {step \in Step : gates[step] # NoGate /\ gates[step].verdict = "pass"}

Ledger(row, gates) ==
  /\ Passed(gates) = IF row.status = "completed" THEN LadderOf(row.step) ELSE StepsBefore(row.step)
  /\ row.status = "active" =>
       row.attempts = IF gates[row.step] = NoGate THEN 0 ELSE gates[row.step].attempts
  /\ \A step \in Step : gates[step] # NoGate => step \in Reached(row.step)

Retries(calls, step) == {g \in calls : g.step = step /\ g.verdict = "retry"}

Retried(row, calls) ==
  /\ IsFiniteSet(calls)
  /\ row.status = "active" => row.attempts = Cardinality(Retries(calls, row.step))
  /\ \A g \in calls : g.step \in Reached(row.step)

\* The row a judgement saves, and the gate row and the audit row it writes.
Saved(row, verdict) == WithProgress(row, Transition(StateOf(row), verdict), row.version + 1)

Entry(row, verdict, kind) ==
  [verdict |-> verdict.verdict, score |-> verdict.score,
   attempts |-> Transition(StateOf(row), verdict).attempts, judge_kind |-> kind]

\* The columns of the saved row, verdict by verdict.
LEMMA SavedColumns ==
  ASSUME NEW row \in Row, row.status = "active", NEW verdict \in GateVerdict
  PROVE  LET state == Transition(StateOf(row), verdict)
             next  == NextStep(row.step)
         IN  /\ Saved(row, verdict).step = state.step /\ Saved(row, verdict).status = state.status
             /\ Saved(row, verdict).attempts = state.attempts
             /\ Saved(row, verdict).hint_level = state.hint_level
             /\ verdict.verdict = "pass" =>
                  /\ state.attempts = 0
                  /\ next = NoStep => state.step = row.step /\ state.status = "completed"
                  /\ next # NoStep => state.step = next /\ state.status = "active"
             /\ verdict.verdict # "pass" => state.step = row.step /\ state.status = "active"
             /\ verdict.verdict = "retry" => state.attempts = row.attempts + 1
             /\ verdict.verdict \notin {"pass", "retry"} => state.attempts = row.attempts
  <1> DEFINE state == Transition(StateOf(row), verdict)
  <1>1. /\ StateOf(row) \in SessionState /\ StateOf(row).status = "active"
        /\ StateOf(row).step = row.step /\ StateOf(row).attempts = row.attempts
    BY StateOfType DEF StateOf
  <1>2. verdict.verdict = "pass" => state = Advance(StateOf(row), verdict)
    BY <1>1 DEF Transition
  <1>3. verdict.verdict = "retry" => state = Retry(StateOf(row), verdict)
    BY <1>1 DEF Transition
  <1>4. verdict.verdict \notin {"pass", "retry"} => state = StateOf(row)
    BY <1>1 DEF Transition
  <1>5. /\ Saved(row, verdict).step = state.step /\ Saved(row, verdict).status = state.status
        /\ Saved(row, verdict).attempts = state.attempts
        /\ Saved(row, verdict).hint_level = state.hint_level
    BY DEF Saved, WithProgress, Row
  <1> HIDE DEF state
  <1>6. verdict.verdict = "pass" =>
          /\ state.attempts = 0
          /\ NextStep(row.step) = NoStep => state.step = row.step /\ state.status = "completed"
          /\ NextStep(row.step) # NoStep => state.step = NextStep(row.step) /\ state.status = "active"
    BY <1>1, <1>2 DEF Advance
  <1>7. verdict.verdict = "retry" =>
          state.step = row.step /\ state.status = "active" /\ state.attempts = row.attempts + 1
    BY <1>1, <1>3, RetryFields
  <1>8. verdict.verdict \notin {"pass", "retry"} =>
          state.step = row.step /\ state.status = "active" /\ state.attempts = row.attempts
    BY <1>1, <1>4
  <1> QED
    BY <1>5, <1>6, <1>7, <1>8 DEF state

\* The step after the current one is not reached.
LEMMA NextUnreached ==
  ASSUME NEW step \in Step, NextStep(step) # NoStep
  PROVE  /\ NextStep(step) \in Step /\ NextStep(step) \notin Reached(step)
         /\ Reached(step) \subseteq Reached(NextStep(step))
         /\ StepsBefore(NextStep(step)) = Reached(step)
  <1>1. /\ NextStep(step) \in Step /\ TrackOf(NextStep(step)) = TrackOf(step)
        /\ StepIndex(NextStep(step)) = StepIndex(step) + 1 /\ StepIndex(step) \in Nat
    BY NextStepClimbs, StepIndexOfStep
  <1>2. NextStep(step) \notin Reached(step)
    BY <1>1 DEF Reached, StepsBefore
  <1>3. StepsBefore(NextStep(step)) = Reached(step)
    BY ClearingAStep DEF Reached
  <1> QED
    BY <1>1, <1>2, <1>3 DEF Reached

LEMMA StepNotBefore ==
  ASSUME NEW step \in Step
  PROVE  step \notin StepsBefore(step) /\ (NextStep(step) = NoStep => LadderOf(step) = Reached(step))
  BY StepIndexOfStep, ClearingAStep DEF StepsBefore, Reached

LEMMA LedgerJudged ==
  ASSUME NEW row \in Row, row.status = "active", NEW verdict \in GateVerdict,
         NEW gates \in [Step -> GateRow \cup {NoGate}], Ledger(row, gates),
         NEW kind \in {"llm", "byok"}
  PROVE  Ledger(Saved(row, verdict), [gates EXCEPT ![row.step] = Entry(row, verdict, kind)])
  <1> DEFINE entry == Entry(row, verdict, kind)
             new   == [gates EXCEPT ![row.step] = entry]
             saved == Saved(row, verdict)
  <1>1. /\ row.step \in Step /\ saved.attempts = entry.attempts
        /\ entry.verdict = verdict.verdict
    BY SavedColumns, RowFields DEF Entry
  <1>2. entry # NoGate
    <2>1. Transition(StateOf(row), verdict).attempts \in Nat
      BY StateOfType, TransitionType DEF SessionState
    <2>2. entry \in GateRow
      BY <2>1 DEF Entry, GateRow, GateVerdict
    <2> QED
      BY <2>2, ServiceAssumption
  <1>3. new[row.step] = entry /\ \A step \in Step \ {row.step} : new[step] = gates[step]
    BY <1>1
  <1>4. /\ Passed(gates) = StepsBefore(row.step)
        /\ \A step \in Step : gates[step] # NoGate => step \in Reached(row.step)
    BY DEF Ledger
  <1>5. \A step \in Step : new[step] # NoGate => step \in Reached(row.step)
    BY <1>1, <1>3, <1>4 DEF Reached
  <1>6. row.step \notin StepsBefore(row.step)
        /\ (NextStep(row.step) = NoStep => LadderOf(row.step) = Reached(row.step))
    BY <1>1, StepNotBefore
  <1> SUFFICES Ledger(saved, new)
    OBVIOUS
  <1> HIDE DEF entry, new, saved
  <1>7. CASE verdict.verdict = "pass"
    <2>1. Passed(new) = Reached(row.step)
      BY <1>1, <1>2, <1>3, <1>4, <1>7 DEF Passed, Reached
    <2>2. CASE NextStep(row.step) = NoStep
      <3>1. saved.step = row.step /\ saved.status = "completed"
        BY <1>7, <2>2, SavedColumns DEF saved
      <3> QED
        BY <1>5, <1>6, <2>1, <2>2, <3>1 DEF Ledger
    <2>3. CASE NextStep(row.step) # NoStep
      <3>1. saved.step = NextStep(row.step) /\ saved.status = "active" /\ saved.attempts = 0
        BY <1>7, <2>3, SavedColumns DEF saved
      <3>2. /\ saved.step \in Step /\ saved.step \notin Reached(row.step)
            /\ Reached(row.step) \subseteq Reached(saved.step)
            /\ StepsBefore(saved.step) = Reached(row.step)
        BY <1>1, <2>3, <3>1, NextUnreached
      <3>3. new[saved.step] = NoGate
        BY <1>5, <3>2
      <3> QED
        BY <1>5, <2>1, <3>1, <3>2, <3>3 DEF Ledger
    <2> QED
      BY <2>2, <2>3
  <1>8. CASE verdict.verdict # "pass"
    <2>1. saved.step = row.step /\ saved.status = "active"
      BY <1>8, SavedColumns DEF saved
    <2>2. Passed(new) = StepsBefore(row.step)
      BY <1>1, <1>3, <1>4, <1>6, <1>8 DEF Passed
    <2> QED
      BY <1>1, <1>2, <1>3, <1>5, <2>1, <2>2 DEF Ledger
  <1> QED
    BY <1>7, <1>8

LEMMA RetriedJudged ==
  ASSUME NEW row \in Row, row.status = "active", NEW verdict \in GateVerdict,
         NEW calls \in SUBSET GateCall, Retried(row, calls),
         NEW g \in GateCall, g \notin calls, g.step = row.step, g.verdict = verdict.verdict
  PROVE  Retried(Saved(row, verdict), calls \cup {g})
  <1> DEFINE saved == Saved(row, verdict)
             new   == calls \cup {g}
  <1>1. row.step \in Step /\ row.attempts \in Nat
    BY RowFields DEF Row
  <1>2. IsFiniteSet(new)
    BY FS_AddElement DEF Retried
  <1>3. \A c \in new : c.step \in Reached(row.step)
    BY DEF Retried, Reached
  <1>4. /\ row.attempts = Cardinality(Retries(calls, row.step))
        /\ IsFiniteSet(Retries(calls, row.step))
    BY FS_Subset DEF Retried, Retries
  <1> HIDE DEF saved
  <1>5. CASE verdict.verdict = "pass"
    <2>1. CASE NextStep(row.step) = NoStep
      <3>1. saved.step = row.step /\ saved.status = "completed"
        BY <1>5, <2>1, SavedColumns DEF saved
      <3> QED
        BY <1>2, <1>3, <3>1 DEF Retried, saved
    <2>2. CASE NextStep(row.step) # NoStep
      <3>1. saved.step = NextStep(row.step) /\ saved.attempts = 0
        BY <1>5, <2>2, SavedColumns DEF saved
      <3>2. saved.step \notin Reached(row.step) /\ Reached(row.step) \subseteq Reached(saved.step)
        BY <1>1, <2>2, <3>1, NextUnreached
      <3>3. Retries(new, saved.step) = {}
        BY <1>3, <3>2 DEF Retries
      <3>4. saved.attempts = Cardinality(Retries(new, saved.step))
        BY <3>1, <3>3, FS_EmptySet
      <3>5. \A c \in new : c.step \in Reached(saved.step)
        BY <1>3, <3>2
      <3> QED
        BY <1>2, <3>4, <3>5 DEF Retried, saved
    <2> QED
      BY <2>1, <2>2
  <1>6. CASE verdict.verdict = "retry"
    <2>1. saved.step = row.step /\ saved.attempts = row.attempts + 1
      BY <1>6, SavedColumns DEF saved
    <2>2. Retries(new, row.step) = Retries(calls, row.step) \cup {g} /\ g \notin Retries(calls, row.step)
      BY <1>6 DEF Retries
    <2> DEFINE old == Retries(calls, row.step)
    <2> HIDE DEF old
    <2>3. Cardinality(old \cup {g}) = Cardinality(old) + 1
      BY <1>4, <2>2, FS_AddElement DEF old
    <2>4. Cardinality(Retries(new, row.step)) = row.attempts + 1
      BY <1>4, <2>2, <2>3 DEF old
    <2> QED
      BY <1>2, <1>3, <2>1, <2>4 DEF Retried, saved
  <1>7. CASE verdict.verdict \notin {"pass", "retry"}
    <2>1. saved.step = row.step /\ saved.attempts = row.attempts
      BY <1>7, SavedColumns DEF saved
    <2>2. Retries(new, row.step) = Retries(calls, row.step)
      BY <1>7 DEF Retries
    <2> QED
      BY <1>2, <1>3, <1>4, <2>1, <2>2 DEF Retried, saved
  <1> QED
    BY <1>5, <1>6, <1>7

\* A fresh session has nothing in its ledger.
LEMMA FreshLedger ==
  ASSUME NEW row, IsFresh(row)
  PROVE  /\ row \in Row /\ row.status = "active" /\ row.attempts = 0
         /\ Ledger(row, NoGates) /\ Retried(row, {})
  <1>1. PICK problem \in Problem, track \in Track, byok \in BOOLEAN : row = FreshRow(problem, track, byok)
    BY DEF IsFresh
  <1>2. /\ row \in Row /\ row.step = FirstStep(track) /\ row.status = "active" /\ row.attempts = 0
        /\ StepsBefore(row.step) = {} /\ row.step \in Step
    BY <1>1, FreshRowType, FirstStepIsFirst DEF FreshRow
  <1>3. Passed(NoGates) = {} /\ \A step \in Step : NoGates[step] = NoGate
    BY DEF Passed, NoGates
  <1>4. Retries({}, row.step) = {} /\ IsFiniteSet({}) /\ Cardinality({}) = 0
    BY FS_EmptySet DEF Retries
  <1> QED
    BY <1>2, <1>3, <1>4 DEF Ledger, Retried

-------------------------------------------------------------------------------
(***************************************************************************)
(* The sessions keep their ledgers: a judgement finds the row in memory as *)
(* it stands in the database, or creates it.                               *)
(***************************************************************************)
LedgerInv == \A s \in Stored : Ledger(session[s], gate[s]) /\ Retried(session[s], gateCall[s])

LEMMA JudgedSession ==
  ASSUME IInv, FreshInv, TrailInv, CurrentInv, NEW r \in Req, ServerJudges(r) \/ ClientJudges(r)
  PROVE  /\ at[r] \in Sid /\ mem[r] \in Row /\ mem[r].status = "active"
         /\ \/ session[at[r]] = mem[r]
            \/ session[at[r]] = NoRow /\ IsFresh(mem[r])
         /\ \E verdict \in Verdicts, kind \in {"llm", "byok"}, g \in GateCall :
              /\ session' = [session EXCEPT ![at[r]] = Saved(mem[r], verdict)]
              /\ gate' = [gate EXCEPT ![at[r]] = [gate[at[r]] EXCEPT ![mem[r].step] = Entry(mem[r], verdict, kind)]]
              /\ gateCall' = [gateCall EXCEPT ![at[r]] = gateCall[at[r]] \cup {g}]
              /\ g \notin gateCall[at[r]] /\ g.step = mem[r].step /\ g.verdict = verdict.verdict
  <1> DEFINE s   == at[r]
             row == mem[r]
  <1>1. s \in Sid /\ row \in Row /\ call[r].turn \in Turn \cup {NoTurn}
    BY TrailTypes DEF ServerJudges, ClientJudges, Placed, Answering
  <1>2. row.status = "active" /\ row.step \in Step
    BY <1>1, Judgement, RowFields DEF Accepts, SessionStatus
  <1>3. \/ session[s] = row
        \/ session[s] = NoRow /\ IsFresh(row) /\ ServerJudges(r)
    <2>1. CASE ServerJudges(r) /\ session[s] = NoRow
      BY <2>1 DEF ServerJudges, Pending, FreshInv, Drawn
    <2>2. CASE ServerJudges(r) /\ session[s] # NoRow
      BY <2>2, JudgesWhatStands
    <2>3. CASE ClientJudges(r)
      BY <2>3 DEF ClientJudges
    <2> QED
      BY <2>1, <2>2, <2>3
  <1>4. row # NoRow
    BY <1>1, RowFields
  <1>5. PICK verdict \in Verdicts, judge \in {"llm", "byok"}, replies \in {<<>>, <<ReplyMessage(r)>>} :
          RecordJudgement(r, verdict, judge, row, replies)
    <2>1. CASE ServerJudges(r)
      <3>1. (IF session[s] = NoRow THEN row ELSE session[s]) = row
        BY <1>3
      <3>2. \E verdict \in Verdicts : RecordJudgement(r, verdict, "llm", row, <<>>)
        BY <2>1, <3>1 DEF ServerJudges
      <3> QED
        BY <3>2
    <2>2. CASE ClientJudges(r)
      BY <2>2 DEF ClientJudges
    <2> QED
      BY <2>1, <2>2
  <1>6. verdict \in GateVerdict
    BY ServiceAssumption
  <1> DEFINE kind == IF gate[s][row.step] = NoGate THEN judge ELSE gate[s][row.step].judge_kind
             g    == [turn |-> call[r].turn, step |-> row.step, answer_seq |-> NextSeq(s),
                      verdict |-> verdict.verdict, provider |-> judge]
  <1>7. kind \in {"llm", "byok"}
    <2>1. gate[s][row.step] \in GateRow \cup {NoGate}
      BY <1>1, <1>2 DEF IInv, TypeInv, TypeOK
    <2> QED
      BY <2>1 DEF GateRow
  <1>8. session' = [session EXCEPT ![s] = Saved(row, verdict)]
    BY <1>5 DEF RecordJudgement, Saved
  <1>9. gate' = [gate EXCEPT ![s] = [gate[s] EXCEPT ![row.step] = Entry(row, verdict, kind)]]
    BY <1>1, <1>5 DEF RecordJudgement, Entry, IInv, TypeInv, TypeOK
  <1>10. gateCall' = [gateCall EXCEPT ![s] = gateCall[s] \cup {g}]
    BY <1>1, <1>5 DEF RecordJudgement, IInv, TypeInv, TypeOK
  <1>11. g \in GateCall /\ g.step = row.step /\ g.verdict = verdict.verdict /\ g.answer_seq = NextSeq(s)
    <2>1. verdict.verdict \in Verdict
      BY <1>6 DEF GateVerdict
    <2>2. NextSeq(s) \in Nat
      BY <1>1, TrailTypes DEF NextSeq
    <2> QED
      BY <1>1, <1>2, <2>1, <2>2 DEF GateCall
  <1>12. g \notin gateCall[s]
    <2>1. Audited(message[s], gateCall[s]) /\ message[s] \in Seq(Message)
      BY <1>1, TrailTypes DEF TrailInv, Trails, TrailOf
    <2>2. NextSeq(s) \notin DOMAIN message[s]
      BY <2>1 DEF NextSeq
    <2> HIDE DEF g
    <2> QED
      BY <1>11, <2>1, <2>2 DEF Audited
  <1> HIDE DEF g, kind
  <1> QED
    BY <1>1, <1>2, <1>3, <1>7, <1>8, <1>9, <1>10, <1>11, <1>12

LEMMA LedgerStep ==
  ASSUME IInv, FreshInv, TrailInv, CurrentInv, LedgerInv, NEW r \in Req, StepOf(r)
  PROVE  LedgerInv'
  <1>1. /\ session \in [Sid -> Row \cup {NoRow}]
        /\ gate \in [Sid -> [Step -> GateRow \cup {NoGate}]]
        /\ gateCall \in [Sid -> SUBSET GateCall]
        /\ minted + 1 \notin Stored /\ (minted' = minted + 1 => minted + 1 \in Sid)
    BY RowsOfStep DEF IInv, TypeInv, TypeOK
  <1> DEFINE Kept(s)  == Ledger(session'[s], gate'[s]) /\ Retried(session'[s], gateCall'[s])
  <1> SUFFICES ASSUME NEW s \in Sid, session'[s] # NoRow PROVE Kept(s)
    BY DEF LedgerInv, Stored
  <1>2. session[s] # NoRow => Ledger(session[s], gate[s]) /\ Retried(session[s], gateCall[s])
    BY DEF LedgerInv, Stored
  <1>3. session[s] = NoRow => gate[s] = NoGates /\ gateCall[s] = {}
    BY DEF TrailInv, GoneIsEmpty
  \* A row with the same progress columns, or a fresh one.
  <1>4. ASSUME gate'[s] = gate[s], gateCall'[s] = gateCall[s], session[s] # NoRow,
               session'[s].step = session[s].step, session'[s].status = session[s].status,
               session'[s].attempts = session[s].attempts
        PROVE  Kept(s)
    BY <1>2, <1>4 DEF Ledger, Retried
  <1>5. ASSUME gate'[s] = gate[s], gateCall'[s] = gateCall[s], session[s] = NoRow, IsFresh(session'[s])
        PROVE  Kept(s)
    BY <1>3, <1>5, FreshLedger
  <1> HIDE DEF Kept
  <1>6. CASE Flushes(r)
    <2>1. gate' = gate /\ gateCall' = gateCall
      BY <1>6 DEF Flushes, Records
    <2>2. session[s] # NoRow
      BY <1>1, <1>6 DEF Flushes
    <2> QED
      BY <1>4, <1>6, <2>1, <2>2, FlushedRow
  <1>7. CASE Moves(r) \/ Conjures(r) \/ Replies(r)
    <2>1. session' = session /\ gate' = gate /\ gateCall' = gateCall
      BY <1>7 DEF Moves, Conjures, Replies, Records
    <2> QED
      BY <1>4, <2>1
  <1>8. CASE Inserts(r)
    <2>1. IsFresh(mem[r]) /\ gate' = gate /\ gateCall' = gateCall
      BY <1>8 DEF Inserts, Records, FreshInv, Drawn
    <2>2. session'[s] = IF s = minted + 1 THEN mem[r] ELSE session[s]
      BY <1>1, <1>8 DEF Inserts
    <2>3. s = minted + 1 => session[s] = NoRow
      BY <1>1 DEF Stored
    <2> QED
      BY <1>4, <1>5, <2>1, <2>2, <2>3
  <1>9. CASE Switches(r)
    <2>1. gate' = gate /\ gateCall' = gateCall /\ session[at[r]] # NoRow
          /\ session'[s] = IF s = at[r] THEN Switched(session[s], call[r].byok) ELSE session[s]
      BY <1>1, <1>9 DEF Switches, Records
    <2>2. session[s] \in Row
      BY <1>1, <2>1
    <2>3. LET new == Switched(session[s], call[r].byok)
          IN  new.step = session[s].step /\ new.status = session[s].status /\ new.attempts = session[s].attempts
      BY <2>2 DEF Switched, Row
    <2> QED
      BY <1>4, <2>1, <2>3
  <1>10. CASE ServerJudges(r) \/ ClientJudges(r)
    <2> DEFINE row == mem[r]
    <2>1. /\ at[r] \in Sid /\ row \in Row /\ row.status = "active"
          /\ \/ session[at[r]] = row
             \/ session[at[r]] = NoRow /\ IsFresh(row)
      BY <1>10, JudgedSession
    <2>2. PICK verdict \in Verdicts, kind \in {"llm", "byok"}, g \in GateCall :
            /\ session' = [session EXCEPT ![at[r]] = Saved(row, verdict)]
            /\ gate' = [gate EXCEPT ![at[r]] = [gate[at[r]] EXCEPT ![row.step] = Entry(row, verdict, kind)]]
            /\ gateCall' = [gateCall EXCEPT ![at[r]] = gateCall[at[r]] \cup {g}]
            /\ g \notin gateCall[at[r]] /\ g.step = row.step /\ g.verdict = verdict.verdict
      BY <1>10, JudgedSession
    <2>3. verdict \in GateVerdict
      BY ServiceAssumption
    <2>4. CASE s = at[r]
      <3>1. Ledger(row, gate[s]) /\ Retried(row, gateCall[s])
        <4>1. row # NoRow
          BY <2>1, RowFields
        <4> QED
          BY <1>2, <1>3, <2>1, <2>4, <4>1, FreshLedger
      <3>2. /\ session'[s] = Saved(row, verdict)
            /\ gate'[s] = [gate[s] EXCEPT ![row.step] = Entry(row, verdict, kind)]
            /\ gateCall'[s] = gateCall[s] \cup {g}
        BY <1>1, <2>2, <2>4
      <3>3. gate[s] \in [Step -> GateRow \cup {NoGate}] /\ gateCall[s] \in SUBSET GateCall
        BY <1>1
      <3>4. Ledger(session'[s], gate'[s])
        <4> DEFINE gates == gate[s]
        <4>1. gates \in [Step -> GateRow \cup {NoGate}] /\ Ledger(row, gates)
          BY <3>1, <3>3
        <4> HIDE DEF gates, row
        <4>2. Ledger(Saved(row, verdict), [gates EXCEPT ![row.step] = Entry(row, verdict, kind)])
          BY <2>1, <2>3, <4>1, LedgerJudged
        <4> QED
          BY <3>2, <4>2 DEF gates
      <3>5. Retried(session'[s], gateCall'[s])
        <4> DEFINE calls == gateCall[s]
        <4>1. /\ calls \in SUBSET GateCall /\ Retried(row, calls) /\ g \notin calls
              /\ g.step = row.step /\ g.verdict = verdict.verdict
          BY <2>2, <2>4, <3>1, <3>3
        <4> HIDE DEF calls, row
        <4>2. Retried(Saved(row, verdict), calls \cup {g})
          BY <2>1, <2>3, <4>1, RetriedJudged
        <4> QED
          BY <3>2, <4>2 DEF calls
      <3> QED
        BY <3>4, <3>5 DEF Kept
    <2>5. CASE s # at[r]
      <3>1. session'[s] = session[s] /\ gate'[s] = gate[s] /\ gateCall'[s] = gateCall[s]
        BY <1>1, <2>1, <2>2, <2>5
      <3> QED
        BY <1>4, <3>1
    <2> QED
      BY <2>4, <2>5
  <1>11. CASE Deletes(r)
    <2>1. /\ s \notin hold[r]
          /\ gate'[s] = gate[s] /\ gateCall'[s] = gateCall[s]
      BY <1>11 DEF Deletes, CommitDelete
    <2>2. \/ session'[s] = session[s]
          \/ /\ s = minted + 1 /\ call[r].op = "reset"
             /\ session'[s] = FreshRow(mem[r].problem, mem[r].track, mem[r].byok)
      BY <1>11, <2>1 DEF Deletes, CommitDelete
    <2>3. CASE session'[s] = session[s]
      BY <1>4, <2>1, <2>3
    <2>4. CASE /\ s = minted + 1 /\ call[r].op = "reset"
               /\ session'[s] = FreshRow(mem[r].problem, mem[r].track, mem[r].byok)
      <3>1. mem[r] \in Row
        BY <1>11, <2>4 DEF Deletes, IInv, TypeInv, ReqInv
      <3>2. IsFresh(session'[s])
        BY <2>4, <3>1, RowFields DEF IsFresh
      <3>3. session[s] = NoRow
        BY <1>1, <2>4 DEF Stored
      <3> QED
        BY <1>5, <2>1, <3>2, <3>3
    <2> QED
      BY <2>2, <2>3, <2>4
  <1> QED
    BY <1>6, <1>7, <1>8, <1>9, <1>10, <1>11 DEF StepOf

LEMMA NextLedger ==
  ASSUME IInv, FreshInv, TrailInv, CurrentInv, LedgerInv, [Next]_vars
  PROVE  LedgerInv'
  <1>1. CASE Weathers
    <2>1. UNCHANGED <<session, gate, gateCall>>
      BY <1>1 DEF Weathers, Records
    <2>2. Stored' = Stored
      BY <2>1 DEF Stored
    <2> QED
      BY <2>1, <2>2 DEF LedgerInv
  <1> QED
    BY <1>1, StepKinds, LedgerStep

LEMMA InitLedger ==
  ASSUME Init
  PROVE  LedgerInv
  <1> SUFFICES ASSUME NEW s \in Stored PROVE Ledger(session[s], gate[s]) /\ Retried(session[s], gateCall[s])
    BY DEF LedgerInv
  <1>1. PICK seed \in Seeds :
          session = [z \in Sid |-> IF z \in DOMAIN seed
                                   THEN FreshRow(seed[z].problem, seed[z].track, seed[z].byok)
                                   ELSE NoRow]
    BY DEF Init
  <1>2. s \in Sid /\ s \in DOMAIN seed /\ session[s] = FreshRow(seed[s].problem, seed[s].track, seed[s].byok)
    BY <1>1 DEF Stored
  <1>3. IsFresh(session[s])
    <2> DEFINE Begun == [problem : Problem, track : Track, byok : BOOLEAN]
    <2>1. seed \in Seq(Begun)
      BY ServiceAssumption
    <2> HIDE DEF Begun
    <2>2. seed[s] \in Begun
      BY <1>2, <2>1
    <2>3. seed[s].problem \in Problem /\ seed[s].track \in Track /\ seed[s].byok \in BOOLEAN
      BY <2>2 DEF Begun
    <2> QED
      BY <1>2, <2>3 DEF IsFresh
  <1>4. gate[s] = NoGates /\ gateCall[s] = {}
    BY <1>2 DEF Init
  <1> QED
    BY <1>3, <1>4, FreshLedger

\* The ledgers of all sessions, with what they rest on.
ServiceInv == IInv /\ FreshInv /\ TrailInv /\ CurrentInv /\ LedgerInv

THEOREM LedgerInvariant ==
  Spec /\ NoVersionReturns => []ServiceInv
  <1>1. Init => LedgerInv
    BY InitLedger
  <1>2. IInv /\ FreshInv /\ TrailInv /\ CurrentInv /\ LedgerInv /\ [Next]_vars => LedgerInv'
    BY NextLedger
  <1> QED
    BY <1>1, <1>2, CurrentInvariant, PTL DEF Spec, ServiceInv

\* The gate table tells the same story as the session row, however many requests judge,
\* switch, reset and purge the session at once.
THEOREM GateTableFollowsRow ==
  Spec /\ NoVersionReturns => []GateLedger
  <1>1. ServiceInv => GateLedger
    BY DEF ServiceInv, LedgerInv, GateLedger, Ledger, Passed
  <1> QED
    BY <1>1, LedgerInvariant, PTL

\* The audit trail is complete and exact, and the row shows the retries it holds: no judged
\* answer is lost.
THEOREM NoJudgedAnswerLost ==
  Spec /\ NoVersionReturns => []AuditTrail
  <1>1. ServiceInv => AttemptsAreRetries
    BY DEF ServiceInv, LedgerInv, AttemptsAreRetries, Retried, Retries
  <1> QED
    BY <1>1, LedgerInvariant, EveryAnswerAudited, PTL DEF AuditTrail


-------------------------------------------------------------------------------
(***************************************************************************)
(* The refinement.  A session's progress is its row with the scores of its *)
(* gate rows; the answers judged in it are those of its transcript.        *)
(***************************************************************************)
ScoresOf(gates) ==
  [step \in Step |-> IF gates[step] # NoGate /\ gates[step].verdict = "pass" THEN gates[step].score ELSE NoScore]

ProgressOf(row, gates) == [StateOf(row) EXCEPT !.scores = ScoresOf(gates)]

\* A row and its gate table make a state.
LEMMA ProgressType ==
  ASSUME NEW row \in Row, NEW gates \in [Step -> GateRow \cup {NoGate}]
  PROVE  /\ ProgressOf(row, gates) \in SessionState
         /\ ProgressOf(row, gates) =
              [step |-> row.step, attempts |-> row.attempts, hint_level |-> row.hint_level,
               status |-> row.status, scores |-> ScoresOf(gates)]
  <1>1. ScoresOf(gates) \in [Step -> SCORE_VALUES \cup {NoScore}]
    BY DEF ScoresOf, GateRow
  <1>2. ProgressOf(row, gates) =
              [step |-> row.step, attempts |-> row.attempts, hint_level |-> row.hint_level,
               status |-> row.status, scores |-> ScoresOf(gates)]
    BY DEF ProgressOf, StateOf
  <1> HIDE DEF ProgressOf
  <1> QED
    BY <1>1, <1>2 DEF SessionState, Row

\* A judgement that saves the row it read is a transition of the progress, scores included:
\* a step is scored when it is passed, and was not before.
LEMMA ProgressJudged ==
  ASSUME NEW row \in Row, row.status = "active", NEW verdict \in GateVerdict,
         NEW gates \in [Step -> GateRow \cup {NoGate}], Ledger(row, gates),
         NEW kind \in {"llm", "byok"}
  PROVE  ProgressOf(Saved(row, verdict), [gates EXCEPT ![row.step] = Entry(row, verdict, kind)])
           = Transition(ProgressOf(row, gates), verdict)
  <1> DEFINE entry  == Entry(row, verdict, kind)
             new    == [gates EXCEPT ![row.step] = entry]
             state  == Transition(StateOf(row), verdict)
             scores == ScoresOf(gates)
             begun  == ProgressOf(row, gates)
             ended  == Transition(begun, verdict)
  <1>1. row.step \in Step /\ entry.verdict = verdict.verdict /\ entry.score = verdict.score
    BY RowFields DEF Entry
  <1>2. entry # NoGate
    <2>1. state.attempts \in Nat
      BY StateOfType, TransitionType DEF SessionState
    <2>2. entry \in GateRow
      BY <2>1 DEF Entry, GateRow, GateVerdict
    <2> QED
      BY <2>2, ServiceAssumption
  <1>3. ScoresOf(new) = IF verdict.verdict = "pass" THEN [scores EXCEPT ![row.step] = verdict.score] ELSE scores
    <2>1. row.step \notin Passed(gates)
      BY <1>1, StepNotBefore DEF Ledger
    <2>2. scores[row.step] = NoScore
      BY <1>1, <2>1 DEF ScoresOf, Passed
    <2>3. new[row.step] = entry /\ \A step \in Step \ {row.step} : new[step] = gates[step]
      BY <1>1
    <2> HIDE DEF entry, new
    <2> QED
      BY <1>1, <1>2, <2>2, <2>3 DEF ScoresOf
  <1>4. begun = [step |-> row.step, attempts |-> row.attempts, hint_level |-> row.hint_level,
                 status |-> row.status, scores |-> scores]
    BY ProgressType
  <1>5. ProgressOf(Saved(row, verdict), new) =
          [step |-> state.step, attempts |-> state.attempts, hint_level |-> state.hint_level,
           status |-> state.status, scores |-> ScoresOf(new)]
    BY SavedColumns DEF ProgressOf, StateOf
  <1> SUFFICES ProgressOf(Saved(row, verdict), new) = ended
    OBVIOUS
  <1> HIDE DEF entry, new, scores, begun
  <1>6. CASE verdict.verdict = "pass"
    <2>1. state = Advance(StateOf(row), verdict) /\ ended = Advance(begun, verdict)
      BY <1>4, <1>6 DEF Transition, StateOf
    <2> HIDE DEF state, ended
    <2> QED
      BY <1>3, <1>4, <1>5, <1>6, <2>1 DEF Advance, StateOf
  <1>7. CASE verdict.verdict = "retry"
    <2> DEFINE attempts == row.attempts + 1
               hint == Smaller(MAX_HINT_LEVEL, Larger(row.hint_level, Larger(verdict.next_hint_level, attempts)))
    <2>1. state = Retry(StateOf(row), verdict) /\ ended = Retry(begun, verdict)
      BY <1>4, <1>7 DEF Transition, StateOf
    <2>2. /\ state.step = row.step /\ state.attempts = attempts /\ state.hint_level = hint
          /\ state.status = row.status
      BY <2>1 DEF Retry, StateOf
    <2>3. ended = [step |-> row.step, attempts |-> attempts, hint_level |-> hint,
                   status |-> row.status, scores |-> scores]
      BY <1>4, <2>1 DEF Retry
    <2> HIDE DEF state, ended, attempts, hint
    <2> QED
      BY <1>3, <1>5, <1>7, <2>2, <2>3
  <1>8. CASE verdict.verdict \notin {"pass", "retry"}
    <2>1. state = StateOf(row) /\ ended = begun
      BY <1>4, <1>8 DEF Transition, StateOf
    <2> HIDE DEF state, ended
    <2> QED
      BY <1>3, <1>4, <1>5, <1>8, <2>1 DEF StateOf
  <1> QED
    BY <1>6, <1>7, <1>8

\* A fresh session starts in the initial state of its ladder.
LEMMA ProgressFresh ==
  ASSUME NEW problem \in Problem, NEW track \in Track, NEW byok \in BOOLEAN
  PROVE  ProgressOf(FreshRow(problem, track, byok), NoGates) = InitialState(track)
  <1>1. ScoresOf(NoGates) = NoScores
    BY DEF ScoresOf, NoGates, NoScores
  <1> QED
    BY <1>1 DEF ProgressOf, StateOf, FreshRow, InitialState

-------------------------------------------------------------------------------
(***************************************************************************)
(* The turns of the answers of a transcript.                               *)
(***************************************************************************)
WellRanked(texts) == \A n \in 1 .. Cardinality(AnswersIn(texts)) : Ranked(AnswersIn(texts), n) # {}

LEMMA AnswersFinite ==
  ASSUME NEW texts \in Seq(Message)
  PROVE  /\ IsFiniteSet(AnswersIn(texts)) /\ Cardinality(AnswersIn(texts)) \in Nat
         /\ AnswersIn(texts) \in SUBSET (1 .. Len(texts)) /\ Len(texts) \in Nat
  <1>1. AnswersIn(texts) \in SUBSET (1 .. Len(texts)) /\ Len(texts) \in Nat
    BY DEF AnswersIn
  <1>2. IsFiniteSet(1 .. Len(texts))
    BY <1>1, FS_Interval
  <1> QED
    BY <1>1, <1>2, FS_Subset, FS_CardinalityType

\* A new greatest member comes last in the ranking.
LEMMA RankedLast ==
  ASSUME NEW S \in SUBSET Nat, IsFiniteSet(S), NEW k \in Nat, \A i \in S : i < k
  PROVE  /\ Cardinality(S \cup {k}) = Cardinality(S) + 1 /\ Cardinality(S) \in Nat
         /\ \A n \in 1 .. Cardinality(S) : Ranked(S \cup {k}, n) = Ranked(S, n)
         /\ Ranked(S \cup {k}, Cardinality(S) + 1) = {k}
  <1> DEFINE T       == S \cup {k}
             Upto(i) == {j \in T : j <= i}
             Below(i) == {j \in S : j <= i}
  <1>1. k \notin S
    OBVIOUS
  <1>2. Cardinality(T) = Cardinality(S) + 1 /\ Cardinality(S) \in Nat
    BY <1>1, FS_AddElement, FS_CardinalityType
  <1>3. \A i \in S : Upto(i) = Below(i)
    OBVIOUS
  <1>4. Upto(k) = T
    <2>1. \A i \in T : i <= k
      OBVIOUS
    <2> HIDE DEF T
    <2> QED
      BY <2>1
  <1>5. \A i \in S : Cardinality(Below(i)) <= Cardinality(S) /\ Cardinality(Below(i)) \in Nat
    <2> TAKE i \in S
    <2>1. Below(i) \in SUBSET S
      OBVIOUS
    <2> HIDE DEF Below
    <2> QED
      BY <2>1, FS_Subset, FS_CardinalityType
  <1>6. \A n : Ranked(T, n) = {i \in T : Cardinality(Upto(i)) = n}
    BY DEF Ranked
  <1>7. \A n : Ranked(S, n) = {i \in S : Cardinality(Below(i)) = n}
    BY DEF Ranked
  <1>8. T = S \cup {k}
    OBVIOUS
  <1> SUFFICES /\ Cardinality(T) = Cardinality(S) + 1 /\ Cardinality(S) \in Nat
               /\ \A n \in 1 .. Cardinality(S) : Ranked(T, n) = Ranked(S, n)
               /\ Ranked(T, Cardinality(S) + 1) = {k}
    OBVIOUS
  <1> HIDE DEF T, Upto, Below
  <1>9. ASSUME NEW n \in 1 .. Cardinality(S) PROVE Ranked(T, n) = Ranked(S, n)
    <2>1. Cardinality(Upto(k)) # n
      BY <1>2, <1>4
    <2>2. Ranked(T, n) = {i \in T : Cardinality(Upto(i)) = n} /\ Ranked(S, n) = {i \in S : Cardinality(Below(i)) = n}
      BY <1>6, <1>7
    <2>3. ASSUME NEW i \in S PROVE i \in Ranked(T, n) <=> i \in Ranked(S, n)
      <3>1. Cardinality(Upto(i)) = Cardinality(Below(i))
        BY <1>3
      <3> QED
        BY <1>8, <2>2, <3>1
    <2> QED
      BY <1>8, <2>1, <2>2, <2>3
  <1>10. Ranked(T, Cardinality(S) + 1) = {k}
    <2>1. \A i \in S : Cardinality(Upto(i)) # Cardinality(S) + 1
      BY <1>2, <1>3, <1>5
    <2> QED
      BY <1>2, <1>4, <1>6, <1>8, <2>1
  <1> QED
    BY <1>2, <1>9, <1>10

\* Which message has a rank is an answer.
LEMMA RankIsAnswer ==
  ASSUME NEW texts, NEW n, Ranked(AnswersIn(texts), n) # {}
  PROVE  LET i == Only(Ranked(AnswersIn(texts), n))
         IN  i \in DOMAIN texts /\ texts[i].role = "user"
  BY DEF Only, Ranked, AnswersIn

\* A reply is no answer.
LEMMA TurnsAfterReply ==
  ASSUME NEW texts \in Seq(Message), NEW m \in Message, m.role = "coach", WellRanked(texts)
  PROVE  /\ AnswersIn(Append(texts, m)) = AnswersIn(texts)
         /\ WellRanked(Append(texts, m)) /\ TurnsIn(Append(texts, m)) = TurnsIn(texts)
  <1> DEFINE new == Append(texts, m)
  <1>1. /\ Len(texts) \in Nat /\ DOMAIN texts = 1 .. Len(texts) /\ DOMAIN new = 1 .. (Len(texts) + 1)
        /\ (\A i \in DOMAIN texts : new[i] = texts[i]) /\ new[Len(texts) + 1] = m
    BY Appended
  <1> SUFFICES AnswersIn(new) = AnswersIn(texts) /\ WellRanked(new) /\ TurnsIn(new) = TurnsIn(texts)
    OBVIOUS
  <1> HIDE DEF new
  <1>2. AnswersIn(new) = AnswersIn(texts)
    BY <1>1 DEF AnswersIn
  <1>3. ASSUME NEW n \in 1 .. Cardinality(AnswersIn(texts))
        PROVE  LET i == Only(Ranked(AnswersIn(texts), n)) IN new[i] = texts[i]
    BY <1>1, RankIsAnswer DEF WellRanked
  <1> QED
    BY <1>2, <1>3 DEF WellRanked, TurnsIn

\* An answer comes last.
LEMMA TurnsAfterAnswer ==
  ASSUME NEW texts \in Seq(Message), NEW m \in Message, m.role = "user", WellRanked(texts)
  PROVE  /\ Cardinality(AnswersIn(Append(texts, m))) = Cardinality(AnswersIn(texts)) + 1
         /\ WellRanked(Append(texts, m))
         /\ TurnsIn(Append(texts, m)) = Append(TurnsIn(texts), m.turn)
  <1> DEFINE new == Append(texts, m)
             old == AnswersIn(texts)
             k   == Len(texts) + 1
             c   == Cardinality(old)
  <1>1. /\ Len(texts) \in Nat /\ DOMAIN texts = 1 .. Len(texts) /\ DOMAIN new = 1 .. (Len(texts) + 1)
        /\ (\A i \in DOMAIN texts : new[i] = texts[i]) /\ new[Len(texts) + 1] = m
    BY Appended
  <1>2. IsFiniteSet(old) /\ old \in SUBSET (1 .. Len(texts))
    BY AnswersFinite
  <1> SUFFICES /\ Cardinality(AnswersIn(new)) = c + 1
               /\ WellRanked(new) /\ TurnsIn(new) = Append(TurnsIn(texts), m.turn)
    OBVIOUS
  <1> HIDE DEF new
  <1>3. AnswersIn(new) = old \cup {k}
    BY <1>1 DEF AnswersIn
  <1>4. /\ Cardinality(old \cup {k}) = c + 1 /\ c \in Nat
        /\ \A n \in 1 .. c : Ranked(old \cup {k}, n) = Ranked(old, n)
        /\ Ranked(old \cup {k}, c + 1) = {k}
    <2>1. old \in SUBSET Nat /\ k \in Nat /\ \A i \in old : i < k
      BY <1>1, <1>2
    <2> HIDE DEF old, k
    <2> QED
      BY <1>2, <2>1, RankedLast
  <1>5. ASSUME NEW n \in 1 .. c
        PROVE  LET i == Only(Ranked(old, n)) IN i \in DOMAIN texts /\ new[i] = texts[i]
    BY <1>1, RankIsAnswer DEF WellRanked
  <1>6. WellRanked(new)
    <2>1. \A n \in 1 .. c : Ranked(old, n) # {}
      BY DEF WellRanked
    <2> HIDE DEF old, k, c
    <2>2. \A n \in 1 .. (c + 1) : n \in 1 .. c \/ n = c + 1
      BY <1>4
    <2> QED
      BY <1>3, <1>4, <2>1, <2>2 DEF WellRanked
  <1>7. TurnsIn(new) = Append(TurnsIn(texts), m.turn)
    <2> DEFINE turns == TurnsIn(texts)
    <2>1. turns = [n \in 1 .. c |-> texts[Only(Ranked(old, n))].turn]
      BY DEF TurnsIn
    <2>2. TurnsIn(new) = [n \in 1 .. (c + 1) |-> new[Only(Ranked(old \cup {k}, n))].turn]
      BY <1>3, <1>4 DEF TurnsIn
    <2>3. Only({k}) = k
      BY DEF Only
    <2>4. turns \in Seq(Turn \cup {NoTurn}) /\ Len(turns) = c
      <3>1. \A n \in 1 .. c : texts[Only(Ranked(old, n))].turn \in Turn \cup {NoTurn}
        <4> TAKE n \in 1 .. c
        <4>1. Only(Ranked(old, n)) \in DOMAIN texts
          BY <1>5
        <4> HIDE DEF old, c
        <4>2. texts[Only(Ranked(old, n))] \in Message
          BY <4>1
        <4> QED
          BY <4>2 DEF Message
      <3> HIDE DEF c, old, turns
      <3> QED
        BY <1>4, <2>1, <3>1
    <2>5. \A n \in 1 .. c : new[Only(Ranked(old \cup {k}, n))].turn = turns[n]
      BY <1>4, <1>5, <2>1
    <2>6. new[Only(Ranked(old \cup {k}, c + 1))].turn = m.turn
      BY <1>1, <1>4, <2>3
    <2> DEFINE Turned(n) == new[Only(Ranked(old \cup {k}, n))].turn
    <2>7. (\A n \in 1 .. c : Turned(n) = turns[n]) /\ Turned(c + 1) = m.turn
          /\ TurnsIn(new) = [n \in 1 .. (c + 1) |-> Turned(n)]
      BY <2>2, <2>5, <2>6
    <2> SUFFICES TurnsIn(new) = Append(turns, m.turn)
      OBVIOUS
    <2> HIDE DEF turns, old, k, c, Turned
    <2>8. Append(turns, m.turn) = [n \in 1 .. (c + 1) |-> IF n = c + 1 THEN m.turn ELSE turns[n]]
      BY <1>4, <2>4
    <2>9. \A n \in 1 .. (c + 1) : Turned(n) = IF n = c + 1 THEN m.turn ELSE turns[n]
      BY <1>4, <2>7
    <2> QED
      BY <2>7, <2>8, <2>9
  <1> QED
    BY <1>3, <1>4, <1>6, <1>7

LEMMA NoTurns ==
  AnswersIn(<<>>) = {} /\ Cardinality(AnswersIn(<<>>)) = 0 /\ WellRanked(<<>>) /\ TurnsIn(<<>>) = <<>>
  <1>1. AnswersIn(<<>>) = {} /\ Cardinality(AnswersIn(<<>>)) = 0
    BY FS_EmptySet DEF AnswersIn
  <1> QED
    BY <1>1 DEF WellRanked, TurnsIn

-------------------------------------------------------------------------------
(***************************************************************************)
(* Every request judges at most one answer, so no session has more answers *)
(* than requests have come so far.                                         *)
(***************************************************************************)
Spent == {r \in Req : pc[r] \in {"flush", "stream", "write", "fk", "done"}}

RankInv ==
  \A s \in Sid : WellRanked(message[s]) /\ Cardinality(AnswersIn(message[s])) <= Cardinality(Spent)

LEMMA SpentGrows ==
  ASSUME IsFiniteSet(Req), NEW r \in Req, StepOf(r)
  PROVE  /\ Cardinality(Spent) \in Nat /\ Cardinality(Spent') \in Nat
         /\ Cardinality(Spent) <= Cardinality(Spent')
         /\ ServerJudges(r) \/ ClientJudges(r) =>
              Cardinality(Spent) < Cardinality(Spent') /\ Cardinality(Spent) < Cardinality(Req)
  <1>1. Spent \in SUBSET Req /\ Spent' \in SUBSET Req
    BY DEF Spent
  <1>2. \A T \in SUBSET Req : IsFiniteSet(T) /\ Cardinality(T) \in Nat
    BY FS_Subset, FS_CardinalityType
  <1>3. Spent \subseteq Spent'
    <2>1. pc[r] \in {"flush", "stream", "write", "fk", "done"} => pc'[r] \in {"flush", "stream", "write", "fk", "done"}
      BY DEF StepOf, Moves, Flushes, Conjures, Inserts, Switches, ServerJudges, ClientJudges, Replies,
             Deletes, Arrives, GoesOn, Reading
    <2> QED
      BY <2>1 DEF Spent, StepOf, OthersWait, Same
  <1>4. ASSUME ServerJudges(r) \/ ClientJudges(r) PROVE r \in Spent' /\ r \notin Spent
    BY <1>4 DEF Spent, ServerJudges, ClientJudges
  <1> HIDE DEF Spent
  <1>5. \A T, U \in SUBSET Req : T \subseteq U => Cardinality(T) <= Cardinality(U) /\ (Cardinality(T) = Cardinality(U) => T = U)
    BY <1>2, FS_Subset
  <1>6. Cardinality(Spent) <= Cardinality(Spent') /\ Cardinality(Spent') <= Cardinality(Req) /\ Cardinality(Req) \in Nat
    BY <1>1, <1>2, <1>3, <1>5
  <1>7. ServerJudges(r) \/ ClientJudges(r) => Cardinality(Spent) # Cardinality(Spent')
    BY <1>1, <1>3, <1>4, <1>5
  <1> QED
    BY <1>1, <1>2, <1>6, <1>7

\* The answer that a judgement appends.
LEMMA JudgedTranscript ==
  ASSUME IInv, TrailInv, NEW r \in Req, ServerJudges(r) \/ ClientJudges(r), WellRanked(message[at[r]])
  PROVE  /\ WellRanked(message'[at[r]])
         /\ Cardinality(AnswersIn(message'[at[r]])) = Cardinality(AnswersIn(message[at[r]])) + 1
         /\ TurnsIn(message'[at[r]]) = Append(TurnsIn(message[at[r]]), call[r].turn)
  <1> DEFINE texts == message[at[r]]
             a     == Answer(call[r].turn, call[r].step)
             c     == Reply(call[r].turn, call[r].step)
             mid   == Append(texts, a)
  <1>1. /\ texts \in Seq(Message)
        /\ call[r].turn \in Turn \cup {NoTurn} /\ call[r].step \in Step
    BY Judgement, TrailTypes DEF ServerJudges, ClientJudges, Answering
  <1>2. a \in Message /\ c \in Message /\ a.role = "user" /\ c.role = "coach" /\ a.turn = call[r].turn
    BY <1>1 DEF Answer, Reply, Message
  <1>3. message'[at[r]] = texts \o <<a>> \o <<>> \/ message'[at[r]] = texts \o <<a>> \o <<c>>
    BY Judgement
  <1> SUFFICES /\ WellRanked(message'[at[r]])
               /\ Cardinality(AnswersIn(message'[at[r]])) = Cardinality(AnswersIn(texts)) + 1
               /\ TurnsIn(message'[at[r]]) = Append(TurnsIn(texts), a.turn)
    BY <1>2
  <1>4. WellRanked(texts)
    OBVIOUS
  <1> HIDE DEF texts, a, c
  <1>5. texts \o <<a>> \o <<>> = mid /\ texts \o <<a>> \o <<c>> = Append(mid, c) /\ mid \in Seq(Message)
    BY <1>1, <1>2
  <1>6. /\ WellRanked(mid) /\ Cardinality(AnswersIn(mid)) = Cardinality(AnswersIn(texts)) + 1
        /\ TurnsIn(mid) = Append(TurnsIn(texts), a.turn)
    BY <1>1, <1>2, <1>4, TurnsAfterAnswer
  <1> HIDE DEF mid
  <1>7. /\ WellRanked(Append(mid, c)) /\ AnswersIn(Append(mid, c)) = AnswersIn(mid)
        /\ TurnsIn(Append(mid, c)) = TurnsIn(mid)
    BY <1>2, <1>5, <1>6, TurnsAfterReply
  <1> QED
    BY <1>3, <1>5, <1>6, <1>7

\* The reply that a turn appends.
LEMMA RepliedTranscript ==
  ASSUME IInv, NEW r \in Req, Replies(r), WellRanked(message[at[r]])
  PROVE  /\ at[r] \in Sid /\ AnswersIn(message'[at[r]]) = AnswersIn(message[at[r]])
         /\ WellRanked(message'[at[r]]) /\ TurnsIn(message'[at[r]]) = TurnsIn(message[at[r]])
         /\ \A s \in Sid \ {at[r]} : message'[s] = message[s]
  <1> DEFINE texts == message[at[r]]
             c     == ReplyMessage(r)
  <1>1. /\ at[r] \in Sid /\ texts \in Seq(Message)
        /\ call[r].turn \in Turn \cup {NoTurn} /\ call[r].step \in Step
    BY TrailTypes DEF Replies, Answering, Placed
  <1>2. c \in Message /\ c.role = "coach"
    BY <1>1 DEF ReplyMessage, Message
  <1>3. message'[at[r]] = Append(texts, c) /\ \A s \in Sid \ {at[r]} : message'[s] = message[s]
    BY <1>1 DEF Replies, IInv, TypeInv, TypeOK
  <1>4. WellRanked(texts)
    OBVIOUS
  <1>5. /\ AnswersIn(Append(texts, c)) = AnswersIn(texts)
        /\ WellRanked(Append(texts, c)) /\ TurnsIn(Append(texts, c)) = TurnsIn(texts)
    <2> HIDE DEF texts, c
    <2> QED
      BY <1>1, <1>2, <1>4, TurnsAfterReply
  <1> QED
    BY <1>1, <1>3, <1>5

LEMMA RankStep ==
  ASSUME IsFiniteSet(Req), IInv, TrailInv, RankInv, NEW r \in Req, StepOf(r)
  PROVE  RankInv'
  <1>1. /\ Cardinality(Spent) \in Nat /\ Cardinality(Spent') \in Nat
        /\ Cardinality(Spent) <= Cardinality(Spent')
        /\ ServerJudges(r) \/ ClientJudges(r) => Cardinality(Spent) < Cardinality(Spent')
    BY SpentGrows
  <1>2. ASSUME NEW s \in Sid
        PROVE  WellRanked(message[s]) /\ Cardinality(AnswersIn(message[s])) <= Cardinality(Spent)
               /\ Cardinality(AnswersIn(message[s])) \in Nat
    BY TrailTypes, AnswersFinite DEF RankInv
  <1> SUFFICES ASSUME NEW s \in Sid
               PROVE  WellRanked(message'[s]) /\ Cardinality(AnswersIn(message'[s])) <= Cardinality(Spent')
    BY DEF RankInv
  <1>3. CASE message'[s] = message[s]
    BY <1>1, <1>2, <1>3
  <1>4. CASE message'[s] = <<>>
    BY <1>1, <1>4, NoTurns
  <1>5. CASE ServerJudges(r) \/ ClientJudges(r)
    <2>1. CASE s = at[r]
      BY <1>1, <1>2, <1>5, <2>1, JudgedTranscript
    <2>2. CASE s # at[r]
      BY <1>3, <1>5, <2>2, Judgement
    <2> QED
      BY <2>1, <2>2
  <1>6. CASE Replies(r)
    <2>1. WellRanked(message[at[r]])
      BY <1>6, TrailTypes DEF Replies, Placed, RankInv
    <2>2. CASE s = at[r]
      BY <1>1, <1>2, <1>6, <2>2, RepliedTranscript
    <2>3. CASE s # at[r]
      <3>1. message'[s] = message[s]
        BY <1>6, <2>1, <2>3, RepliedTranscript
      <3> QED
        BY <1>3, <3>1
    <2> QED
      BY <2>2, <2>3
  <1>7. CASE Deletes(r)
    BY <1>3, <1>4, <1>7 DEF Deletes, CommitDelete
  <1>8. CASE Moves(r) \/ Flushes(r) \/ Conjures(r) \/ Inserts(r) \/ Switches(r)
    BY <1>3, <1>8 DEF Moves, Flushes, Conjures, Inserts, Switches, Records
  <1> QED
    BY <1>5, <1>6, <1>7, <1>8 DEF StepOf

LEMMA NextRank ==
  ASSUME IsFiniteSet(Req), IInv, TrailInv, RankInv, [Next]_vars
  PROVE  RankInv'
  <1>1. CASE Weathers
    <2>1. message' = message
      BY <1>1 DEF Weathers, Records
    <2>2. Spent \in SUBSET Req /\ Spent' \in SUBSET Req /\ Spent \subseteq Spent'
      BY <1>1 DEF Weathers, Spent, Same
    <2>3. Cardinality(Spent) <= Cardinality(Spent') /\ Cardinality(Spent) \in Nat /\ Cardinality(Spent') \in Nat
      <3>1. IsFiniteSet(Spent')
        BY <2>2, FS_Subset
      <3> QED
        BY <2>2, <3>1, FS_Subset, FS_CardinalityType
    <2>4. ASSUME NEW s \in Sid PROVE Cardinality(AnswersIn(message[s])) \in Nat
      BY TrailTypes, AnswersFinite
    <2> QED
      BY <2>1, <2>3, <2>4 DEF RankInv
  <1> QED
    BY <1>1, StepKinds, RankStep

LEMMA InitRank ==
  ASSUME IsFiniteSet(Req), Init
  PROVE  RankInv
  <1>1. Spent = {}
    BY DEF Init, Spent
  <1>2. \A s \in Sid : message[s] = <<>>
    BY DEF Init
  <1> QED
    BY <1>1, <1>2, NoTurns, FS_EmptySet DEF RankInv

-------------------------------------------------------------------------------
(***************************************************************************)
(* Every step of the service is a step of the ladder, or none.             *)
(***************************************************************************)
LEMMA SameFsm ==
  /\ \A state, verdict : Ladder!Transition(state, verdict) = Transition(state, verdict)
  /\ \A track : Ladder!InitialState(track) = InitialState(track)
  <1>1. \A track : Ladder!InitialState(track) = InitialState(track)
    BY DEF Ladder!InitialState, InitialState, Ladder!FirstStep, FirstStep, Ladder!StepsFor, StepsFor,
           Ladder!NoScores, NoScores, Ladder!NoScore, NoScore
  <1>2. \A step : Ladder!NextStep(step) = NextStep(step)
    BY DEF Ladder!NextStep, NextStep, Ladder!TrackOf, TrackOf, Ladder!StepIndex, StepIndex,
           Ladder!Places, Places, Ladder!StepsFor, StepsFor
  <1>3. \A state, verdict : Ladder!Advance(state, verdict) = Advance(state, verdict)
    BY <1>2 DEF Ladder!Advance, Advance
  <1>4. \A state, verdict : Ladder!Retry(state, verdict) = Retry(state, verdict)
    BY DEF Ladder!Retry, Retry, Ladder!Larger, Larger, Ladder!Smaller, Smaller,
           Ladder!MAX_HINT_LEVEL, MAX_HINT_LEVEL
  <1> QED
    BY <1>1, <1>3, <1>4 DEF Ladder!Transition, Transition

\* The progress of a session, in terms of its row and gate rows.
LEMMA ProgressIs ==
  \A s \in Sid : Progress(s) = IF session[s] = NoRow THEN NoRow ELSE ProgressOf(session[s], gate[s])
  BY DEF Progress, ProgressOf, ScoresOf

LEMMA ProgressIsNext ==
  \A s \in Sid : Progress(s)' = IF session'[s] = NoRow THEN NoRow ELSE ProgressOf(session'[s], gate'[s])
  BY DEF Progress, ProgressOf, ScoresOf

\* The sessions the ladder sees are those stored.
LEMMA LiveIsStored ==
  ASSUME IInv
  PROVE  /\ Ladder!Live = Stored
         /\ \A s \in Stored : session[s] \in Row /\ gate[s] \in [Step -> GateRow \cup {NoGate}]
  <1>1. ASSUME NEW s \in Sid, session[s] # NoRow
        PROVE  session[s] \in Row /\ gate[s] \in [Step -> GateRow \cup {NoGate}]
    BY <1>1 DEF IInv, TypeInv, TypeOK
  <1>2. ASSUME NEW s \in Sid PROVE Progress(s) # NoRow <=> session[s] # NoRow
    <2>1. CASE session[s] # NoRow
      BY <1>1, <2>1, ProgressIs, ProgressType, ServiceAssumption
    <2> QED
      BY <2>1, ProgressIs
  <1> QED
    BY <1>1, <1>2 DEF Ladder!Live, Stored

\* Nothing that the ladder sees is changed.
LEMMA LadderStutters ==
  ASSUME \A s \in Sid : Progress(s)' = Progress(s) /\ TurnsIn(message'[s]) = TurnsIn(message[s])
  PROVE  UNCHANGED Ladder!ladderVars
  BY DEF Ladder!ladderVars

\* A judgement of the ladder.
LEMMA LadderJudges ==
  ASSUME NEW s \in Sid, NEW turn \in Turn \cup {NoTurn}, NEW verdict \in Verdicts, NEW state,
         IF s \in Ladder!Live THEN state = Progress(s) ELSE \E track \in Track : state = InitialState(track),
         state.status = "active",
         turn = NoTurn \/ \A i \in DOMAIN TurnsIn(message[s]) : TurnsIn(message[s])[i] # turn,
         Len(TurnsIn(message[s])) < Cardinality(Req),
         Progress(s)' = Transition(state, verdict),
         TurnsIn(message'[s]) = Append(TurnsIn(message[s]), turn),
         \A z \in Sid \ {s} : Progress(z)' = Progress(z) /\ TurnsIn(message'[z]) = TurnsIn(message[z])
  PROVE  Ladder!LadderNext
  <1> DEFINE progress == [z \in Sid |-> Progress(z)]
             judged   == [z \in Sid |-> TurnsIn(message[z])]
             after    == [z \in Sid |-> Progress(z)']
             told     == [z \in Sid |-> TurnsIn(message'[z])]
  <1>1. after = [progress EXCEPT ![s] = Ladder!Transition(state, verdict)]
    BY SameFsm
  <1>2. told = [judged EXCEPT ![s] = Append(judged[s], turn)]
    OBVIOUS
  <1>3. state \in IF s \in Ladder!Live THEN {progress[s]} ELSE {Ladder!InitialState(track) : track \in Track}
    BY SameFsm
  <1>4. /\ turn = NoTurn \/ \A i \in DOMAIN judged[s] : judged[s][i] # turn
        /\ Len(judged[s]) < Cardinality(Req)
    OBVIOUS
  <1>5. Ladder!Judge(s, turn, verdict)
    BY <1>1, <1>2, <1>3, <1>4 DEF Ladder!Judge
  <1> QED
    BY <1>5 DEF Ladder!LadderNext

\* A deletion of the ladder.
LEMMA LadderDeletes ==
  ASSUME NEW gone \in SUBSET Ladder!Live,
         \A s \in Sid : Progress(s)' = IF s \in gone THEN NoRow ELSE Progress(s),
         \A s \in Sid : TurnsIn(message'[s]) = IF s \in gone THEN <<>> ELSE TurnsIn(message[s])
  PROVE  Ladder!LadderNext
  <1> DEFINE after == [s \in Sid |-> Progress(s)']
             track == [s \in {} |-> NoRow]
  <1>1. after = [s \in Sid |-> IF s \in {} THEN Ladder!InitialState(track[s])
                               ELSE IF s \in gone THEN NoRow ELSE [z \in Sid |-> Progress(z)][s]]
    OBVIOUS
  <1>2. track \in [{} -> Track]
    OBVIOUS
  <1>3. Ladder!Replace(gone, {})
    BY <1>1, <1>2 DEF Ladder!Replace
  <1> QED
    BY <1>3 DEF Ladder!LadderNext

\* A deletion with a fresh session in the same step.
LEMMA LadderBegins ==
  ASSUME NEW gone \in SUBSET Ladder!Live, NEW next \in Sid, next \notin Ladder!Live, NEW kind \in Track,
         Progress(next)' = InitialState(kind),
         \A s \in Sid \ {next} : Progress(s)' = IF s \in gone THEN NoRow ELSE Progress(s),
         \A s \in Sid : TurnsIn(message'[s]) = IF s \in gone THEN <<>> ELSE TurnsIn(message[s])
  PROVE  Ladder!LadderNext
  <1> DEFINE after == [s \in Sid |-> Progress(s)']
             track == [s \in {next} |-> kind]
  <1>1. after = [s \in Sid |-> IF s \in {next} THEN Ladder!InitialState(track[s])
                               ELSE IF s \in gone THEN NoRow ELSE [z \in Sid |-> Progress(z)][s]]
    BY SameFsm
  <1>2. track \in [{next} -> Track] /\ {next} \cap Ladder!Live = {}
    OBVIOUS
  <1>3. Ladder!Replace(gone, {next})
    BY <1>1, <1>2 DEF Ladder!Replace
  <1> QED
    BY <1>3 DEF Ladder!LadderNext

LEMMA JudgesSimulated ==
  ASSUME IsFiniteSet(Req), ServiceInv, RankInv, NEW r \in Req, StepOf(r), ServerJudges(r) \/ ClientJudges(r)
  PROVE  Ladder!LadderNext
  <1>1. IInv /\ FreshInv /\ TrailInv /\ CurrentInv /\ LedgerInv
    BY DEF ServiceInv
  <1>2. PICK s \in Sid : s = at[r]
    BY <1>1, JudgedSession
  <1> DEFINE row   == mem[r]
             turn  == call[r].turn
             gates == gate[s]
             state == ProgressOf(row, gates)
  <1>3. /\ s \in Sid /\ row \in Row /\ row.status = "active" /\ row # NoRow
        /\ \/ session[s] = row
           \/ session[s] = NoRow /\ IsFresh(row)
    BY <1>1, <1>2, JudgedSession, RowFields
  <1>4. PICK verdict \in Verdicts, kind \in {"llm", "byok"}, g \in GateCall :
          /\ session' = [session EXCEPT ![s] = Saved(row, verdict)]
          /\ gate' = [gate EXCEPT ![s] = [gates EXCEPT ![row.step] = Entry(row, verdict, kind)]]
    BY <1>1, <1>2, JudgedSession
  <1>5. verdict \in GateVerdict
    BY ServiceAssumption
  <1>6. /\ session \in [Sid -> Row \cup {NoRow}]
        /\ gate \in [Sid -> [Step -> GateRow \cup {NoGate}]]
    BY <1>1 DEF IInv, TypeInv, TypeOK
  <1>7. /\ gates \in [Step -> GateRow \cup {NoGate}] /\ Ledger(row, gates)
        /\ session[s] = NoRow => gates = NoGates
    BY <1>1, <1>3, <1>6, FreshLedger DEF LedgerInv, Stored, TrailInv, GoneIsEmpty
  <1>8. /\ turn \in Turn \cup {NoTurn} /\ message[s] \in Seq(Message)
    BY <1>1, TrailTypes DEF ServerJudges, ClientJudges, Answering
  <1>9. /\ session'[s] = Saved(row, verdict) /\ session'[s] # NoRow
        /\ gate'[s] = [gates EXCEPT ![row.step] = Entry(row, verdict, kind)]
        /\ \A z \in Sid \ {s} : session'[z] = session[z] /\ gate'[z] = gate[z] /\ message'[z] = message[z]
    BY <1>1, <1>2, <1>3, <1>4, <1>6, Judgement
  <1>10. WellRanked(message[s]) /\ Cardinality(AnswersIn(message[s])) <= Cardinality(Spent)
    BY <1>3 DEF RankInv
  <1>11. TurnsIn(message'[s]) = Append(TurnsIn(message[s]), turn)
    BY <1>1, <1>2, <1>10, JudgedTranscript
  <1>12. IF s \in Ladder!Live THEN state = Progress(s) ELSE \E track \in Track : state = InitialState(track)
    <2>1. s \in Ladder!Live <=> session[s] # NoRow
      BY <1>1, <1>3, LiveIsStored DEF Stored
    <2>2. CASE session[s] = row
      BY <1>3, <2>1, <2>2, ProgressIs
    <2>3. CASE session[s] = NoRow /\ IsFresh(row)
      <3>1. PICK problem \in Problem, track \in Track, byok \in BOOLEAN : row = FreshRow(problem, track, byok)
        BY <2>3 DEF IsFresh
      <3>2. state = InitialState(track)
        BY <1>7, <2>3, <3>1, ProgressFresh
      <3> QED
        BY <2>1, <2>3, <3>2
    <2> QED
      BY <1>3, <2>2, <2>3
  <1>13. state.status = "active"
    BY <1>3, <1>7, ProgressType
  <1>14. Progress(s)' = Transition(state, verdict)
    <2>1. Progress(s)' = ProgressOf(session'[s], gate'[s])
      BY <1>3, <1>9, ProgressIsNext
    <2>2. ProgressOf(Saved(row, verdict), [gates EXCEPT ![row.step] = Entry(row, verdict, kind)])
            = Transition(ProgressOf(row, gates), verdict)
      <3> HIDE DEF row, gates
      <3> QED
        BY <1>3, <1>5, <1>7, ProgressJudged
    <2> QED
      BY <1>9, <2>1, <2>2
  <1>15. turn = NoTurn \/ \A i \in DOMAIN TurnsIn(message[s]) : TurnsIn(message[s])[i] # turn
    <2>1. ~ Recorded(s, turn)
      BY <1>1, <1>2, Judgement
    <2>2. SUFFICES ASSUME turn # NoTurn, NEW i \in DOMAIN TurnsIn(message[s])
                   PROVE  TurnsIn(message[s])[i] # turn
      OBVIOUS
    <2> DEFINE texts == message[s]
               place == Only(Ranked(AnswersIn(texts), i))
    <2>3. i \in 1 .. Cardinality(AnswersIn(texts)) /\ TurnsIn(texts)[i] = texts[place].turn
      BY DEF TurnsIn
    <2>4. place \in DOMAIN texts /\ texts[place].role = "user"
      BY <1>10, <2>3, RankIsAnswer DEF WellRanked
    <2> QED
      BY <2>1, <2>2, <2>3, <2>4 DEF Recorded
  <1>16. Len(TurnsIn(message[s])) < Cardinality(Req)
    <2>1. Cardinality(AnswersIn(message[s])) \in Nat
      BY <1>8, AnswersFinite
    <2>2. Len(TurnsIn(message[s])) = Cardinality(AnswersIn(message[s]))
      BY <2>1 DEF TurnsIn
    <2>3. Cardinality(Spent) \in Nat /\ Cardinality(Spent) < Cardinality(Req) /\ Cardinality(Req) \in Nat
      BY SpentGrows, FS_CardinalityType
    <2> QED
      BY <1>10, <2>1, <2>2, <2>3
  <1>17. \A z \in Sid \ {s} : Progress(z)' = Progress(z) /\ TurnsIn(message'[z]) = TurnsIn(message[z])
    BY <1>9, ProgressIs, ProgressIsNext
  <1> HIDE DEF turn, state
  <1> QED
    BY <1>3, <1>8, <1>11, <1>12, <1>13, <1>14, <1>15, <1>16, <1>17, LadderJudges

LEMMA DeletesSimulated ==
  ASSUME ServiceInv, NEW r \in Req, StepOf(r), Deletes(r)
  PROVE  Ladder!LadderNext
  <1>1. IInv /\ FreshInv /\ TrailInv
    BY DEF ServiceInv
  <1>2. PICK gone \in SUBSET Sid : gone = hold[r]
    BY <1>1 DEF IInv, TypeInv, TypeOK
  <1>3. PICK next \in Nat : next = minted + 1
    BY <1>1, RowsOfStep
  <1>4. gone \subseteq Stored /\ Ladder!Live = Stored
    BY <1>1, <1>2, LiveIsStored DEF Deletes, IInv, LockInv, Locked
  <1>5. gone \in SUBSET Ladder!Live
    BY <1>4
  <1>6. next \notin Stored /\ (minted' = next => next \in Sid)
    BY <1>1, <1>3, RowsOfStep
  <1>7. \A s \in Sid : TurnsIn(message'[s]) = IF s \in gone THEN <<>> ELSE TurnsIn(message[s])
    BY <1>2, NoTurns DEF Deletes, CommitDelete
  <1>8. CASE CommitDelete(gone, <<>>)
    <2>1. \A s \in Sid : Progress(s)' = IF s \in gone THEN NoRow ELSE Progress(s)
      BY <1>8, ProgressIs, ProgressIsNext DEF CommitDelete
    <2> QED
      BY <1>5, <1>7, <2>1, LadderDeletes
  <1>9. CASE /\ minted' = next /\ call[r].op = "reset"
             /\ CommitDelete(gone, [s \in {next} |-> FreshRow(mem[r].problem, mem[r].track, mem[r].byok)])
    <2> DEFINE row == FreshRow(mem[r].problem, mem[r].track, mem[r].byok)
    <2>1. mem[r].problem \in Problem /\ mem[r].track \in Track /\ mem[r].byok \in BOOLEAN
      BY <1>1, <1>9, RowFields DEF Deletes, IInv, TypeInv, ReqInv
    <2>2. row # NoRow /\ ProgressOf(row, NoGates) = InitialState(mem[r].track)
      BY <2>1, FreshRowType, RowFields, ProgressFresh
    <2>3. next \in Sid /\ next \notin gone /\ gate[next] = NoGates
      BY <1>1, <1>4, <1>6, <1>9 DEF TrailInv, GoneIsEmpty, Stored
    <2>4. session'[next] = row /\ gate'[next] = NoGates
      BY <1>9, <2>3 DEF CommitDelete
    <2>5. \A s \in Sid \ {next} : Progress(s)' = IF s \in gone THEN NoRow ELSE Progress(s)
      BY <1>9, ProgressIs, ProgressIsNext DEF CommitDelete
    <2> HIDE DEF row
    <2>6. Progress(next)' = InitialState(mem[r].track)
      BY <2>2, <2>3, <2>4, ProgressIsNext
    <2>7. next \notin Ladder!Live
      BY <1>4, <1>6
    <2> QED
      BY <1>5, <1>7, <2>1, <2>3, <2>5, <2>6, <2>7, LadderBegins
  <1> QED
    BY <1>2, <1>3, <1>8, <1>9 DEF Deletes

\* A get-or-create that inserts is a deletion of nothing with a fresh session.
LEMMA InsertsSimulated ==
  ASSUME ServiceInv, NEW r \in Req, StepOf(r), Inserts(r)
  PROVE  Ladder!LadderNext
  <1>1. IInv /\ FreshInv /\ TrailInv
    BY DEF ServiceInv
  <1>2. PICK next \in Nat : next = minted + 1
    BY <1>1, RowsOfStep
  <1>3. next \notin Stored /\ next \in Sid /\ Ladder!Live = Stored
    BY <1>1, <1>2, RowsOfStep, LiveIsStored DEF Inserts
  <1>4. PICK problem \in Problem, kind \in Track, byok \in BOOLEAN : mem[r] = FreshRow(problem, kind, byok)
    BY <1>1 DEF FreshInv, Drawn, IsFresh, Inserts
  <1>5. /\ session' = [session EXCEPT ![next] = mem[r]] /\ gate' = gate /\ message' = message
        /\ session \in [Sid -> Row \cup {NoRow}]
    BY <1>1, <1>2 DEF Inserts, Records, IInv, TypeInv, TypeOK
  <1>6. gate[next] = NoGates
    BY <1>1, <1>3 DEF TrailInv, GoneIsEmpty, Stored
  <1>7. Progress(next)' = InitialState(kind)
    <2>1. mem[r] # NoRow /\ ProgressOf(mem[r], NoGates) = InitialState(kind)
      BY <1>4, FreshRowType, RowFields, ProgressFresh
    <2> QED
      BY <1>3, <1>5, <1>6, <2>1, ProgressIsNext
  <1> DEFINE gone == {}
  <1>8. \A s \in Sid \ {next} : Progress(s)' = IF s \in gone THEN NoRow ELSE Progress(s)
    BY <1>5, ProgressIs, ProgressIsNext
  <1>9. \A s \in Sid : TurnsIn(message'[s]) = IF s \in gone THEN <<>> ELSE TurnsIn(message[s])
    BY <1>5
  <1>10. gone \in SUBSET Ladder!Live /\ next \notin Ladder!Live
    BY <1>3
  <1> HIDE DEF gone
  <1> QED
    BY <1>3, <1>7, <1>8, <1>9, <1>10, LadderBegins

\* What else a request does the ladder does not see.
LEMMA StuttersSimulated ==
  ASSUME ServiceInv, RankInv, NEW r \in Req, StepOf(r),
         Moves(r) \/ Flushes(r) \/ Conjures(r) \/ Switches(r) \/ Replies(r)
  PROVE  UNCHANGED Ladder!ladderVars
  <1>1. IInv
    BY DEF ServiceInv
  <1>2. CASE Moves(r) \/ Conjures(r)
    <2>1. session' = session /\ gate' = gate /\ message' = message
      BY <1>2 DEF Moves, Conjures, Records
    <2> QED
      BY <2>1, ProgressIs, ProgressIsNext, LadderStutters
  <1>3. CASE Flushes(r)
    <2>1. gate' = gate /\ message' = message
      BY <1>3 DEF Flushes, Records
    <2>2. ASSUME NEW s \in Sid PROVE Progress(s)' = Progress(s)
      <3>1. CASE session'[s] = session[s]
        BY <2>1, <3>1, ProgressIs, ProgressIsNext
      <3>2. CASE /\ session[s] # NoRow /\ session'[s] \in Row
                 /\ \A field \in {"step", "status", "attempts", "hint_level"} : session'[s][field] = session[s][field]
        <4>1. \A gates : ProgressOf(session'[s], gates) = ProgressOf(session[s], gates)
          BY <3>2 DEF ProgressOf, StateOf
        <4>2. session'[s] # NoRow
          BY <3>2, RowFields
        <4> QED
          BY <2>1, <3>2, <4>1, <4>2, ProgressIs, ProgressIsNext
      <3>3. session[s] = NoRow => session'[s] = session[s]
        BY <1>1, <1>3 DEF Flushes, IInv, TypeInv, TypeOK
      <3> QED
        BY <1>1, <1>3, <3>1, <3>2, <3>3, FlushedRow
    <2> QED
      BY <2>1, <2>2, LadderStutters
  <1>4. CASE Replies(r)
    <2>1. session' = session /\ gate' = gate
      BY <1>4 DEF Replies
    <2>2. WellRanked(message[at[r]])
      BY <1>1, <1>4, TrailTypes DEF Replies, Placed, RankInv
    <2>3. \A s \in Sid : TurnsIn(message'[s]) = TurnsIn(message[s])
      BY <1>1, <1>4, <2>2, RepliedTranscript
    <2> QED
      BY <2>1, <2>3, ProgressIs, ProgressIsNext, LadderStutters
  <1>5. CASE Switches(r)
    <2>1. /\ gate' = gate /\ message' = message /\ session[at[r]] # NoRow
          /\ session' = [session EXCEPT ![at[r]] = Switched(@, call[r].byok)]
          /\ session \in [Sid -> Row \cup {NoRow}]
      BY <1>1, <1>5 DEF Switches, Records, IInv, TypeInv, TypeOK
    <2>2. at[r] \in Sid /\ call[r].byok \in BOOLEAN
      BY <1>1, <1>5, CallFields DEF Switches, IInv, TypeInv, ReqInv, Placed
    <2> DEFINE old == session[at[r]]
               new == Switched(session[at[r]], call[r].byok)
    <2>3. old \in Row
      BY <2>1, <2>2
    <2>4. new # NoRow
      BY <2>2, <2>3, OtherColumns, RowFields
    <2>5. /\ new.step = old.step /\ new.attempts = old.attempts
          /\ new.hint_level = old.hint_level /\ new.status = old.status
      BY <2>3 DEF Switched, Row
    <2>6. \A gates : ProgressOf(new, gates) = ProgressOf(old, gates)
      BY <2>5 DEF ProgressOf, StateOf
    <2>7. session'[at[r]] = new /\ \A s \in Sid \ {at[r]} : session'[s] = session[s]
      BY <2>1, <2>2
    <2> HIDE DEF old, new
    <2>8. ASSUME NEW s \in Sid PROVE Progress(s)' = Progress(s)
      BY <2>1, <2>4, <2>6, <2>7, ProgressIs, ProgressIsNext DEF old
    <2> QED
      BY <2>1, <2>8, LadderStutters
  <1> QED
    BY <1>2, <1>3, <1>4, <1>5

LEMMA StepSimulated ==
  ASSUME IsFiniteSet(Req), ServiceInv, RankInv, [Next]_vars
  PROVE  [Ladder!LadderNext]_(Ladder!ladderVars)
  <1>1. CASE Weathers
    <2>1. session' = session /\ gate' = gate /\ message' = message
      BY <1>1 DEF Weathers, Records
    <2> QED
      BY <2>1, ProgressIs, ProgressIsNext, LadderStutters
  <1>2. ASSUME NEW r \in Req, StepOf(r) PROVE [Ladder!LadderNext]_(Ladder!ladderVars)
    BY <1>2, JudgesSimulated, DeletesSimulated, InsertsSimulated, StuttersSimulated DEF StepOf
  <1>3. IInv
    BY DEF ServiceInv
  <1> QED
    BY <1>1, <1>2, <1>3, StepKinds

LEMMA InitSimulated ==
  ASSUME Init
  PROVE  Ladder!LadderInit
  <1>1. PICK seed \in Seeds :
          session = [z \in Sid |-> IF z \in DOMAIN seed
                                   THEN FreshRow(seed[z].problem, seed[z].track, seed[z].byok)
                                   ELSE NoRow]
    BY DEF Init
  <1>2. (\A s \in Sid : gate[s] = NoGates) /\ \A s \in Sid : message[s] = <<>>
    BY DEF Init
  <1>3. ASSUME NEW s \in Sid
        PROVE  Progress(s) \in {Ladder!InitialState(track) : track \in Track} \cup {NoRow}
    <2>1. CASE s \notin DOMAIN seed
      BY <1>1, <2>1, ProgressIs
    <2>2. CASE s \in DOMAIN seed
      <3> DEFINE Begun == [problem : Problem, track : Track, byok : BOOLEAN]
                 row   == FreshRow(seed[s].problem, seed[s].track, seed[s].byok)
      <3>1. seed \in Seq(Begun)
        BY ServiceAssumption
      <3> HIDE DEF Begun
      <3>2. seed[s] \in Begun
        BY <2>2, <3>1
      <3>3. seed[s].problem \in Problem /\ seed[s].track \in Track /\ seed[s].byok \in BOOLEAN
        BY <3>2 DEF Begun
      <3>4. session[s] = row /\ row # NoRow
        BY <1>1, <2>2, <3>3, FreshRowType, RowFields
      <3>5. ProgressOf(row, NoGates) = InitialState(seed[s].track)
        BY <3>3, ProgressFresh
      <3> HIDE DEF row
      <3>6. Progress(s) = InitialState(seed[s].track)
        BY <1>2, <3>4, <3>5, ProgressIs
      <3> QED
        BY <3>3, <3>6, SameFsm
    <2> QED
      BY <2>1, <2>2
  <1>4. \A s \in Sid : TurnsIn(message[s]) = <<>>
    BY <1>2, NoTurns
  <1> QED
    BY <1>3, <1>4 DEF Ladder!LadderInit

\* As long as no version goes back, the service implements the ladder, whatever requests,
\* restarts and purges do: a session progresses by judgements of its current state only, each
\* for an answer it had not judged before.
THEOREM ServiceImplementsLadder ==
  ASSUME IsFiniteSet(Req)
  PROVE  Spec /\ NoVersionReturns => ImplementsLadder
  <1>1. Init => Ladder!LadderInit /\ RankInv
    BY InitSimulated, InitRank
  <1>2. ServiceInv /\ RankInv /\ [Next]_vars => RankInv' /\ [Ladder!LadderNext]_(Ladder!ladderVars)
    BY NextRank, StepSimulated DEF ServiceInv
  <1> QED
    BY <1>1, <1>2, LedgerInvariant, PTL DEF Spec, ImplementsLadder, Ladder!LadderSpec
===============================================================================
