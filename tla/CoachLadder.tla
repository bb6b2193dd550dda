------------------------------ MODULE CoachLadder ------------------------------
(***************************************************************************)
(* What the turn service promises of its sessions, with no requests, no    *)
(* locks and no database: a session's progress begins on the first step of *)
(* a ladder, and every change to it is the transition of its CURRENT       *)
(* progress by one verdict, for an answer that was not judged before.      *)
(* Sessions disappear (reset, clear-all, purge), a reset putting a fresh   *)
(* one in their place in the same step.  TurnService implements this.      *)
(***************************************************************************)
EXTENDS CoachFsm

CONSTANTS Sid,        \* session ids
          Turn,       \* the client's idempotency keys (turnId)
          NoTurn,     \* an answer sent without one
          NoSession,  \* the progress of an id that names no session
          Verdicts,   \* the verdicts the gate gives
          MaxAnswers  \* bound on the answers judged in one session

ASSUME LadderConstants ==
  /\ Verdicts \subseteq GateVerdict
  /\ NoSession \notin SessionState
  /\ NoTurn \notin Turn
  /\ MaxAnswers \in Nat

VARIABLES progress,   \* progress[sid]: the SessionState of sid
          judged      \* judged[sid]: the answers of sid that were judged, in order, by their turns

ladderVars == <<progress, judged>>

LadderTypeOK ==
  /\ progress \in [Sid -> SessionState \cup {NoSession}]
  /\ judged \in [Sid -> Seq(Turn \cup {NoTurn})]

Live == {sid \in Sid : progress[sid] # NoSession}

LadderInit ==
  /\ progress \in [Sid -> {InitialState(track) : track \in Track} \cup {NoSession}]
  /\ judged = [sid \in Sid |-> <<>>]

\* The answer "turn" to the current step of sid is judged.  A session that does
\* not exist yet is begun by the same commit (the lazy create of apply_turn).
Judge(sid, turn, verdict) ==
  \E state \in IF sid \in Live THEN {progress[sid]}
                               ELSE {InitialState(track) : track \in Track} :
    /\ state.status = "active"
    /\ turn = NoTurn \/ \A i \in DOMAIN judged[sid] : judged[sid][i] # turn
    /\ Len(judged[sid]) < MaxAnswers
    /\ progress' = [progress EXCEPT ![sid] = Transition(state, verdict)]
    /\ judged' = [judged EXCEPT ![sid] = Append(@, turn)]

\* A set of sessions goes, and fresh ones may begin in the same step.
Replace(gone, fresh) ==
  /\ fresh \cap Live = {}
  /\ \E track \in [fresh -> Track] :
       progress' = [sid \in Sid |-> IF sid \in fresh THEN InitialState(track[sid])
                                    ELSE IF sid \in gone THEN NoSession
                                    ELSE progress[sid]]
  /\ judged' = [sid \in Sid |-> IF sid \in gone THEN <<>> ELSE judged[sid]]

LadderNext ==
  \/ \E sid \in Sid, turn \in Turn \cup {NoTurn}, verdict \in Verdicts : Judge(sid, turn, verdict)
  \/ \E gone \in SUBSET Live : Replace(gone, {})
  \/ \E gone \in SUBSET Live, sid \in Sid : Replace(gone, {sid})

LadderSpec == LadderInit /\ [][LadderNext]_ladderVars

-------------------------------------------------------------------------------
(***************************************************************************)
(* Correctness.                                                            *)
(***************************************************************************)

\* The steps with a recorded passing score are exactly those before the current
\* step, and the whole ladder once completed: no step is skipped, and none is
\* cleared without a score (the invariants fsm.py:8-12 lists).
ClearedInOrder ==
  \A sid \in Live :
    LET state == progress[sid]
    IN  Cleared(state) = IF state.status = "completed" THEN LadderOf(state.step)
                                                      ELSE StepsBefore(state.step)

\* The hint ladder never lags behind the attempts: n attempts at a step grant at
\* least hint level n (up to the top), and a learner who has not failed the step
\* has been given no hint (fsm.py:76-84).
HintsFollowAttempts ==
  \A sid \in Live :
    /\ progress[sid].hint_level >= Smaller(MAX_HINT_LEVEL, progress[sid].attempts)
    /\ progress[sid].attempts = 0 => progress[sid].hint_level = 0

\* Within the life of a session the ladder is climbed one rung at a time and
\* never descended: it stays on its track, the step index grows by at most one,
\* at one step the hints and the attempts never go back, and nothing moves once
\* it is completed (fsm.py:56-74).
ClimbsOnly ==
  [][\A sid \in Live :
       progress'[sid] # NoSession =>
         LET old == progress[sid]
             new == progress'[sid]
         IN  /\ TrackOf(new.step) = TrackOf(old.step)
             /\ StepIndex(new.step) - StepIndex(old.step) \in {0, 1}
             /\ new.step = old.step /\ new.status = old.status =>
                  new.hint_level >= old.hint_level /\ new.attempts >= old.attempts
             /\ old.status = "completed" => new = old]_ladderVars
================================================================================
