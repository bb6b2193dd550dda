------------------------------- MODULE CoachFsm -------------------------------
(***************************************************************************)
(* The coaching state machine of tutor/domain/fsm.py: a pure, total        *)
(* function from a session's progress and a gate verdict                   *)
(* (tutor/domain/verdict.py) to the next progress.                         *)
(***************************************************************************)
EXTENDS CoachSteps

MAX_HINT_LEVEL == 3

SCORE_VALUES == {10 * k : k \in 0 .. 10}

Verdict == {"pass", "retry", "off_topic", "question"}

\* The fields of GateVerdict the state machine reads; rubric_hits, missing and
\* hint are text it never looks at.
GateVerdict == [verdict : Verdict, score : SCORE_VALUES, next_hint_level : 0 .. MAX_HINT_LEVEL]

SessionStatus == {"active", "completed"}

\* A step without a key in the scores dict.
NoScore == -1

SessionState == [step       : Step,
                 attempts   : Nat,
                 hint_level : 0 .. MAX_HINT_LEVEL,
                 status     : SessionStatus,
                 scores     : [Step -> SCORE_VALUES \cup {NoScore}]]

NoScores == [step \in Step |-> NoScore]

\* The steps with a recorded passing score.
Cleared(state) == {step \in Step : state.scores[step] # NoScore}

\* The state a fresh session of a track starts in.
InitialState(track) ==
  [step |-> FirstStep(track), attempts |-> 0, hint_level |-> 0,
   status |-> "active", scores |-> NoScores]

Larger(a, b) == IF a < b THEN b ELSE a
Smaller(a, b) == IF a < b THEN a ELSE b

\* Faulty ways to advance: off the end of the ladder; scoring the step arrived at;
\* taking the attempts along.
AdvanceOffLadder(state, verdict) ==
  [InitialState(TrackOf(state.step)) EXCEPT
     !.step   = NextStep(state.step),
     !.scores = [state.scores EXCEPT ![state.step] = verdict.score]]

AdvanceThenScore(state, verdict) ==
  LET next == IF NextStep(state.step) = NoStep THEN state.step ELSE NextStep(state.step)
  IN  [state EXCEPT !.step = next, !.attempts = 0, !.hint_level = 0, !.scores[next] = verdict.score,
                    !.status = IF next = state.step THEN "completed" ELSE @]

AdvanceTired(state, verdict) ==
  LET next == NextStep(state.step)
  IN  [state EXCEPT !.step = IF next = NoStep THEN @ ELSE next, !.hint_level = 0,
                    !.scores[state.step] = verdict.score,
                    !.status = IF next = NoStep THEN "completed" ELSE @]

\* PASS: record the score, move to the next step or complete.
Advance(state, verdict) ==
  LET next == NextStep(state.step)
  IN  [step       |-> IF next = NoStep THEN state.step ELSE next,
       attempts   |-> 0,
       hint_level |-> 0,
       status     |-> IF next = NoStep THEN "completed" ELSE state.status,
       scores     |-> [state.scores EXCEPT ![state.step] = verdict.score]]

\* Faulty ways to retry: hints by the verdict alone; hints that forget what was granted.
RetryOnWord(state, verdict) ==
  [state EXCEPT !.attempts = @ + 1, !.hint_level = Larger(@, verdict.next_hint_level)]

RetryForgets(state, verdict) ==
  [state EXCEPT !.attempts = @ + 1,
                !.hint_level = Smaller(MAX_HINT_LEVEL,
                                 Larger(verdict.next_hint_level, state.attempts + 1))]

\* RETRY: consume an attempt and climb the hint ladder, which tops out.
Retry(state, verdict) ==
  LET attempts == state.attempts + 1
  IN  [state EXCEPT
        !.attempts   = attempts,
        !.hint_level = Smaller(MAX_HINT_LEVEL,
                         Larger(state.hint_level, Larger(verdict.next_hint_level, attempts)))]

\* transition(state, verdict).state
Transition(state, verdict) ==
  IF state.status = "completed"        THEN state
  ELSE IF verdict.verdict = "pass"     THEN Advance(state, verdict)
  ELSE IF verdict.verdict = "retry"    THEN Retry(state, verdict)
  ELSE state
===============================================================================
