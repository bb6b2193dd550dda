----------------------------- MODULE CoachFsmProofs -----------------------------
(***************************************************************************)
(* What the ladders' helpers return (CoachSteps) and what one transition   *)
(* preserves (CoachFsm), for every ladder that satisfies LadderAssumption. *)
(***************************************************************************)
EXTENDS CoachFsm, TLAPS

-------------------------------------------------------------------------------
(***************************************************************************)
(* The ladder.                                                             *)
(***************************************************************************)

\* track_of is defined on every step, and the step stands on the ladder it names.
LEMMA TrackOfStep ==
  ASSUME NEW step \in Step
  PROVE  /\ TrackOf(step) \in Track
         /\ \E i \in Places(TrackOf(step)) : StepsFor(TrackOf(step))[i] = step
  <1>1. \E track \in Track : \E i \in Places(track) : StepsFor(track)[i] = step
    BY LadderAssumption DEF StepsFor
  <1> QED
    BY <1>1 DEF TrackOf

\* step_index is the place of the step, counted from 0.
LEMMA StepIndexOfStep ==
  ASSUME NEW step \in Step
  PROVE  /\ StepIndex(step) \in Nat
         /\ StepIndex(step) + 1 \in Places(TrackOf(step))
         /\ StepsFor(TrackOf(step))[StepIndex(step) + 1] = step
  <1> DEFINE place == CHOOSE i \in Places(TrackOf(step)) : StepsFor(TrackOf(step))[i] = step
  <1>1. place \in Places(TrackOf(step)) /\ StepsFor(TrackOf(step))[place] = step
    BY TrackOfStep
  <1>2. StepIndex(step) = place - 1
    BY DEF StepIndex
  <1>3. Len(STEP_ORDER_BY_TRACK[TrackOf(step)]) \in Nat
    BY TrackOfStep, LadderAssumption
  <1>4. place \in Nat /\ place >= 1
    BY <1>1, <1>3 DEF Places
  <1> HIDE DEF place
  <1> QED
    BY <1>1, <1>2, <1>4

\* What stands on a place is a step of that track with that index.
LEMMA StepOnPlace ==
  ASSUME NEW track \in Track, NEW i \in Places(track)
  PROVE  /\ StepsFor(track)[i] \in Step
         /\ TrackOf(StepsFor(track)[i]) = track
         /\ StepIndex(StepsFor(track)[i]) = i - 1
  <1> DEFINE step == StepsFor(track)[i]
  <1>1. step \in Step
    BY LadderAssumption DEF StepsFor, Places
  <1>2. StepIndex(step) \in Nat /\ StepIndex(step) + 1 \in Places(TrackOf(step))
          /\ StepsFor(TrackOf(step))[StepIndex(step) + 1] = step /\ TrackOf(step) \in Track
    BY <1>1, TrackOfStep, StepIndexOfStep
  <1>3. TrackOf(step) = track /\ StepIndex(step) + 1 = i
    BY <1>2, LadderAssumption DEF StepsFor
  <1>4. i \in Int
    BY LadderAssumption DEF Places
  <1> QED
    BY <1>1, <1>2, <1>3, <1>4

\* A step is known by its track and its index.
LEMMA SamePlaceSameStep ==
  ASSUME NEW s \in Step, NEW t \in Step, TrackOf(s) = TrackOf(t), StepIndex(s) = StepIndex(t)
  PROVE  s = t
  BY StepIndexOfStep

\* next_step stays on the track and goes up by one, or there is nothing above.
LEMMA NextStepClimbs ==
  ASSUME NEW step \in Step
  PROVE  /\ NextStep(step) = NoStep => \A s \in LadderOf(step) : StepIndex(s) <= StepIndex(step)
         /\ NextStep(step) # NoStep => /\ NextStep(step) \in Step
                                       /\ TrackOf(NextStep(step)) = TrackOf(step)
                                       /\ StepIndex(NextStep(step)) = StepIndex(step) + 1
  <1> DEFINE track == TrackOf(step)
             n     == Len(STEP_ORDER_BY_TRACK[track])
             i     == StepIndex(step)
  <1>1. track \in Track /\ n \in Nat /\ i \in Nat /\ i + 1 <= n
    BY TrackOfStep, StepIndexOfStep, LadderAssumption DEF Places
  <1>2. NextStep(step) = IF i + 1 < n THEN StepsFor(track)[i + 2] ELSE NoStep
    BY DEF NextStep, StepsFor
  <1>3. CASE i + 1 < n
    <2>1. i + 2 \in Places(track)
      BY <1>1, <1>3 DEF Places
    <2>2. NextStep(step) \in Step /\ TrackOf(NextStep(step)) = track
            /\ StepIndex(NextStep(step)) = (i + 2) - 1
      BY <1>1, <1>2, <1>3, <2>1, StepOnPlace
    <2> QED
      BY <1>1, <2>2, LadderAssumption
  <1>4. CASE ~ (i + 1 < n)
    <2>1. ASSUME NEW s \in LadderOf(step) PROVE StepIndex(s) <= i
      BY <1>1, <1>4, StepIndexOfStep DEF LadderOf, Places
    <2> QED
      BY <1>2, <1>4, <2>1
  <1> QED
    BY <1>3, <1>4

\* A ladder begins with nothing before it.
LEMMA FirstStepIsFirst ==
  ASSUME NEW track \in Track
  PROVE  /\ FirstStep(track) \in Step
         /\ StepsBefore(FirstStep(track)) = {}
  <1>1. 1 \in Places(track)
    BY LadderAssumption DEF Places
  <1>2. FirstStep(track) \in Step /\ StepIndex(FirstStep(track)) = 0
    BY <1>1, StepOnPlace DEF FirstStep
  <1> QED
    BY <1>2, StepIndexOfStep DEF StepsBefore

\* Clearing a step leaves the learner before the next one, or with the whole ladder.
LEMMA ClearingAStep ==
  ASSUME NEW step \in Step
  PROVE  IF NextStep(step) = NoStep
         THEN LadderOf(step) = StepsBefore(step) \cup {step}
         ELSE StepsBefore(NextStep(step)) = StepsBefore(step) \cup {step}
  <1>1. \A s \in Step : StepIndex(s) \in Nat
    BY StepIndexOfStep
  <1>2. CASE NextStep(step) = NoStep
    <2>1. \A s \in LadderOf(step) : s = step \/ StepIndex(s) < StepIndex(step)
      BY <1>1, <1>2, NextStepClimbs, SamePlaceSameStep DEF LadderOf
    <2> QED
      BY <1>2, <2>1 DEF LadderOf, StepsBefore
  <1>3. CASE NextStep(step) # NoStep
    <2>1. TrackOf(NextStep(step)) = TrackOf(step) /\ StepIndex(NextStep(step)) = StepIndex(step) + 1
      BY <1>3, NextStepClimbs
    <2>2. ASSUME NEW s \in Step, TrackOf(s) = TrackOf(step)
          PROVE  StepIndex(s) < StepIndex(step) + 1 <=> s = step \/ StepIndex(s) < StepIndex(step)
      BY <1>1, <2>2, SamePlaceSameStep
    <2> QED
      BY <1>1, <1>3, <2>1, <2>2 DEF StepsBefore
  <1> QED
    BY <1>2, <1>3

-------------------------------------------------------------------------------
(***************************************************************************)
(* One transition.                                                         *)
(***************************************************************************)

\* Recorded scores are never mistaken for no score.
LEMMA ScoresAreScores == NoScore \notin SCORE_VALUES
  BY DEF NoScore, SCORE_VALUES

\* A fresh session is a session, with nothing cleared and nothing before its step.
LEMMA FreshSession ==
  ASSUME NEW track \in Track
  PROVE  /\ InitialState(track) \in SessionState
         /\ Cleared(InitialState(track)) = {}
         /\ InitialState(track).step = FirstStep(track)
         /\ InitialState(track).status = "active"
         /\ InitialState(track).attempts = 0 /\ InitialState(track).hint_level = 0
  BY FirstStepIsFirst
     DEF InitialState, SessionState, SessionStatus, NoScores, Cleared, MAX_HINT_LEVEL

\* The hint level a retry grants: never less than before, nor than the attempts call
\* for, and never over the top.
LEMMA HintLevels ==
  ASSUME NEW old \in 0 .. MAX_HINT_LEVEL, NEW asked \in 0 .. MAX_HINT_LEVEL, NEW attempts \in Nat
  PROVE  LET granted == Smaller(MAX_HINT_LEVEL, Larger(old, Larger(asked, attempts)))
         IN  /\ granted \in 0 .. MAX_HINT_LEVEL
             /\ granted >= old
             /\ granted >= Smaller(MAX_HINT_LEVEL, attempts)
  BY DEF Smaller, Larger, MAX_HINT_LEVEL

\* What a retry leaves alone and what it changes.
LEMMA RetryFields ==
  ASSUME NEW state \in SessionState, NEW verdict \in GateVerdict
  PROVE  LET new == Retry(state, verdict)
         IN  /\ new \in SessionState
             /\ new.step = state.step /\ new.status = state.status /\ new.scores = state.scores
             /\ new.attempts = state.attempts + 1
             /\ new.hint_level >= state.hint_level
             /\ new.hint_level >= Smaller(MAX_HINT_LEVEL, new.attempts)
  <1> DEFINE n       == state.attempts + 1
             granted == Smaller(MAX_HINT_LEVEL,
                          Larger(state.hint_level, Larger(verdict.next_hint_level, n)))
  <1>1. Retry(state, verdict) = [state EXCEPT !.attempts = n, !.hint_level = granted]
    BY DEF Retry
  <1>2. /\ state.hint_level \in 0 .. MAX_HINT_LEVEL
        /\ verdict.next_hint_level \in 0 .. MAX_HINT_LEVEL
        /\ n \in Nat
    BY DEF SessionState, GateVerdict
  <1> HIDE DEF n
  <1>3. /\ granted \in 0 .. MAX_HINT_LEVEL
        /\ granted >= state.hint_level
        /\ granted >= Smaller(MAX_HINT_LEVEL, n)
    BY <1>2, HintLevels
  <1> HIDE DEF granted
  <1>4. /\ Retry(state, verdict) \in SessionState
        /\ Retry(state, verdict).step = state.step
        /\ Retry(state, verdict).status = state.status
        /\ Retry(state, verdict).scores = state.scores
        /\ Retry(state, verdict).attempts = n
        /\ Retry(state, verdict).hint_level = granted
    BY <1>1, <1>2, <1>3 DEF SessionState
  <1> QED
    BY <1>3, <1>4 DEF n

\* transition is total on sessions and verdicts, and its result is a session.
LEMMA TransitionType ==
  ASSUME NEW state \in SessionState, NEW verdict \in GateVerdict
  PROVE  Transition(state, verdict) \in SessionState
  <1>1. Advance(state, verdict) \in SessionState
    BY NextStepClimbs DEF Advance, SessionState, SessionStatus, GateVerdict, MAX_HINT_LEVEL
  <1>2. Retry(state, verdict) \in SessionState
    BY RetryFields
  <1> QED
    BY <1>1, <1>2 DEF Transition

\* The named parts of the two invariants, for one session.
InOrder(state) ==
  Cleared(state) = IF state.status = "completed" THEN LadderOf(state.step) ELSE StepsBefore(state.step)

HintsGranted(state) ==
  /\ state.hint_level >= Smaller(MAX_HINT_LEVEL, state.attempts)
  /\ state.attempts = 0 => state.hint_level = 0

\* A transition clears the steps in their order.
LEMMA TransitionInOrder ==
  ASSUME NEW state \in SessionState, NEW verdict \in GateVerdict, InOrder(state)
  PROVE  InOrder(Transition(state, verdict))
  <1>1. CASE state.status = "active" /\ verdict.verdict = "pass"
    <2> DEFINE new == Advance(state, verdict)
    <2>1. Transition(state, verdict) = new
      BY <1>1 DEF Transition
    <2>2. Cleared(new) = Cleared(state) \cup {state.step}
      BY ScoresAreScores DEF Advance, Cleared, SessionState, GateVerdict
    <2>3. Cleared(new) = StepsBefore(state.step) \cup {state.step}
      BY <1>1, <2>2 DEF InOrder
    <2>4. new.status = IF NextStep(state.step) = NoStep THEN "completed" ELSE "active"
      BY <1>1 DEF Advance
    <2>5. new.step = IF NextStep(state.step) = NoStep THEN state.step ELSE NextStep(state.step)
      BY DEF Advance
    <2>6. state.step \in Step
      BY DEF SessionState
    <2> QED
      BY <2>1, <2>3, <2>4, <2>5, <2>6, ClearingAStep DEF InOrder
  <1>2. CASE state.status = "active" /\ verdict.verdict = "retry"
    <2>1. Transition(state, verdict) = Retry(state, verdict)
      BY <1>2 DEF Transition
    <2> QED
      BY <2>1, RetryFields DEF InOrder, Cleared
  <1>3. CASE state.status = "completed" \/ verdict.verdict \notin {"pass", "retry"}
    BY <1>3 DEF Transition
  <1> QED
    BY <1>1, <1>2, <1>3 DEF SessionState, SessionStatus

\* A transition grants the hints the attempts call for.
LEMMA TransitionHints ==
  ASSUME NEW state \in SessionState, NEW verdict \in GateVerdict, HintsGranted(state)
  PROVE  HintsGranted(Transition(state, verdict))
  <1>1. HintsGranted(Advance(state, verdict))
    BY DEF HintsGranted, Advance, Smaller, MAX_HINT_LEVEL
  <1>2. HintsGranted(Retry(state, verdict))
    BY RetryFields DEF HintsGranted, SessionState
  <1> QED
    BY <1>1, <1>2 DEF Transition

\* A transition climbs at most one rung of its own ladder, and a completed session
\* stays as it is.
LEMMA TransitionClimbs ==
  ASSUME NEW state \in SessionState, NEW verdict \in GateVerdict
  PROVE  LET new == Transition(state, verdict)
         IN  /\ TrackOf(new.step) = TrackOf(state.step)
             /\ StepIndex(new.step) - StepIndex(state.step) \in {0, 1}
             /\ new.step = state.step /\ new.status = state.status =>
                  new.hint_level >= state.hint_level /\ new.attempts >= state.attempts
             /\ state.status = "completed" => new = state
  <1> DEFINE new == Transition(state, verdict)
  <1>1. state.step \in Step /\ StepIndex(state.step) \in Nat
    BY StepIndexOfStep DEF SessionState
  <1>2. CASE new = Advance(state, verdict) /\ state.status = "active"
    <2>1. CASE NextStep(state.step) = NoStep
      BY <1>1, <1>2, <2>1 DEF Advance
    <2>2. CASE NextStep(state.step) # NoStep
      BY <1>1, <1>2, <2>2, NextStepClimbs DEF Advance
    <2> QED
      BY <2>1, <2>2
  <1>3. CASE new = Retry(state, verdict) /\ state.status = "active"
    BY <1>1, <1>3, RetryFields DEF SessionState
  <1>4. CASE new = state
    BY <1>1, <1>4 DEF SessionState
  <1>5. new = state \/ (state.status = "active" /\ new \in {Advance(state, verdict), Retry(state, verdict)})
    BY DEF Transition, SessionState, SessionStatus
  <1> QED
    BY <1>2, <1>3, <1>4, <1>5
=================================================================================
