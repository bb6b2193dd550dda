------------------------------ MODULE CoachSteps ------------------------------
(***************************************************************************)
(* The coaching ladders of tutor/domain/steps.py: every track is an        *)
(* ordered sequence of steps and every step stands on exactly one track,   *)
(* at exactly one place.  The ladder itself is a parameter, so what is     *)
(* proved about it holds for any ladder that satisfies the assumption; the *)
(* ladders the service ships are ProductionOrder.                          *)
(***************************************************************************)
EXTENDS Integers, Sequences

CONSTANTS Track,               \* Track(StrEnum)
          Step,                \* Step(StrEnum)
          STEP_ORDER_BY_TRACK, \* the canonical order of each track's steps
          NoStep               \* next_step's None

\* The places of a track's ladder, counted from 1.
Places(track) == 1 .. Len(STEP_ORDER_BY_TRACK[track])

ASSUME LadderAssumption ==
  /\ STEP_ORDER_BY_TRACK \in [Track -> Seq(Step)]
  /\ \A track \in Track : Len(STEP_ORDER_BY_TRACK[track]) > 0
  /\ \A step \in Step : \E track \in Track : \E i \in Places(track) :
       STEP_ORDER_BY_TRACK[track][i] = step
  /\ \A track, other \in Track : \A i \in Places(track), j \in Places(other) :
       STEP_ORDER_BY_TRACK[track][i] = STEP_ORDER_BY_TRACK[other][j] => track = other /\ i = j
  /\ NoStep \notin Step

(***************************************************************************)
(* The helpers.  track_of resolves a step's ladder from the step alone;    *)
(* StepIndex is 0-based, as in the code.                                   *)
(***************************************************************************)
StepsFor(track) == STEP_ORDER_BY_TRACK[track]

TrackOf(step) ==
  CHOOSE track \in Track : \E i \in Places(track) : StepsFor(track)[i] = step

FirstStep(track) == StepsFor(track)[1]

StepIndex(step) ==
  (CHOOSE i \in Places(TrackOf(step)) : StepsFor(TrackOf(step))[i] = step) - 1

NextStep(step) ==
  LET order == StepsFor(TrackOf(step))
      i     == StepIndex(step)
  IN  IF i + 1 < Len(order) THEN order[i + 2] ELSE NoStep

IsTerminal(step) == step = StepsFor(TrackOf(step))[Len(StepsFor(TrackOf(step)))]

\* The steps a learner has to clear before standing on "step".
StepsBefore(step) ==
  {s \in Step : TrackOf(s) = TrackOf(step) /\ StepIndex(s) < StepIndex(step)}

\* The steps of a step's own ladder.
LadderOf(step) == {s \in Step : TrackOf(s) = TrackOf(step)}

(***************************************************************************)
(* The shipped ladders.                                                    *)
(***************************************************************************)
ProductionOrder ==
  [problem    |-> <<"clarify", "examples", "approach", "plan", "implement", "test">>,
   conceptual |-> <<"explain", "apply", "analyze", "defend">>]

ProductionTracks == DOMAIN ProductionOrder

ProductionSteps ==
  UNION {{ProductionOrder[t][i] : i \in 1 .. Len(ProductionOrder[t])} : t \in ProductionTracks}
===============================================================================
