-------------------------- MODULE CoachLadderProofs ---------------------------
(***************************************************************************)
(* The invariants of CoachLadder, proved for every ladder that satisfies   *)
(* LadderAssumption, every set of sessions and every gate: each transition *)
(* and each fresh session is sound (CoachFsmProofs), so every session is.  *)
(* And of Withholding, for all ladders whose first steps are not judged    *)
(* against the solution: a worked solution is shown only to a learner who  *)
(* has been at a step that is, and an answer counts only as judged in the  *)
(* context of its step.  Last, the systems that are checked with them in   *)
(* one run: each behaves as it does alone.                                 *)
(***************************************************************************)
EXTENDS MCCoachLadder, CoachFsmProofs, GroundingProofs

(***************************************************************************)
(* The specification.                                                      *)
(***************************************************************************)

\* A session's progress is in order and has its hints.
Sound(state) == state \in SessionState /\ InOrder(state) /\ HintsGranted(state)

\* The inductive invariant: every session is sound.
LadderInv ==
  /\ judged \in [Sid -> Seq(Turn \cup {NoTurn})]
  /\ progress \in [Sid -> SessionState \cup {NoSession}]
  /\ \A sid \in Live : Sound(progress[sid])

LEMMA LadderInvMeans == LadderInv => LadderTypeOK /\ ClearedInOrder /\ HintsFollowAttempts
  BY DEF LadderInv, LadderTypeOK, ClearedInOrder, HintsFollowAttempts, Sound, InOrder, HintsGranted

LEMMA FreshIsSound == \A track \in Track : Sound(InitialState(track))
  <1> SUFFICES ASSUME NEW track \in Track PROVE Sound(InitialState(track))
    OBVIOUS
  <1> DEFINE state == InitialState(track)
  <1>1. /\ state \in SessionState /\ Cleared(state) = {} /\ state.status = "active"
        /\ state.step = FirstStep(track) /\ state.attempts = 0 /\ state.hint_level = 0
    BY FreshSession
  <1> HIDE DEF state
  <1>2. InOrder(state)
    BY <1>1, FirstStepIsFirst DEF InOrder
  <1>3. HintsGranted(state)
    BY <1>1 DEF HintsGranted, Smaller, MAX_HINT_LEVEL
  <1> QED
    BY <1>1, <1>2, <1>3 DEF Sound, state

LEMMA TransitionIsSound ==
  ASSUME NEW state, NEW verdict \in GateVerdict, Sound(state)
  PROVE  Sound(Transition(state, verdict))
  BY TransitionType, TransitionInOrder, TransitionHints DEF Sound

LEMMA InitIsSound == LadderInit => LadderInv
  BY FreshIsSound DEF LadderInit, LadderInv, Live, Sound

\* A judgement leaves every session sound.
LEMMA JudgeIsSound ==
  ASSUME LadderInv, NEW sid \in Sid, NEW tid \in Turn \cup {NoTurn}, NEW verdict \in Verdicts,
         Judge(sid, tid, verdict)
  PROVE  LadderInv'
  <1>1. PICK state \in IF sid \in Live THEN {progress[sid]}
                                       ELSE {InitialState(track) : track \in Track} :
          /\ progress' = [progress EXCEPT ![sid] = Transition(state, verdict)]
          /\ judged' = [judged EXCEPT ![sid] = Append(@, tid)]
    BY DEF Judge
  <1>2. Sound(state)
    BY <1>1, FreshIsSound DEF LadderInv
  <1>3. Sound(Transition(state, verdict))
    BY <1>2, TransitionIsSound, LadderConstants
  <1> QED
    BY <1>1, <1>3 DEF LadderInv, Live, Sound

\* So does a deletion, with or without a fresh session in its place.
LEMMA ReplaceIsSound ==
  ASSUME LadderInv, NEW gone \in SUBSET Live, NEW fresh \in SUBSET Sid, Replace(gone, fresh)
  PROVE  LadderInv'
  <1>1. PICK track \in [fresh -> Track] :
          progress' = [sid \in Sid |-> IF sid \in fresh THEN InitialState(track[sid])
                                       ELSE IF sid \in gone THEN NoSession
                                       ELSE progress[sid]]
    BY DEF Replace
  <1>2. judged' \in [Sid -> Seq(Turn \cup {NoTurn})]
    BY DEF Replace, LadderInv
  <1>3. ASSUME NEW sid \in Sid PROVE progress'[sid] = NoSession \/ Sound(progress'[sid])
    <2>1. CASE sid \in fresh
      BY <1>1, <2>1, FreshIsSound
    <2>2. CASE sid \notin fresh
      BY <1>1, <2>2 DEF LadderInv, Live
    <2> QED
      BY <2>1, <2>2
  <1> QED
    BY <1>1, <1>2, <1>3 DEF LadderInv, Live, Sound

LEMMA StepIsSound == LadderInv /\ [LadderNext]_ladderVars => LadderInv'
  <1> SUFFICES ASSUME LadderInv, [LadderNext]_ladderVars PROVE LadderInv'
    OBVIOUS
  <1>1. ASSUME NEW sid \in Sid, NEW tid \in Turn \cup {NoTurn}, NEW verdict \in Verdicts,
               Judge(sid, tid, verdict)
        PROVE  LadderInv'
    BY <1>1, JudgeIsSound
  <1>2. ASSUME NEW gone \in SUBSET Live, Replace(gone, {}) PROVE LadderInv'
    BY <1>2, ReplaceIsSound
  <1>3. ASSUME NEW gone \in SUBSET Live, NEW sid \in Sid, Replace(gone, {sid}) PROVE LadderInv'
    BY <1>3, ReplaceIsSound
  <1>4. CASE UNCHANGED ladderVars
    BY <1>4 DEF LadderInv, Live, ladderVars
  <1> QED
    BY <1>1, <1>2, <1>3, <1>4 DEF LadderNext

THEOREM LadderSoundness == LadderSpec => []LadderInv
  <1> QED
    BY InitIsSound, StepIsSound, PTL DEF LadderSpec

\* The variables of the ladder keep their types.
THEOREM LadderTypeCorrect == LadderSpec => []LadderTypeOK
  BY LadderSoundness, LadderInvMeans, PTL

\* No step is skipped and none is cleared without a score, on any ladder.
THEOREM StepsClearedInOrder == LadderSpec => []ClearedInOrder
  BY LadderSoundness, LadderInvMeans, PTL

\* The hint ladder never lags behind the attempts.
THEOREM HintsNeverLag == LadderSpec => []HintsFollowAttempts
  BY LadderSoundness, LadderInvMeans, PTL

\* A session climbs its own ladder one rung at a time, never back.
THEOREM LadderClimbsOnly == LadderSpec => ClimbsOnly
  <1> DEFINE Climbs(old, new) ==
               /\ TrackOf(new.step) = TrackOf(old.step)
               /\ StepIndex(new.step) - StepIndex(old.step) \in {0, 1}
               /\ new.step = old.step /\ new.status = old.status =>
                    new.hint_level >= old.hint_level /\ new.attempts >= old.attempts
               /\ old.status = "completed" => new = old
  <1>1. ASSUME NEW state \in SessionState PROVE Climbs(state, state)
    BY StepIndexOfStep DEF SessionState
  <1>2. ASSUME NEW state \in SessionState, NEW verdict \in Verdicts
        PROVE  Climbs(state, Transition(state, verdict))
    BY TransitionClimbs, LadderConstants
  <1> HIDE DEF Climbs
  <1>3. ASSUME LadderInv, [LadderNext]_ladderVars, NEW sid \in Live, progress'[sid] # NoSession
        PROVE  Climbs(progress[sid], progress'[sid])
    <2>1. progress[sid] \in SessionState /\ sid \in Sid
      BY <1>3 DEF LadderInv, Live, Sound
    <2>2. ASSUME NEW other \in Sid, NEW tid \in Turn \cup {NoTurn}, NEW verdict \in Verdicts,
                 Judge(other, tid, verdict)
          PROVE  Climbs(progress[sid], progress'[sid])
      <3>1. CASE other = sid
        <4>1. progress' = [progress EXCEPT ![sid] = Transition(progress[sid], verdict)]
          BY <2>2, <3>1 DEF Judge
        <4> QED
          BY <1>2, <1>3, <2>1, <4>1 DEF LadderInv
      <3>2. CASE other # sid
        <4>1. progress'[sid] = progress[sid]
          BY <1>3, <2>1, <2>2, <3>2 DEF Judge, LadderInv
        <4> QED
          BY <1>1, <2>1, <4>1
      <3> QED
        BY <3>1, <3>2
    <2>3. ASSUME NEW gone \in SUBSET Live, NEW fresh \in SUBSET Sid, Replace(gone, fresh)
          PROVE  Climbs(progress[sid], progress'[sid])
      <3>1. progress'[sid] = progress[sid]
        BY <1>3, <2>1, <2>3 DEF Replace
      <3> QED
        BY <1>1, <2>1, <3>1
    <2>4. CASE UNCHANGED ladderVars
      BY <1>1, <2>1, <2>4 DEF ladderVars
    <2>5. {} \in SUBSET Sid /\ \A s \in Sid : {s} \in SUBSET Sid
      OBVIOUS
    <2> QED
      BY <1>3, <2>2, <2>3, <2>4, <2>5 DEF LadderNext
  <1>4. LadderInv /\ [LadderNext]_ladderVars =>
          \A sid \in Live : progress'[sid] # NoSession => Climbs(progress[sid], progress'[sid])
    BY <1>3
  <1>5. LadderInv /\ [LadderNext]_ladderVars =>
          [\A sid \in Live :
             progress'[sid] # NoSession =>
               LET old == progress[sid]
                   new == progress'[sid]
               IN  /\ TrackOf(new.step) = TrackOf(old.step)
                   /\ StepIndex(new.step) - StepIndex(old.step) \in {0, 1}
                   /\ new.step = old.step /\ new.status = old.status =>
                        new.hint_level >= old.hint_level /\ new.attempts >= old.attempts
                   /\ old.status = "completed" => new = old]_ladderVars
    BY <1>4 DEF Climbs
  <1> QED
    BY <1>5, LadderSoundness, PTL DEF LadderSpec, ClimbsOnly

-------------------------------------------------------------------------------
(***************************************************************************)
(* The withheld solution.  The lesson in flight outlives what was known    *)
(* when it was fetched; what makes that safe is that it was fetched for a  *)
(* step a session stood on (a bundle), or is shown only at a step a        *)
(* session stands on, or stood on when it was read (a turn).               *)
(***************************************************************************)

(***************************************************************************)
(* Requests that show the lesson are further steps of a CoachLadder, or no *)
(* steps of it at all.                                                     *)
(***************************************************************************)

LEMMA TurnIsJudgedClimbs ==
  ASSUME TurnIsJudged PROVE [LadderNext]_ladderVars
  <1>1. PICK sid \in Lockable, tid \in Turn \cup {NoTurn} :
          \/ \E verdict \in Verdicts : Judge(sid, tid, verdict)
          \/ UNCHANGED ladderVars
    BY DEF TurnIsJudged
  <1>2. sid \in Sid
    BY DEF Lockable, Active, Live
  <1> QED
    BY <1>1, <1>2 DEF LadderNext

LEMMA StepClimbs ==
  ASSUME [WithholdingNext]_withholdingVars PROVE [LadderNext]_ladderVars
  <1>1. CASE UNCHANGED withholdingVars
    BY <1>1 DEF withholdingVars, ladderVars
  <1>2. CASE \E sid \in Sid, step \in Step : TurnReads(sid, step) \/ BundleReads(sid, step)
    BY <1>2 DEF TurnReads, BundleReads, Asks
  <1>3. CASE TurnIsJudged
    BY <1>3, TurnIsJudgedClimbs
  <1>4. CASE TurnIsRefused \/ BundleIsSent
    BY <1>4 DEF TurnIsRefused, BundleIsSent
  <1>5. CASE OthersMove
    BY <1>5 DEF OthersMove
  <1> QED
    BY <1>1, <1>2, <1>3, <1>4, <1>5 DEF WithholdingNext

\* The sessions keep every promise of CoachLadder whatever is put before a model
\* meanwhile (sessions.py:336-464, 517-565).
THEOREM WithholdingClimbs == WithholdingSpec => LadderSpec
  <1>1. WithholdingInit => LadderInit
    BY DEF WithholdingInit
  <1>2. [WithholdingNext]_withholdingVars => [LadderNext]_ladderVars
    BY StepClimbs
  <1> QED
    BY <1>1, <1>2, PTL DEF WithholdingSpec, LadderSpec

(***************************************************************************)
(* The inductive invariant.                                                *)
(***************************************************************************)

\* "reached" knows of the sessions that stand on a solution step.
ReachedKnows ==
  /\ reached \in BOOLEAN
  /\ \A sid \in Sid : progress[sid] # NoSession /\ progress[sid].step \in SolutionSteps => reached

\* A lesson was fetched as its step requires; the step of a bundle, and that of the
\* instance in a turn's memory, was reached; and an instance that is current is the row.
RequestFits ==
  request # NoRequest =>
    /\ request \in InFlight
    /\ request.asked_for = (request.step \in SolutionSteps)
    /\ request.solved => request.asked_for
    /\ request.op = "bundle" /\ request.step \in SolutionSteps => reached
    /\ request.own # NoInstance /\ request.own.step \in SolutionSteps => reached
    /\ request.own # NoInstance => request.own.of \in Live
    /\ request.own # NoInstance /\ request.own.current =>
         progress[request.own.of].step = request.own.step

PromptFits ==
  /\ prompt \in Prompt \cup {NoPrompt}
  /\ SolutionOnlyOnceReached

WithholdingInv == LadderInv /\ ReachedKnows /\ RequestFits /\ PromptFits

LEMMA WithholdingInvMeans ==
  WithholdingInv => WithholdingTypeOK /\ SolutionOnlyOnceReached
  <1> SUFFICES ASSUME WithholdingInv PROVE WithholdingTypeOK
    BY DEF WithholdingInv, PromptFits
  <1>1. LadderTypeOK
    BY LadderInvMeans DEF WithholdingInv
  <1>2. request \in InFlight \cup {NoRequest}
        /\ (request # NoRequest /\ request.solved => request.step \in SolutionSteps)
    BY DEF WithholdingInv, RequestFits
  <1> QED
    BY <1>1, <1>2 DEF WithholdingTypeOK, WithholdingInv, PromptFits, ReachedKnows

LEMMA NoPromptFits ==
  ASSUME prompt' = NoPrompt PROVE PromptFits'
  BY DEF PromptFits, SolutionOnlyOnceReached

LEMMA InitWithholds == WithholdingInit => WithholdingInv
  <1> SUFFICES ASSUME WithholdingInit PROVE WithholdingInv
    OBVIOUS
  <1>1. LadderInv
    BY InitIsSound DEF WithholdingInit
  <1>2. \A sid \in Sid : progress[sid] # NoSession =>
          \E track \in Track : progress[sid] = InitialState(track)
    BY DEF WithholdingInit, LadderInit
  <1>3. \A sid \in Sid : progress[sid] # NoSession => progress[sid].step \notin SolutionSteps
    BY <1>2, FreshSession, WithholdingConstants
  <1>4. ReachedKnows /\ RequestFits
    BY <1>3 DEF WithholdingInit, ReachedKnows, RequestFits
  <1>5. PromptFits
    BY DEF WithholdingInit, PromptFits, SolutionOnlyOnceReached
  <1> QED
    BY <1>1, <1>4, <1>5 DEF WithholdingInv

\* What comes back fits the step it is for.
LEMMA FetchFits ==
  ASSUME WithholdingInv, NEW step \in Step, NEW op \in {"turn", "bundle"},
         NEW own \in Instance \cup {NoInstance}, Asks(op, step, own),
         op = "bundle" /\ step \in SolutionSteps => reached,
         own # NoInstance => own.of \in Live /\ own.step = progress[own.of].step
  PROVE  ReachedKnows' /\ RequestFits' /\ PromptFits'
  <1>1. PICK solved \in Fetched(Include(step)) :
          request' = [op |-> op, step |-> step, asked_for |-> Include(step), solved |-> solved,
                      own |-> own]
    BY DEF Asks
  <1>2. Include(step) = (step \in SolutionSteps) /\ Include(step) \in BOOLEAN
    BY DEF Include, WantsSolution
  <1>3. solved \in BOOLEAN /\ (solved => Include(step))
    BY <1>2 DEF Fetched
  <1>4. request' \in InFlight
    BY <1>1, <1>2, <1>3 DEF InFlight
  <1>5. UNCHANGED <<progress, judged, reached>> /\ Live' = Live /\ prompt' = NoPrompt
    BY DEF Asks, ladderVars, Live
  <1>6. own # NoInstance /\ own.step \in SolutionSteps => reached
    BY DEF WithholdingInv, ReachedKnows, Live
  <1>7. RequestFits'
    BY <1>1, <1>2, <1>3, <1>4, <1>5, <1>6 DEF RequestFits
  <1> QED
    BY <1>5, <1>7, NoPromptFits DEF WithholdingInv, ReachedKnows

\* A live session's step is a step.
LEMMA LiveStep ==
  ASSUME LadderInv, NEW sid \in Live PROVE sid \in Sid /\ progress[sid].step \in Step
  BY DEF LadderInv, Sound, Live, SessionState

LEMMA TurnReadsWithholds ==
  ASSUME WithholdingInv, NEW sid \in Sid, NEW step \in Step, TurnReads(sid, step)
  PROVE  ReachedKnows' /\ RequestFits' /\ PromptFits'
  <1>1. PICK own : own = [of |-> sid, step |-> progress[sid].step, current |-> TRUE]
    OBVIOUS
  <1>2. own \in Instance /\ own.of \in Live /\ own.step = progress[own.of].step
    BY <1>1, LiveStep DEF TurnReads, Instance, WithholdingInv
  <1> QED
    BY <1>1, <1>2, FetchFits DEF TurnReads

LEMMA BundleReadsWithholds ==
  ASSUME WithholdingInv, NEW sid \in Sid, NEW step \in Step, BundleReads(sid, step)
  PROVE  ReachedKnows' /\ RequestFits' /\ PromptFits'
  <1>1. step \in SolutionSteps => reached
    BY DEF BundleReads, WithholdingInv, ReachedKnows, Live
  <1> QED
    BY <1>1, FetchFits DEF BundleReads

\* Reaches keeps "reached" right, whatever the progress is.
LEMMA ReachesKnows ==
  ASSUME ReachedKnows, Reaches PROVE ReachedKnows' /\ (reached => reached')
  BY DEF ReachedKnows, Reaches

\* The step a turn is judged at is one that a session stands on, or stood on, or a first
\* step.
LEMMA FoundStep ==
  ASSUME WithholdingInv, request # NoRequest, NEW sid \in Lockable, request.step = StepFound(sid),
         request.step \in SolutionSteps
  PROVE  reached
  <1>1. sid \in Sid
    BY DEF Lockable, Active, Live
  <1>2. CASE IsOwn(sid)
    BY <1>2 DEF StepFound, IsOwn, WithholdingInv, RequestFits
  <1>3. CASE ~ IsOwn(sid) /\ sid \in Active
    BY <1>1, <1>3 DEF StepFound, Stored, Active, Live, WithholdingInv, ReachedKnows
  <1>4. CASE ~ IsOwn(sid) /\ sid \notin Active
    <2>1. request.step \in Step
      BY DEF WithholdingInv, RequestFits, InFlight
    <2>2. TrackOf(request.step) \in Track
      BY <2>1, TrackOfStep
    <2>3. request.step = FirstStep(TrackOf(request.step))
      BY <1>4, <2>2, FreshSession DEF StepFound, Stored
    <2> QED
      BY <2>2, <2>3, WithholdingConstants
  <1> QED
    BY <1>2, <1>3, <1>4

LEMMA TurnIsJudgedWithholds ==
  ASSUME WithholdingInv, TurnIsJudged
  PROVE  ReachedKnows' /\ RequestFits' /\ PromptFits'
  <1>1. PICK sid \in Lockable :
          /\ request.step = StepFound(sid)
          /\ prompt' = [to |-> "gate", step |-> request.step, asked_for |-> request.asked_for,
                        solution |-> InContext(request.step, request.solved)]
    BY DEF TurnIsJudged
  <1>2. request # NoRequest /\ request \in InFlight /\ request.step \in Step /\ request.asked_for \in BOOLEAN
    BY DEF TurnIsJudged, WithholdingInv, RequestFits, InFlight
  <1>3. /\ InContext(request.step, request.solved) \in BOOLEAN
        /\ InContext(request.step, request.solved) => request.step \in SolutionSteps
    BY <1>2 DEF InContext, WantsSolution, InFlight
  <1>4. ReachedKnows' /\ (reached => reached')
    BY ReachesKnows DEF TurnIsJudged, WithholdingInv
  <1>5. request.step \in SolutionSteps => reached'
    BY <1>1, <1>2, <1>4, FoundStep
  <1>6. prompt' \in Prompt
    BY <1>1, <1>2, <1>3 DEF Prompt
  <1>7. SolutionOnlyOnceReached'
    BY <1>1, <1>3, <1>5 DEF SolutionOnlyOnceReached
  <1>8. RequestFits'
    BY DEF TurnIsJudged, RequestFits
  <1> QED
    BY <1>4, <1>6, <1>7, <1>8 DEF PromptFits

LEMMA BundleIsSentWithholds ==
  ASSUME WithholdingInv, BundleIsSent
  PROVE  ReachedKnows' /\ RequestFits' /\ PromptFits'
  <1>1. /\ request \in InFlight /\ request.op = "bundle"
        /\ request.step \in SolutionSteps => reached
    BY DEF BundleIsSent, WithholdingInv, RequestFits
  <1>2. /\ InContext(request.step, request.solved) \in BOOLEAN
        /\ InContext(request.step, request.solved) => request.step \in SolutionSteps
    BY <1>1 DEF InContext, WantsSolution, InFlight
  <1>3. prompt' = [to |-> "learner", step |-> request.step, asked_for |-> request.asked_for,
                   solution |-> InContext(request.step, request.solved)]
        /\ reached' = reached
    BY DEF BundleIsSent
  <1>4. prompt' \in Prompt
    BY <1>1, <1>2, <1>3 DEF Prompt, InFlight
  <1>5. SolutionOnlyOnceReached'
    BY <1>1, <1>2, <1>3 DEF SolutionOnlyOnceReached
  <1>6. RequestFits' /\ ReachedKnows'
    BY DEF BundleIsSent, RequestFits, WithholdingInv, ReachedKnows, ladderVars
  <1> QED
    BY <1>4, <1>5, <1>6 DEF PromptFits

\* A step of the ladder leaves a row that it did not judge an answer of as it was.
LEMMA UnjudgedStays ==
  ASSUME LadderInv, LadderNext, NEW sid \in Live, progress'[sid] # NoSession, judged'[sid] = judged[sid]
  PROVE  progress'[sid] = progress[sid]
  <1>1. sid \in Sid /\ judged[sid] \in Seq(Turn \cup {NoTurn})
    BY DEF Live, LadderInv
  <1>2. ASSUME NEW other \in Sid, NEW tid \in Turn \cup {NoTurn}, NEW verdict \in Verdicts,
               Judge(other, tid, verdict)
        PROVE  progress'[sid] = progress[sid]
    <2>1. CASE other = sid
      <3>1. judged'[sid] = Append(judged[sid], tid)
        BY <1>1, <1>2, <2>1 DEF Judge, LadderInv
      <3>2. Len(judged'[sid]) = Len(judged[sid]) + 1 /\ Len(judged[sid]) \in Nat
        BY <1>1, <3>1
      <3> QED
        BY <3>2
    <2>2. CASE other # sid
      BY <1>1, <1>2, <2>2 DEF Judge, LadderInv
    <2> QED
      BY <2>1, <2>2
  <1>3. ASSUME NEW gone \in SUBSET Live, NEW fresh \in SUBSET Sid, Replace(gone, fresh)
        PROVE  progress'[sid] = progress[sid]
    BY <1>1, <1>3 DEF Replace
  <1>4. {} \in SUBSET Sid /\ \A s \in Sid : {s} \in SUBSET Sid
    OBVIOUS
  <1> QED
    BY <1>2, <1>3, <1>4 DEF LadderNext

LEMMA OthersMoveWithholds ==
  ASSUME WithholdingInv, OthersMove
  PROVE  ReachedKnows' /\ RequestFits' /\ PromptFits'
  <1>1. ReachedKnows' /\ (reached => reached')
    BY ReachesKnows DEF OthersMove, WithholdingInv
  <1>2. RequestFits'
    <2>1. CASE request = NoRequest \/ request.own = NoInstance
      BY <1>1, <2>1 DEF OthersMove, RowMoves, RequestFits, WithholdingInv
    <2>2. CASE request # NoRequest /\ request.own # NoInstance
      <3> DEFINE sid == request.own.of
      <3>1. /\ sid \in Live /\ request \in InFlight /\ request.own \in Instance
            /\ request.own.current => progress[sid].step = request.own.step
        BY <2>2 DEF WithholdingInv, RequestFits, InFlight
      <3>2. CASE progress'[sid] = NoSession
        <4>1. request' = [request EXCEPT !.own = NoInstance]
          BY <2>2, <3>2 DEF OthersMove, RowMoves
        <4>2. /\ request' \in InFlight /\ request'.own = NoInstance
              /\ request'.op = request.op /\ request'.step = request.step
              /\ request'.asked_for = request.asked_for /\ request'.solved = request.solved
          BY <3>1, <4>1 DEF InFlight
        <4> QED
          BY <1>1, <2>2, <4>2 DEF RequestFits, WithholdingInv
      <3>3. CASE progress'[sid] # NoSession
        <4>1. PICK now \in BOOLEAN : /\ request' = [request EXCEPT !.own = [request.own EXCEPT !.current = now]]
                                     /\ now => request.own.current /\ judged'[sid] = judged[sid]
          BY <2>2, <3>1, <3>3 DEF OthersMove, RowMoves, Instance
        <4>2. PICK own \in Instance : own = [request.own EXCEPT !.current = now]
          BY <3>1 DEF Instance
        <4>3. own.of = sid /\ own.step = request.own.step /\ own.current = now
          BY <3>1, <4>2 DEF Instance
        <4>4. /\ request' \in InFlight /\ request'.own = own
              /\ request'.op = request.op /\ request'.step = request.step
              /\ request'.asked_for = request.asked_for /\ request'.solved = request.solved
          BY <3>1, <4>1, <4>2 DEF InFlight
        <4>5. sid \in Live'
          BY <3>1, <3>3 DEF Live
        <4>6. now => progress'[sid].step = own.step
          BY <3>1, <3>3, <4>1, <4>3, UnjudgedStays DEF OthersMove, WithholdingInv
        <4> QED
          BY <1>1, <2>2, <4>3, <4>4, <4>5, <4>6 DEF RequestFits, WithholdingInv
      <3> QED
        BY <3>2, <3>3
    <2> QED
      BY <2>1, <2>2
  <1> QED
    BY <1>1, <1>2, NoPromptFits DEF OthersMove

LEMMA StepWithholds == WithholdingInv /\ [WithholdingNext]_withholdingVars => WithholdingInv'
  <1> SUFFICES ASSUME WithholdingInv, [WithholdingNext]_withholdingVars PROVE WithholdingInv'
    OBVIOUS
  <1>1. LadderInv'
    BY StepClimbs, StepIsSound DEF WithholdingInv
  <1>2. ReachedKnows' /\ RequestFits' /\ PromptFits'
    <2>1. ASSUME NEW sid \in Sid, NEW step \in Step, TurnReads(sid, step)
          PROVE  ReachedKnows' /\ RequestFits' /\ PromptFits'
      BY <2>1, TurnReadsWithholds
    <2>2. ASSUME NEW sid \in Sid, NEW step \in Step, BundleReads(sid, step)
          PROVE  ReachedKnows' /\ RequestFits' /\ PromptFits'
      BY <2>2, BundleReadsWithholds
    <2>3. CASE TurnIsJudged
      BY <2>3, TurnIsJudgedWithholds
    <2>4. CASE TurnIsRefused
      BY <2>4, NoPromptFits DEF TurnIsRefused, RequestFits, WithholdingInv, ReachedKnows, ladderVars
    <2>5. CASE BundleIsSent
      BY <2>5, BundleIsSentWithholds
    <2>6. CASE OthersMove
      BY <2>6, OthersMoveWithholds
    <2>7. CASE UNCHANGED withholdingVars
      BY <2>7 DEF withholdingVars, WithholdingInv, ReachedKnows, RequestFits, PromptFits, Live,
                  SolutionOnlyOnceReached
    <2> QED
      BY <2>1, <2>2, <2>3, <2>4, <2>5, <2>6, <2>7 DEF WithholdingNext
  <1> QED
    BY <1>1, <1>2 DEF WithholdingInv

\* What is in flight and what was shown fits the steps the sessions have reached.
THEOREM WithholdingInvariant == WithholdingSpec => []WithholdingInv
  BY InitWithholds, StepWithholds, PTL DEF WithholdingSpec

\* The variables keep their types, and a solution in hand was fetched for a solution step.
THEOREM WithholdingTypeCorrect == WithholdingSpec => []WithholdingTypeOK
  BY WithholdingInvariant, WithholdingInvMeans, PTL

\* A worked solution is shown for a problem only once a session of the learner's has
\* been at a step judged against it, whatever the client names, and whatever is reset or
\* advanced while the lesson is fetched (context.py:3-7, sessions.py:534-540).
THEOREM SolutionsAreEarned == WithholdingSpec => []SolutionOnlyOnceReached
  BY WithholdingInvariant, WithholdingInvMeans, PTL

\* An answer counts only as judged in the context of the step the ladder stood on, although
\* the lesson is fetched before the lock and the locked row is read from memory: what the
\* gate was asked about another step is undone (sessions.py:371-387, turn.py:68-175).
THEOREM GateContextsFit == WithholdingSpec => GateContextFitsStep
  <1>1. ASSUME WithholdingInv, [WithholdingNext]_withholdingVars, NEW sid \in Live,
               prompt' # NoPrompt, judged'[sid] # judged[sid]
        PROVE  prompt'.asked_for = (progress[sid].step \in SolutionSteps)
    <2>1. TurnIsJudged
      BY <1>1 DEF WithholdingNext, TurnReads, BundleReads, Asks, TurnIsRefused, BundleIsSent, OthersMove,
                  ladderVars, withholdingVars
    <2>2. PICK other \in Lockable, tid \in Turn \cup {NoTurn}, verdict \in Verdicts :
            /\ request.step = StepFound(other) /\ ~ Outdated(other) /\ Judge(other, tid, verdict)
            /\ prompt' = [to |-> "gate", step |-> request.step, asked_for |-> request.asked_for,
                          solution |-> InContext(request.step, request.solved)]
      BY <1>1, <2>1 DEF TurnIsJudged, ladderVars
    <2>3. other = sid
      BY <1>1, <2>2 DEF Judge, Live, LadderInv, WithholdingInv
    <2>4. sid \in Active
      <3>1. sid \in Lockable /\ sid \in Live
        BY <1>1, <2>2, <2>3
      <3> QED
        BY <3>1 DEF Lockable
    <2>5. StepFound(sid) = progress[sid].step
      <3>1. CASE IsOwn(sid)
        <4>1. request.own # NoInstance /\ request.own.of = sid /\ request.own.current
          BY <2>2, <2>3, <3>1 DEF Outdated, IsOwn
        <4>2. progress[request.own.of].step = request.own.step
          BY <1>1, <2>1, <4>1 DEF TurnIsJudged, WithholdingInv, RequestFits
        <4> QED
          BY <3>1, <4>1, <4>2 DEF StepFound
      <3>2. CASE ~ IsOwn(sid)
        BY <2>4, <3>2 DEF StepFound, Stored
      <3> QED
        BY <3>1, <3>2
    <2>6. request.asked_for = (request.step \in SolutionSteps)
      BY <1>1, <2>1 DEF TurnIsJudged, WithholdingInv, RequestFits
    <2> QED
      BY <2>2, <2>3, <2>5, <2>6
  <1>2. WithholdingInv /\ [WithholdingNext]_withholdingVars =>
          [\A sid \in Live :
             prompt' # NoPrompt /\ judged'[sid] # judged[sid] =>
               prompt'.asked_for = (progress[sid].step \in SolutionSteps)]_withholdingVars
    BY <1>1
  <1> QED
    BY <1>2, WithholdingInvariant, PTL DEF WithholdingSpec, GateContextFitsStep

-------------------------------------------------------------------------------
(***************************************************************************)
(* The parts side by side, as they are checked.                            *)
(***************************************************************************)

\* Each part's behaviours are behaviours of its own specification: nothing another part
\* does changes its state.
THEOREM GatheredPartsApart == GatheredSpec => WithholdingSpec /\ ServerSpec /\ CasesSpec
  <1> DEFINE vars == <<part, withholdingVars, serverVars, caseVars>>
  <1>1. [GatheredNext]_vars => [WithholdingNext]_withholdingVars
    BY DEF GatheredNext
  <1>2. [GatheredNext]_vars => [ServerNext]_serverVars
    BY DEF GatheredNext
  <1>3. [GatheredNext]_vars => [CasesNext]_caseVars
    BY DEF GatheredNext
  <1>4. GatheredInit => WithholdingInit /\ ServerInit /\ CasesInit
    BY DEF GatheredInit
  <1> QED
    BY <1>1, <1>2, <1>3, <1>4, PTL DEF GatheredSpec, WithholdingSpec, ServerSpec, CasesSpec

\* Every variable of the learner's session and of the grounding server has its type, and
\* no answer of the server is longer than its cap.
THEOREM GatheredTypeCorrect == GatheredSpec => []GatheredTypeOK
  BY GatheredPartsApart, WithholdingTypeCorrect, ServerTypeCorrect, PTL DEF GatheredTypeOK
===============================================================================
