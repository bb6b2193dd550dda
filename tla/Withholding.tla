------------------------------ MODULE Withholding ------------------------------
(***************************************************************************)
(* When a lesson's worked solution may enter a prompt.  Two requests put   *)
(* the lesson in front of a model: a turn (tutor/routes/sessions.py and    *)
(* apply_turn), in front of the gate, and a prompt bundle, in front of the *)
(* learner's own.  Both read the session first and fetch the lesson from   *)
(* the grounding server afterwards, while anything may happen to the       *)
(* session: everything that the other requests do is a step of the         *)
(* CoachLadder.  Its sessions are here those of one learner on one problem.*)
(* apply_turn locks the row but is handed the instance that the request    *)
(* read, if it is of that row, so the gate may be asked about a step that  *)
(* is over; the version guard, which is taken to be sound here (where it   *)
(* is not, TurnService tells), then undoes the turn.                       *)
(***************************************************************************)
EXTENDS CoachLadder

CONSTANTS SolutionSteps,  \* _SOLUTION_STEPS
          NoRequest,
          NoInstance,     \* a bundle's; a turn's whose session is gone
          NoPrompt

\* The session in the memory of a turn: its step when it was read, and whether its
\* version is still that of the row.
Instance == [of : Sid, step : Step, current : BOOLEAN]

InFlight == [op : {"turn", "bundle"}, step : Step,
             asked_for : BOOLEAN,   \* get_lesson's include_solution
             solved : BOOLEAN,      \* did it come back with the worked solution?
             own : Instance \cup {NoInstance}]

Prompt == [to : {"gate", "learner"}, step : Step, asked_for : BOOLEAN, solution : BOOLEAN]

ASSUME WithholdingConstants ==
  /\ SolutionSteps \subseteq Step
  /\ \A track \in Track : FirstStep(track) \notin SolutionSteps
  /\ NoRequest \notin InFlight /\ NoPrompt \notin Prompt /\ NoInstance \notin Instance

VARIABLES request,  \* the request in flight that has read its session and has its lesson
          prompt,   \* the prompt that was put together last, until something else happens
          reached   \* has one of the sessions been at a solution step by now?

withholdingVars == <<progress, judged, request, prompt, reached>>

WithholdingInit ==
  /\ LadderInit
  /\ request = NoRequest
  /\ prompt = NoPrompt
  /\ reached = FALSE

\* Kept up to date by every step, from the progress it leaves behind.
Reaches ==
  reached' = (reached \/ \E sid \in Sid : progress'[sid] # NoSession
                                          /\ progress'[sid].step \in SolutionSteps)

WantsSolution(step) == step \in SolutionSteps

\* get_lesson(..., include_solution=wants_solution(step)), of the step that was submitted.
Include(step) == WantsSolution(step)

\* GroundingClient.get_lesson: the solution only on request, and where the lesson has
\* one; an outage, a timeout, an error and an unknown lesson all degrade to no lesson.
Fetched(include) == {FALSE, include}

\* build_problem_context: a returned solution, and only where the step allows it.
InContext(step, solved) == WantsSolution(step) /\ solved

\* A request that has read a session fetches the lesson for a step.
Asks(op, step, own) ==
  /\ request = NoRequest
  /\ \E solved \in Fetched(Include(step)) :
       request' = [op |-> op, step |-> step, asked_for |-> Include(step), solved |-> solved,
                   own |-> own]
  /\ prompt' = NoPrompt
  /\ UNCHANGED <<ladderVars, reached>>

\* post_turn reads the session by its id, active or not, and keeps its transaction.
TurnReads(sid, step) ==
  /\ sid \in Live
  /\ Asks("turn", step, [of |-> sid, step |-> progress[sid].step, current |-> TRUE])

Active == {sid \in Live : progress[sid].status = "active"}

\* The session that apply_turn locks is the active one, if there is one; else it begins
\* one on the track of the step.
Lockable == IF Active # {} THEN Active ELSE Sid \ Live

\* It is the session that was read: the locked SELECT is answered with the instance in
\* memory, as it was then.
IsOwn(sid) == request.own # NoInstance /\ request.own.of = sid

\* The progress of the locked session, or of the one begun.
Stored(sid) == IF sid \in Active THEN progress[sid] ELSE InitialState(TrackOf(request.step))

\* The step apply_turn takes the locked session to be at.
StepFound(sid) == IF IsOwn(sid) THEN request.own.step ELSE Stored(sid).step

\* A save_state that compares no versions.
NeverOutdated(sid) == FALSE

\* save_state refuses: an answer was judged since the session was read.
Outdated(sid) == IsOwn(sid) /\ ~ request.own.current

Replayed(sid, turn) == turn # NoTurn /\ \E i \in DOMAIN judged[sid] : judged[sid][i] = turn

\* apply_turn puts the lesson before the gate; its verdict moves the ladder, unless the
\* version guard, the gate's exception or a concurrent commit rolls all of it back.
TurnIsJudged ==
  /\ request # NoRequest /\ request.op = "turn"
  /\ \E sid \in Lockable, turn \in Turn \cup {NoTurn} :
       /\ ~ Replayed(sid, turn)
       /\ request.step = StepFound(sid)
       /\ prompt' = [to |-> "gate", step |-> request.step, asked_for |-> request.asked_for,
                     solution |-> InContext(request.step, request.solved)]
       /\ \/ /\ ~ Outdated(sid)
             /\ \E verdict \in Verdicts :
                  /\ Judge(sid, turn, verdict)
                  /\ progress'[sid] = Transition(Stored(sid), verdict)
          \/ UNCHANGED ladderVars
  /\ request' = NoRequest
  /\ Reaches

\* Already recorded, or not the session's step: nothing is shown to anyone.
TurnIsRefused ==
  /\ request # NoRequest /\ request.op = "turn"
  /\ \E sid \in Lockable :
       \/ \E turn \in Turn : Replayed(sid, turn)
       \/ request.step # StepFound(sid)
  /\ request' = NoRequest
  /\ prompt' = NoPrompt
  /\ UNCHANGED <<ladderVars, reached>>

\* get_prompt_bundle, for the step the client says.
BundleReadsAsTold(sid, step) ==
  sid \in Live /\ progress[sid].status = "active" /\ Asks("bundle", step, NoInstance)

\* get_prompt_bundle reads the session, clamps the step to it, and fetches the lesson.
BundleReads(sid, step) ==
  /\ sid \in Live /\ progress[sid].status = "active"
  /\ step = progress[sid].step
  /\ Asks("bundle", step, NoInstance)

\* ... and hands the prompt over, whatever has become of the session.
BundleIsSent ==
  /\ request # NoRequest /\ request.op = "bundle"
  /\ prompt' = [to |-> "learner", step |-> request.step,
                asked_for |-> request.asked_for,
                solution |-> InContext(request.step, request.solved)]
  /\ request' = NoRequest
  /\ UNCHANGED <<ladderVars, reached>>

\* The row of the instance in memory may go, or be written, while the request is in
\* flight; a session begun later is another one.
RowMoves ==
  request' =
    IF request = NoRequest \/ request.own = NoInstance THEN request
    ELSE IF progress'[request.own.of] = NoSession THEN [request EXCEPT !.own = NoInstance]
    ELSE [request EXCEPT !.own.current = @ /\ judged'[request.own.of] = judged[request.own.of]]

\* What other requests do: turns on either path, resets, clear-all, the purge.
OthersMove ==
  /\ LadderNext
  /\ Reaches
  /\ RowMoves
  /\ prompt' = NoPrompt

WithholdingNext ==
  \/ \E sid \in Sid, step \in Step :
       TurnReads(sid, step) \/ BundleReads(sid, step)
  \/ TurnIsJudged \/ TurnIsRefused \/ BundleIsSent \/ OthersMove

WithholdingSpec == WithholdingInit /\ [][WithholdingNext]_withholdingVars

-------------------------------------------------------------------------------
(***************************************************************************)
(* Correctness.                                                            *)
(***************************************************************************)

\* Every variable has its type; a solution in hand was fetched for a solution step.
WithholdingTypeOK ==
  /\ LadderTypeOK
  /\ request \in InFlight \cup {NoRequest}
  /\ request # NoRequest /\ request.solved => request.step \in SolutionSteps
  /\ prompt \in Prompt \cup {NoPrompt}
  /\ reached \in BOOLEAN

\* A worked solution is put before a model, the gate's or the learner's, only for a
\* problem on which a session of the learner's has been at implement or test by then,
\* whatever step the client names, and whatever is reset or advanced between the moment
\* the session is read and the moment the prompt is put together (context.py:3-7,
\* sessions.py:534-540).
SolutionOnlyOnceReached ==
  prompt # NoPrompt /\ prompt.solution => reached

\* An answer counts only as judged in the context of the step that the ladder stood on:
\* whatever the gate was shown -- for the step the client submitted, before the lock, and
\* under it for the step of an instance as old as that -- the answer is recorded only if
\* the solution was asked for exactly when the session's step, as stored at that moment,
\* is judged against it (sessions.py:381-387 with turn.py:68, 92-101 and 163-175).
GateContextFitsStep ==
  [][\A sid \in Live :
       prompt' # NoPrompt /\ judged'[sid] # judged[sid] =>
         prompt'.asked_for = (progress[sid].step \in SolutionSteps)]_withholdingVars
================================================================================
