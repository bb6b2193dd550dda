------------------------------- MODULE EvalCases -------------------------------
(***************************************************************************)
(* Where the cases of the gate's regression test come from:                *)
(* evals/extract.py reads a recorded session into cases, one for each      *)
(* answer; people label them; and from the answers labelled "pass" it      *)
(* makes probes, which put a good answer to the wrong step.  The session   *)
(* is recorded by turns, one at a time (apply_turn holds the row), and by  *)
(* the coach's replies, which are written when their stream ends, and wait *)
(* for the row.                                                            *)
(***************************************************************************)
EXTENDS Integers, FiniteSets, Sequences

CONSTANTS
  LastStep,    \* steps are numbered along the session's ladder
  Text,        \* what a learner may answer
  Window,      \* load_recent_messages' limit
  MaxMessages, \* bound on the messages of the session
  NoTurnYet,
  NoCases

ASSUME CasesAssumption == LastStep \in Nat /\ Window \in Nat \ {0} /\ MaxMessages \in Nat

CaseStep == 1 .. LastStep

VARIABLES
  messages,  \* message rows by seq; an answer with what the gate saw before it, by seq
  turn,      \* the turn that has loaded its transcript, or NoTurnYet
  cases,     \* the labelled dataset, by the seqs of the answers; or NoCases
  probes     \* the probes made from it, by the answer and the step

caseVars == <<messages, turn, cases, probes>>

Message == [role : {"user", "coach"}, step : CaseStep, text : Text, saw : Seq(Nat)]

CasesInit ==
  /\ messages = <<>>
  /\ turn = NoTurnYet
  /\ cases = NoCases
  /\ probes = {}

AnswersOf(log) == {i \in DOMAIN log : log[i].role = "user"}

\* load_recent_messages: the last ones, oldest first.
Recalled ==
  LET from == IF Len(messages) > Window THEN Len(messages) - Window + 1 ELSE 1
  IN  [k \in 1 .. Len(messages) - from + 1 |-> from + k - 1]

\* apply_turn, which holds the row by now, loads the transcript for the gate ...
LoadTranscript(step, text) ==
  /\ cases = NoCases /\ turn = NoTurnYet
  /\ Len(messages) < MaxMessages
  /\ \A i \in AnswersOf(messages) : messages[i].step <= step
  /\ turn' = [step |-> step, text |-> text, saw |-> Recalled]
  /\ UNCHANGED <<messages, cases, probes>>

\* ... and appends the answer, which is committed, and the row let go, with the turn.
AppendAnswer ==
  /\ turn # NoTurnYet
  /\ messages' = Append(messages, [role |-> "user", step |-> turn.step, text |-> turn.text,
                                   saw |-> turn.saw])
  /\ turn' = NoTurnYet
  /\ UNCHANGED <<cases, probes>>

\* A reply that does not wait for the row.
ReplyAnyTime ==
  /\ cases = NoCases
  /\ Len(messages) < MaxMessages
  /\ Cardinality(AnswersOf(messages)) > Len(messages) - Cardinality(AnswersOf(messages))
  /\ \E i \in AnswersOf(messages) :
       messages' = Append(messages, [messages[i] EXCEPT !.role = "coach", !.saw = <<>>])
  /\ UNCHANGED <<turn, cases, probes>>

\* record_coach_reply, of an answer that has none: the foreign key of the reply waits
\* for a turn that holds the row.
AppendReply ==
  /\ turn = NoTurnYet
  /\ cases = NoCases
  /\ Len(messages) < MaxMessages
  /\ Cardinality(AnswersOf(messages)) > Len(messages) - Cardinality(AnswersOf(messages))
  /\ \E i \in AnswersOf(messages) :
       messages' = Append(messages, [messages[i] EXCEPT !.role = "coach", !.saw = <<>>])
  /\ UNCHANGED <<turn, cases, probes>>

\* messages[:i]
Before(i) == [k \in 1 .. i - 1 |-> k]

\* extract_session: the case of an answer; its context is that of its step.
Extracted(i) ==
  [step |-> messages[i].step, answer |-> messages[i].text,
   transcript |-> Before(i), context |-> messages[i].step]

\* The session is extracted, and each case labelled.
ExtractSession ==
  /\ cases = NoCases /\ turn = NoTurnYet /\ messages # <<>>
  /\ \E label \in [AnswersOf(messages) -> {"pass", "other"}] :
       cases' = [i \in AnswersOf(messages) |-> [case |-> Extracted(i), label |-> label[i]]]
  /\ UNCHANGED <<messages, turn, probes>>

Passes == {n \in DOMAIN cases : cases[n].label = "pass"}

\* One donor per step, the first case that passed it.
DonorOf(step) == CHOOSE n \in Passes :
  cases[n].case.step = step /\ \A m \in Passes : cases[m].case.step = step => n <= m

\* An answer that was resubmitted gives one probe for a step.
Wanted(n, step) ==
  /\ step # cases[n].case.step
  /\ \A m \in Passes : m < n /\ cases[m].case.answer = cases[n].case.answer => step = cases[m].case.step

\* The answer's own transcript and context.
ProbeInPlace(n, step) ==
  [cases[n].case EXCEPT !.step = step]

\* The probe of answer n at a step: everything but the answer is the donor's.
Probe(n, step) ==
  [cases[DonorOf(step)].case EXCEPT !.answer = cases[n].case.answer]

\* make_probes; without a passed case it refuses.
MakeProbes ==
  /\ cases # NoCases /\ probes = {} /\ Passes # {}
  /\ LET donated == {cases[n].case.step : n \in Passes}
         wanted  == {p \in Passes \X donated : Wanted(p[1], p[2])}
     IN  probes' = {[of |-> p[1], probe |-> Probe(p[1], p[2])] : p \in wanted}
  /\ UNCHANGED <<messages, turn, cases>>

\* Another session, another dataset.
NextSession ==
  /\ cases # NoCases
  /\ messages' = <<>> /\ cases' = NoCases /\ probes' = {}
  /\ UNCHANGED turn

CasesNext ==
  \/ \E step \in CaseStep, text \in Text : LoadTranscript(step, text)
  \/ AppendAnswer \/ AppendReply \/ ExtractSession \/ MakeProbes \/ NextSession

CasesSpec == CasesInit /\ [][CasesNext]_caseVars

-------------------------------------------------------------------------------
(***************************************************************************)
(* Correctness.                                                            *)
(***************************************************************************)

\* An extracted transcript holds all that the gate saw before the answer, in the order
\* it saw it, and beside it only what is older than the gate's window: no reply that
\* came while the gate was asked (extract.py:3-5, 69-80).
TranscriptCoversSeen ==
  cases # NoCases =>
    \A i \in DOMAIN cases :
      LET heard == cases[i].case.transcript
          saw   == messages[i].saw
      IN  /\ \A m \in DOMAIN saw : \E k \in DOMAIN heard : heard[k] = saw[m]
          /\ \A k, l \in DOMAIN heard : \A m, n \in DOMAIN saw :
               heard[k] = saw[m] /\ heard[l] = saw[n] => (k < l <=> m < n)
          /\ \A k \in DOMAIN heard : (\A m \in DOMAIN saw : saw[m] # heard[k]) =>
               Len(saw) = Window /\ heard[k] < saw[1]

\* A probe puts an answer that passed elsewhere before the gate exactly as the gate met
\* the probed step: with the transcript and the context of a case that passed it, so
\* what is withheld at that step is withheld from the probe (extract.py:12-15, 98-100).
ProbesFitTheirStep ==
  \A made \in probes :
    LET probe  == made.probe
        answer == cases[made.of].case
    IN  /\ probe.step # answer.step /\ probe.answer = answer.answer
        /\ probe.context = probe.step
        /\ \E n \in Passes : cases[n].case.step = probe.step /\ cases[n].case.transcript = probe.transcript

\* Each answer is probed once at every other step that some case passed, however often
\* it was submitted: a probe that counted twice would weigh double in the rates
\* (extract.py:102-108).
ProbedOnce ==
  probes # {} =>
    /\ \A made, again \in probes :
         made.probe.answer = again.probe.answer /\ made.probe.step = again.probe.step => made = again
    /\ \A n, m \in Passes : cases[n].case.step # cases[m].case.step =>
         \E made \in probes : made.probe.answer = cases[n].case.answer
                               /\ made.probe.step = cases[m].case.step

\* A set of probes measures what it is for: a good answer to the wrong step, once.
ProbesAreFair == ProbesFitTheirStep /\ ProbedOnce
===============================================================================
