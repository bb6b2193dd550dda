------------------------------ MODULE EvalRunner ------------------------------
(***************************************************************************)
(* The gate's regression test, evals/gate_runner.py: a suite of labelled   *)
(* cases (evals/schema.py) is replayed through the production gate, the    *)
(* metrics of the run are compared with a frozen baseline, or frozen as    *)
(* one.  Rates are fractions with the number of replays or of cases below  *)
(* the line.  Replays run concurrently; nothing depends on their order.    *)
(***************************************************************************)
EXTENDS GateRepair, Sequences, FiniteSets

CONSTANTS
  Suites,      \* the case lists the runner is given
  Replays,     \* --replays
  JudgeRaws,   \* what the judge may answer, beside NoAnswer and NotObject
  NoRun,
  NoBaseline

\* Case and Expected: the verdicts a label allows; {} is a case without a label.
EvalCase == [allowed : SUBSET Verdict]

ASSUME RunnerAssumption ==
  /\ Suites \subseteq Seq(EvalCase)
  /\ Replays \in Nat \ {0}
  /\ JudgeRaws \subseteq Raw

VARIABLES
  run,       \* the suite and the raw verdicts so far, in the order of the cases; or NoRun
  baseline,  \* the metrics that the baseline's thresholds were frozen from
  ci         \* what comparing the finished run with it said

runnerVars == <<run, baseline, ci>>

RunnerInit ==
  /\ run = NoRun
  /\ baseline = NoBaseline
  /\ ci = "none"

Total(r) == Len(r.suite) * Replays

Finished(r) == r # NoRun /\ Len(r.raws) = Total(r)

\* The case that a replay is of, and the replays of a case.
CaseOf(r, i) == r.suite[(i - 1) \div Replays + 1]
ReplaysOf(c) == (c - 1) * Replays + 1 .. c * Replays

\* GateEvaluation.outcome
GateOutcome(raw) ==
  IF raw = NoAnswer THEN "failsafe_provider"
  ELSE IF Validates(raw) THEN "valid"
  ELSE IF Validates(Coerce(raw)) THEN "coerced" ELSE "failsafe_schema"

VerdictAt(r, i) == Evaluate(r.raws[i]).verdict

\* failure_shapes without the extra keys.
ShapesOfFields(raw) ==
  IF raw = NoAnswer THEN {"provider_error"}
  ELSE {shape \in {"verdict", "score", "list_field", "hint_level"} :
          \/ shape = "verdict" /\ raw.verdict \notin Verdict
          \/ shape = "score" /\ raw.score \notin SCORE_VALUES \cup {Absent, Null}
          \/ shape = "list_field" /\ raw.lists = "benign"
          \/ shape = "hint_level" /\ raw.next_hint_level \notin 0 .. 3 \cup {Absent, Null}}

\* failure_shapes: how a raw verdict missed the schema.  A null score or hint level, a
\* hint that is no string and what stands in a list go unnamed; of the fields that are
\* malformed, those that are no list at all would be named.
FailureShapes(raw) ==
  IF raw = NoAnswer THEN {"provider_error"}
  ELSE {shape \in {"verdict", "score", "list_field", "hint_level", "extra_keys"} :
          \/ shape = "verdict" /\ raw.verdict \notin Verdict
          \/ shape = "score" /\ raw.score \notin SCORE_VALUES \cup {Absent, Null}
          \/ shape = "list_field" /\ raw.lists = "benign"
          \/ shape = "hint_level" /\ raw.next_hint_level \notin 0 .. 3 \cup {Absent, Null}
          \/ shape = "extra_keys" /\ raw.extra}

Count(r, Test(_)) == Cardinality({i \in DOMAIN r.raws : Test(i)})

Allows(r, i) == VerdictAt(r, i) \in CaseOf(r, i).allowed

FalsePass(r, i) == ~ Allows(r, i) /\ VerdictAt(r, i) = "pass"

\* Counted without the "else" of the verdict that was allowed.
FalseRetryToo(r, i) == CaseOf(r, i).allowed = {"pass"}

FalseRetry(r, i) ==
  ~ Allows(r, i) /\ VerdictAt(r, i) # "pass" /\ CaseOf(r, i).allowed = {"pass"}

\* A case whose replays pass the learner at one time and not at another.
Flipped(r, c) == \E i, j \in ReplaysOf(c) : VerdictAt(r, i) = "pass" /\ VerdictAt(r, j) # "pass"

\* compute_metrics
Metrics(r) ==
  [ok |-> Count(r, LAMBDA i : Allows(r, i)),
   false_pass |-> Count(r, LAMBDA i : FalsePass(r, i)),
   false_retry |-> Count(r, LAMBDA i : FalseRetry(r, i)),
   flips |-> Cardinality({c \in DOMAIN r.suite : Flipped(r, c)}),
   valid |-> Count(r, LAMBDA i : GateOutcome(r.raws[i]) = "valid"),
   total |-> Total(r), cases |-> Len(r.suite)]

\* The metrics that a baseline has thresholds for.
Guarded(m) == [false_pass |-> m.false_pass, flips |-> m.flips, valid |-> m.valid,
               total |-> m.total, cases |-> m.cases]

\* Is a/b over c/d by more than "percent" percent?
Exceeds(a, b, c, d, percent) == 100 * a * d > (100 * c + percent * d) * b

\* Decisions and stability only.
RegressesInDecisions(m, b) ==
  \/ Exceeds(m.false_pass, m.total, b.false_pass, b.total, 2)
  \/ Exceeds(m.flips, m.cases, b.flips, b.cases, 5)

\* compare_baseline, with the margins of BASELINE_MARGINS in the thresholds.
Regresses(m, b) ==
  \/ Exceeds(m.false_pass, m.total, b.false_pass, b.total, 2)
  \/ Exceeds(m.flips, m.cases, b.flips, b.cases, 5)
  \/ Exceeds(b.valid, b.total, m.valid, m.total, 5)

\* main takes a suite, unless a case of it has no label.  One with no case is divided by
\* zero before anything is reported.
StartRun ==
  /\ ~ (run # NoRun /\ ~ Finished(run))
  /\ \E suite \in Suites \ {<<>>} :
       /\ \A c \in DOMAIN suite : suite[c].allowed # {}
       /\ run' = [suite |-> suite, raws |-> <<>>]
  /\ ci' = "none"
  /\ UNCHANGED baseline

\* run_replays, one call of the gate; one that raises ends the whole run.
ReplayCase ==
  /\ run # NoRun /\ ~ Finished(run)
  /\ \E raw \in JudgeRaws \cup {NoAnswer, NotObject} :
       run' = IF Evaluate(raw) = Broken THEN NoRun ELSE [run EXCEPT !.raws = Append(@, raw)]
  /\ UNCHANGED <<baseline, ci>>

\* --write-baseline, which main heeds before --baseline
Freeze ==
  /\ Finished(run) /\ ci = "none"
  /\ baseline' = Guarded(Metrics(run))
  /\ UNCHANGED <<run, ci>>

\* --baseline
Compare ==
  /\ Finished(run) /\ baseline # NoBaseline /\ ci = "none"
  /\ ci' = IF Regresses(Metrics(run), baseline) THEN "regression" ELSE "ok"
  /\ UNCHANGED <<run, baseline>>

RunnerNext == StartRun \/ ReplayCase \/ Freeze \/ Compare

RunnerSpec == RunnerInit /\ [][RunnerNext]_runnerVars

-------------------------------------------------------------------------------
(***************************************************************************)
(* Correctness.                                                            *)
(***************************************************************************)

\* Every variable has its type, and no replay counts twice: it is right, a false pass,
\* a false retry, or none of them.
RunnerTypeOK ==
  /\ run # NoRun =>
       /\ run.suite \in Suites /\ Len(run.raws) <= Total(run)
       /\ \A i \in DOMAIN run.raws : Evaluate(run.raws[i]) \in GateVerdict
  /\ ci \in {"none", "ok", "regression"}
  /\ Finished(run) =>
       LET m == Metrics(run) IN m.ok + m.false_pass + m.false_retry <= m.total /\ m.flips <= m.cases

Compared == Finished(run) /\ ci # "none"

\* A run during an outage never passes for a good one.  The gate fails safe, so such a
\* run has no false pass and no flip and is better than any baseline in two of the three
\* metrics that are compared; the share of valid verdicts gives it away, against every
\* baseline that has more of them than the margin (gate_runner.py:262-269).
OutageIsRegression ==
  Compared /\ (\A i \in DOMAIN run.raws : run.raws[i] = NoAnswer)
    /\ 100 * baseline.valid > 5 * baseline.total => ci = "regression"

\* A run just as good as the baseline passes, as does the one that it was
\* frozen from: the margins are on the right side (gate_runner.py:42, 312-316).
OwnBaselineHolds ==
  Compared /\ Guarded(Metrics(run)) = baseline => ci = "ok"

\* The stability metric is about the learner's fate and not about wording: a suite in
\* which every replay is right, of cases that do not leave open whether to pass, has
\* no flips (gate_runner.py:158-160).
AccurateIsStable ==
  Finished(run) /\ Metrics(run).ok = Total(run)
    /\ (\A c \in DOMAIN run.suite : "pass" \in run.suite[c].allowed => run.suite[c].allowed = {"pass"})
  => Metrics(run).flips = 0

\* The histogram of failure shapes and the schema agree, which are written down apart
\* from each other: a valid verdict has no failure shape, and any other has one, except
\* for a null number, a hint that is no string, and what stands in a list
\* (gate_runner.py:48-67 with gate.py:143-192).
ShapesMatchSchema ==
  run # NoRun => \A i \in DOMAIN run.raws :
    LET raw == run.raws[i] IN
    /\ GateOutcome(raw) = "valid" => FailureShapes(raw) = {}
    /\ GateOutcome(raw) # "valid" =>
         \/ FailureShapes(raw) # {}
         \/ raw.score = Null \/ raw.next_hint_level = Null
         \/ ~ raw.hint_ok \/ raw.lists = "malformed"

\* Comparing with a baseline tells an outage from a good run, and no difference from a
\* regression (gate_runner.py:259-270).
BaselineTells == OutageIsRegression /\ OwnBaselineHolds

\* What the report says of a run is about the learner's fate and about the schema, as
\* these are (gate_runner.py:113-204).
ReportTells == AccurateIsStable /\ ShapesMatchSchema
===============================================================================
