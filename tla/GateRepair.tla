------------------------------ MODULE GateRepair ------------------------------
(***************************************************************************)
(* From what a judge model says to a GateVerdict: evaluate and _coerce of  *)
(* tutor/orchestration/gate.py, for the server's judge, and                *)
(* validate_client_verdict of tutor/orchestration/byok.py, for the verdict *)
(* a browser posts.  A raw verdict is a JSON object that may have anything *)
(* in any field.                                                           *)
(***************************************************************************)
EXTENDS CoachFsm

CONSTANTS
  Absent,     \* the field is missing
  Null,       \* the field is null
  Infinite,   \* NaN or an infinity, which the JSON parser lets through
  Other,      \* a value of another JSON type, or a string no rule knows
  Nested,     \* an array or an object: Python cannot look it up in a set
  NotObject,  \* a raw verdict that is not an object
  NoAnswer,   \* the model call failed: transport, timeout, refusal
  Rejected,   \* the outcome of validate_client_verdict's ValueError: the route answers 422
  Broken      \* the outcome of an exception nothing catches

\* Booleans are among the other values: a boolean score comes out as 0 all the same,
\* a boolean hint level is left out.
Raw == [verdict : Verdict \cup {Absent, Other, Nested},
        score : Int \cup {Absent, Null, Infinite, Other},
        next_hint_level : Int \cup {Absent, Null, Infinite, Other},
        lists : {"strings", "benign", "malformed"},  \* rubric_hits and missing, the worse of the two
        hint_ok : BOOLEAN,                           \* hint is a string or missing
        extra : BOOLEAN]                             \* fields GateVerdict does not have

ASSUME RawAssumption ==
  /\ {Absent, Null, Infinite, Other} \cap Int = {}
  /\ {Absent, Other, Nested} \cap Verdict = {}
  /\ Absent # Null /\ Absent # Infinite /\ Absent # Other
  /\ Null # Infinite /\ Null # Other /\ Infinite # Other
  /\ Absent # Nested /\ Other # Nested
  /\ {NotObject, NoAnswer} \cap Raw = {} /\ NotObject # NoAnswer
  /\ {Rejected, Broken} \cap GateVerdict = {} /\ Rejected # Broken

\* retry_failsafe
FailSafe == [verdict |-> "retry", score |-> 0, next_hint_level |-> 0]

\* What GateVerdict.model_validate takes.
Validates(raw) ==
  /\ raw.verdict \in Verdict
  /\ raw.score \in SCORE_VALUES \cup {Absent}
  /\ raw.next_hint_level \in 0 .. MAX_HINT_LEVEL \cup {Absent}
  /\ raw.lists = "strings" /\ raw.hint_ok /\ ~ raw.extra

\* What it makes of it, with its defaults.
Parsed(raw) ==
  [verdict |-> raw.verdict,
   score |-> IF raw.score = Absent THEN 0 ELSE raw.score,
   next_hint_level |-> IF raw.next_hint_level = Absent THEN 0 ELSE raw.next_hint_level]

Distance(a, b) == IF a < b THEN b - a ELSE a - b

\* min(SCORE_VALUES, key=lambda b: abs(b - score)) on the buckets from the top.
SnapUp(score) ==
  CHOOSE b \in SCORE_VALUES : \A c \in SCORE_VALUES \ {b} :
    Distance(b, score) < Distance(c, score) \/ (Distance(b, score) = Distance(c, score) /\ b > c)

\* min(SCORE_VALUES, key=lambda b: (abs(b - score), b))
Snap(score) ==
  CHOOSE b \in SCORE_VALUES : \A c \in SCORE_VALUES \ {b} :
    Distance(b, score) < Distance(c, score) \/ (Distance(b, score) = Distance(c, score) /\ b < c)

\* The exceptions of _coerce: an unhashable verdict, int() of no finite number.
Unrepairable(raw) == raw.verdict = Nested \/ raw.next_hint_level = Infinite

\* A repair that lets a good score speak for an unknown verdict.
CoerceByScore(raw) ==
  [raw EXCEPT
     !.verdict = IF @ \in Verdict THEN @ ELSE IF raw.score = 100 THEN "pass" ELSE "retry",
     !.score   = IF @ \in Int THEN Snap(@) ELSE IF @ \in {Absent, Null} THEN @ ELSE 0,
     !.next_hint_level = IF @ \in Int THEN Smaller(MAX_HINT_LEVEL, Larger(0, @)) ELSE @,
     !.lists   = IF @ = "benign" THEN "strings" ELSE @]

\* _coerce, where it does not raise.
Coerce(raw) ==
  [raw EXCEPT
     !.verdict = IF @ \in Verdict THEN @ ELSE "retry",
     !.score   = IF @ \in Int THEN Snap(@) ELSE IF @ \in {Absent, Null} THEN @ ELSE 0,
     !.next_hint_level = IF @ \in Int THEN Smaller(MAX_HINT_LEVEL, Larger(0, @)) ELSE @,
     !.lists   = IF @ = "benign" THEN "strings" ELSE @]

\* Validate, repair once, else what "rejected" says.
Judgement(raw, rejected) ==
  IF Validates(raw) THEN Parsed(raw)
  ELSE IF Unrepairable(raw) THEN Broken
  ELSE IF Validates(Coerce(raw)) THEN Parsed(Coerce(raw))
  ELSE rejected

\* evaluate.  (What dict() makes an object of, an empty array or one of pairs, is
\* that object.)
Evaluate(raw) ==
  IF raw = NoAnswer THEN FailSafe
  ELSE IF raw = NotObject THEN Broken
  ELSE Judgement(raw, FailSafe)

\* validate_client_verdict takes the fields it knows, and rejects what it cannot repair.
ValidateClientVerdict(raw) ==
  IF raw = NotObject THEN Rejected
  ELSE Judgement([raw EXCEPT !.extra = FALSE,
                             !.verdict = IF @ = Absent THEN Other ELSE @], Rejected)
===============================================================================
