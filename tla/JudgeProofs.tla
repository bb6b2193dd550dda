------------------------------ MODULE JudgeProofs ------------------------------
(***************************************************************************)
(* What is made of a judge's word, and what a judge is tested with.  For   *)
(* every catalog, every sequence of deployments and every raw verdict, a   *)
(* session's transport follows its model's provider, so the coach never    *)
(* spends the server's key and a bundle names a model that can be called,  *)
(* and no repair grants a pass or a better score.  The regression test of  *)
(* the gate tells an outage from a good run and accurate from unstable,    *)
(* for every suite, every number of replays and every judge; and the cases *)
(* and probes it is fed mean what they are for, for every session.         *)
(***************************************************************************)
EXTENDS MCTurnPolicy, EvalCases, TLAPS, FiniteSetTheorems, WellFoundedInduction

(***************************************************************************)
(* Policy and repair.                                                      *)
(***************************************************************************)


\* A verdict that validates is a GateVerdict with the judge's word.
LEMMA ParsedVerdict ==
  ASSUME NEW raw, Validates(raw)
  PROVE  Parsed(raw) \in GateVerdict /\ Parsed(raw).verdict = raw.verdict
BY DEF Validates, Parsed, GateVerdict, SCORE_VALUES, MAX_HINT_LEVEL

LEMMA FailSafeVerdict ==
  FailSafe \in GateVerdict /\ FailSafe.verdict = "retry" /\ FailSafe.score = 0
<1>1. 0 \in SCORE_VALUES
  BY DEF SCORE_VALUES
<1> QED
  BY <1>1 DEF FailSafe, GateVerdict, Verdict, MAX_HINT_LEVEL

\* The repair changes a word it does not know, and to "retry".
LEMMA CoercedWord ==
  ASSUME NEW raw \in Raw, Coerce(raw).verdict = "pass"
  PROVE  raw.verdict = "pass"
BY DEF Coerce, Raw

\* What the pipeline comes to: a verdict, the word of which was not made a pass.
LEMMA JudgementVerdict ==
  ASSUME NEW raw \in Raw, NEW rejected
  PROVE  /\ Judgement(raw, rejected) \in GateVerdict \cup {Broken, rejected}
         /\ Judgement(raw, rejected) \notin {Broken, rejected} =>
              (Judgement(raw, rejected).verdict = "pass" => raw.verdict = "pass")
<1>1. CASE Validates(raw)
  <2>1. Judgement(raw, rejected) = Parsed(raw)
    BY <1>1 DEF Judgement
  <2> QED
    BY <1>1, <2>1, ParsedVerdict
<1>2. CASE ~ Validates(raw) /\ ~ Unrepairable(raw) /\ Validates(Coerce(raw))
  <2>1. Judgement(raw, rejected) = Parsed(Coerce(raw))
    BY <1>2 DEF Judgement
  <2> QED
    BY <1>2, <2>1, ParsedVerdict, CoercedWord
<1>3. CASE ~ Validates(raw) /\ (Unrepairable(raw) \/ ~ Validates(Coerce(raw)))
  BY <1>3 DEF Judgement
<1> QED
  BY <1>1, <1>2, <1>3

LEMMA EvaluateVerdict ==
  ASSUME NEW raw \in Raw \cup {NotObject, NoAnswer}
  PROVE  /\ Evaluate(raw) \in GateVerdict \cup {Broken}
         /\ Evaluate(raw) # Broken /\ Evaluate(raw).verdict = "pass" =>
              raw \notin {NotObject, NoAnswer} /\ raw.verdict = "pass"
<1> USE RawAssumption, PolicyAssumption, FailSafeVerdict
<1>1. CASE raw = NoAnswer
  BY <1>1 DEF Evaluate
<1>2. CASE raw = NotObject
  BY <1>2 DEF Evaluate
<1>3. CASE raw \notin {NotObject, NoAnswer}
  <2>1. raw \in Raw
    BY <1>3
  <2>2. Evaluate(raw) = Judgement(raw, FailSafe)
    BY <1>3 DEF Evaluate
  <2> QED
    BY <1>3, <2>1, <2>2, JudgementVerdict
<1> QED
  BY <1>1, <1>2, <1>3

LEMMA ClientVerdict ==
  ASSUME NEW raw \in RawVerdicts \cup {NotObject}, ValidateClientVerdict(raw) # Rejected
  PROVE  /\ ValidateClientVerdict(raw) \in GateVerdict \cup {Broken}
         /\ ValidateClientVerdict(raw) # Broken /\ ValidateClientVerdict(raw).verdict = "pass" =>
              raw \notin {NotObject, NoAnswer} /\ raw.verdict = "pass"
<1> USE RawAssumption, PolicyAssumption
<1> DEFINE known == [raw EXCEPT !.extra = FALSE, !.verdict = IF @ = Absent THEN Other ELSE @]
<1>1. raw # NotObject /\ raw \in Raw /\ raw # NoAnswer
  BY DEF ValidateClientVerdict
<1>2. ValidateClientVerdict(raw) = Judgement(known, Rejected)
  BY <1>1 DEF ValidateClientVerdict
<1>3. known \in Raw /\ (known.verdict = "pass" => raw.verdict = "pass")
  BY <1>1 DEF Raw, Verdict
<1> HIDE DEF known
<1> QED
  BY <1>1, <1>2, <1>3, JudgementVerdict

-------------------------------------------------------------------------------
(***************************************************************************)
(* Scores.                                                                 *)
(***************************************************************************)

\* The nearest bucket, found by rounding half down.
LEMMA NearestBucket ==
  ASSUME NEW score \in Int
  PROVE  \E b \in SCORE_VALUES : \A c \in SCORE_VALUES \ {b} :
           Distance(b, score) < Distance(c, score) \/ (Distance(b, score) = Distance(c, score) /\ b < c)
<1> DEFINE k == IF score < 0 THEN 0 ELSE IF score > 100 THEN 10 ELSE (score + 4) \div 10
<1>1. k \in 0 .. 10 /\ (score \in 0 .. 100 => 10 * k - score \in -5 .. 4)
  OBVIOUS
<1>2. (score < 0 => k = 0) /\ (score > 100 => k = 10)
  OBVIOUS
<1> HIDE DEF k
<1>3. 10 * k \in SCORE_VALUES
  BY <1>1 DEF SCORE_VALUES
<1>4. ASSUME NEW j \in 0 .. 10, j # k
      PROVE  \/ Distance(10 * k, score) < Distance(10 * j, score)
             \/ Distance(10 * k, score) = Distance(10 * j, score) /\ 10 * k < 10 * j
  BY <1>1, <1>2, <1>4 DEF Distance
<1> QED
  BY <1>1, <1>3, <1>4 DEF SCORE_VALUES

\* How far a score may be from the number it was made of.
Faithful(score, meant) ==
  IF meant \notin Int THEN score = 0
  ELSE IF meant < 0 THEN score = 0
  ELSE IF meant > 100 THEN score = 100
  ELSE score - meant \in -5 .. 4

LEMMA SnapFaithful ==
  ASSUME NEW score \in Int
  PROVE  Snap(score) \in SCORE_VALUES /\ Faithful(Snap(score), score)
<1> DEFINE b == Snap(score)
<1>1. /\ b \in SCORE_VALUES
      /\ \A c \in SCORE_VALUES \ {b} :
           Distance(b, score) < Distance(c, score) \/ (Distance(b, score) = Distance(c, score) /\ b < c)
  BY NearestBucket DEF Snap
<1>2. PICK k \in 0 .. 10 : b = 10 * k
  BY <1>1 DEF SCORE_VALUES
<1>3. ASSUME NEW j \in 0 .. 10, j # k
      PROVE  \/ Distance(10 * k, score) < Distance(10 * j, score)
             \/ Distance(10 * k, score) = Distance(10 * j, score) /\ 10 * k < 10 * j
  <2>1. 10 * j \in SCORE_VALUES /\ 10 * j # b
    BY <1>2, <1>3 DEF SCORE_VALUES
  <2> QED
    BY <1>1, <1>2, <2>1
<1> HIDE DEF b
<1>4. ASSUME score < 0 PROVE k = 0
  <2>1. 0 \in 0 .. 10
    OBVIOUS
  <2> QED
    BY <1>3, <1>4, <2>1 DEF Distance
<1>5. ASSUME score > 100 PROVE k = 10
  <2>1. 10 \in 0 .. 10
    OBVIOUS
  <2> QED
    BY <1>3, <1>5, <2>1 DEF Distance
<1>6. ASSUME score \in 0 .. 100 PROVE 10 * k - score \in -5 .. 4
  <2>1. k > 0 => k - 1 \in 0 .. 10 /\ k - 1 # k
    OBVIOUS
  <2>2. k < 10 => k + 1 \in 0 .. 10 /\ k + 1 # k
    OBVIOUS
  <2>3. 10 * k - score <= 4
    BY <1>3, <1>6, <2>1 DEF Distance
  <2>4. score - 10 * k <= 5
    BY <1>3, <1>6, <2>2 DEF Distance
  <2> QED
    BY <1>6, <2>3, <2>4
<1>7. Faithful(10 * k, score)
  BY <1>4, <1>5, <1>6 DEF Faithful
<1> QED
  BY <1>1, <1>2, <1>7 DEF b

\* What the pipeline makes of a score.
LEMMA JudgementScore ==
  ASSUME NEW raw \in Raw, NEW rejected, Judgement(raw, rejected) \notin {Broken, rejected}
  PROVE  Faithful(Judgement(raw, rejected).score, raw.score)
<1> USE RawAssumption
<1>1. CASE Validates(raw)
  <2>1. Judgement(raw, rejected).score = IF raw.score = Absent THEN 0 ELSE raw.score
    BY <1>1 DEF Judgement, Parsed
  <2>2. raw.score = Absent \/ raw.score \in 0 .. 100
    BY <1>1 DEF Validates, SCORE_VALUES
  <2> QED
    BY <2>1, <2>2 DEF Faithful
<1>2. CASE ~ Validates(raw)
  <2>1. Judgement(raw, rejected) = Parsed(Coerce(raw)) /\ Validates(Coerce(raw))
    BY <1>2 DEF Judgement
  <2>2. Coerce(raw).score = IF raw.score \in Int THEN Snap(raw.score)
                            ELSE IF raw.score \in {Absent, Null} THEN raw.score ELSE 0
    BY DEF Coerce, Raw
  <2>3. Judgement(raw, rejected).score =
          IF Coerce(raw).score = Absent THEN 0 ELSE Coerce(raw).score
    BY <2>1 DEF Parsed
  <2>4. CASE raw.score \in Int
    <3>1. Snap(raw.score) \in Int
      BY <2>4, SnapFaithful DEF SCORE_VALUES
    <3> QED
      BY <2>2, <2>3, <2>4, <3>1, SnapFaithful
  <2>5. CASE raw.score \notin Int
    <3>1. Coerce(raw).score # Null
      BY <2>1 DEF Validates, SCORE_VALUES
    <3> QED
      BY <2>2, <2>3, <2>5, <3>1 DEF Faithful
  <2> QED
    BY <2>4, <2>5
<1> QED
  BY <1>1, <1>2

LEMMA EvaluateScore ==
  ASSUME NEW raw \in Raws, Evaluate(raw) \notin {Broken, FailSafe}
  PROVE  Faithful(Evaluate(raw).score, raw.score)
<1>1. raw \in Raw /\ Evaluate(raw) = Judgement(raw, FailSafe)
  BY PolicyAssumption DEF Evaluate, Raws
<1> QED
  BY <1>1, JudgementScore

LEMMA ClientScore ==
  ASSUME NEW raw \in RawVerdicts \cup {NotObject}, ValidateClientVerdict(raw) \notin {Rejected, Broken}
  PROVE  Faithful(ValidateClientVerdict(raw).score, raw.score)
<1> DEFINE known == [raw EXCEPT !.extra = FALSE, !.verdict = IF @ = Absent THEN Other ELSE @]
<1>1. raw \in Raw /\ ValidateClientVerdict(raw) = Judgement(known, Rejected)
  BY PolicyAssumption DEF ValidateClientVerdict
<1>2. known \in Raw /\ known.score = raw.score
  BY <1>1 DEF Raw
<1> HIDE DEF known
<1> QED
  BY <1>1, <1>2, JudgementScore

-------------------------------------------------------------------------------
(***************************************************************************)
(* Models.                                                                 *)
(***************************************************************************)

\* What the assumption says of the deployment that runs.
LEMMA RunningDeployment ==
  ASSUME NEW d \in Deployments
  PROVE  /\ TierFor(d) \in Tier /\ d.has_local \in BOOLEAN
         /\ \A tier \in Tier : /\ d.catalog[tier] \subseteq ModelKey
                              /\ DefaultModel(tier) \in d.catalog[tier]
         /\ NoKey \notin d.catalog["homelab"] /\ NoKey \notin d.catalog["byok"]
         /\ \A key \in d.catalog["byok"] : ~ IsLocal(key)
         /\ IsLocal(DefaultModel("homelab")) /\ ~ IsLocal(DefaultModel("byok"))
<1>1. d \in Deployment
  BY CatalogAssumption
<1> QED
  BY <1>1, CatalogAssumption DEF Deployment, TierFor, Tier, DefaultModel

\* A choice that is allowed is a model.
LEMMA AllowedChoice ==
  ASSUME NEW d \in Deployments, NEW requested, ~ NotAllowed(d, requested, TierFor(d))
  PROVE  /\ ValidChoice(requested, TierFor(d)) \in ModelKey
         /\ requested # NoKey => /\ ValidChoice(requested, TierFor(d)) = requested
                                 /\ requested \in AvailableModels(d, TierFor(d))
<1> USE RunningDeployment
<1>1. DefaultModel(TierFor(d)) \in ModelKey
  OBVIOUS
<1>2. AvailableModels(d, TierFor(d)) \subseteq ModelKey
  BY DEF AvailableModels
<1> QED
  BY <1>1, <1>2 DEF NotAllowed, ValidChoice

\* A pinned row keeps transport and provider together.
LEMMA PinnedRow ==
  ASSUME NEW key \in ModelKey
  PROVE  /\ Pinned(key) \in PolicyRow /\ Pinned(key) # NoSession /\ Pinned(key).model = key
         /\ Pinned(key).byok <=> Pinned(key).model # NoKey /\ ~ IsLocal(Pinned(key).model)
<1>1. Pinned(key) \in PolicyRow
  <2>1. (~ IsLocal(key)) \in BOOLEAN
    BY DEF IsLocal
  <2> QED
    BY <2>1 DEF Pinned, PolicyRow
<1>2. Pinned(key).model = key /\ (Pinned(key).byok <=> ~ IsLocal(key))
  BY Zenon DEF Pinned
<1>3. key # NoKey
  BY CatalogAssumption
<1> QED
  BY <1>1, <1>2, <1>3, PolicyAssumption

\* A server-judged session resolves to the local coach, to none, or to the browser's.
LEMMA LocalCoach ==
  ASSUME NEW d \in Deployments, NEW key, key = NoKey \/ IsLocal(key)
  PROVE  ResolveCoach(d, key) \in {"client_direct", "local", "locked"}
<1> USE RunningDeployment
<1>1. CASE TierFor(d) = "byok"
  BY <1>1 DEF ResolveCoach
<1>2. CASE TierFor(d) = "homelab"
  <2>1. IsLocal(EntryForTier(d, key, TierFor(d)))
    BY <1>2 DEF EntryForTier
  <2> QED
    BY <1>2, <2>1 DEF ResolveCoach
<1> QED
  BY <1>1, <1>2 DEF Tier

\* Whose turns the server pays for.
LEMMA PaidCoach ==
  ASSUME NEW d \in Deployments, NEW key
  PROVE  /\ ResolveCoach(d, key) \in CredentialMode
         /\ ResolveCoach(d, key) = "server_key" => TierFor(d) = "homelab"
BY RunningDeployment DEF ResolveCoach, CredentialMode, Tier

\* An offered model that is local is offered to the homelab, with its backend there.
LEMMA OfferedLocal ==
  ASSUME NEW d \in Deployments, NEW key \in AvailableModels(d, TierFor(d)), IsLocal(key)
  PROVE  ResolveCoach(d, key) = "local"
<1>1. key \in d.catalog[TierFor(d)] /\ d.has_local
  BY DEF AvailableModels
<1>2. TierFor(d) = "homelab"
  BY <1>1, RunningDeployment DEF Tier
<1> QED
  BY <1>1, <1>2 DEF ResolveCoach, EntryForTier

\* The model a bundle names.
LEMMA NamedModel ==
  ASSUME deployment \in Deployments, NEW key \in ModelKey, ~ IsLocal(key)
  PROVE  /\ BundleModel(key) \in ModelKey /\ ~ IsLocal(BundleModel(key))
         /\ InCatalog(deployment, BundleModel(key))
BY RunningDeployment DEF BundleModel, InCatalog, Tier

-------------------------------------------------------------------------------
(***************************************************************************)
(* The invariant: types, transports, and what an offer means.              *)
(***************************************************************************)
\* An offered model is one the running deployment offers.
OfferStands ==
  offered => session # NoSession /\ session.model \in AvailableModels(deployment, TierNow)

PolicyInv == PolicyTypeOK /\ TransportFollowsProvider /\ OfferStands

\* What is said of the last outcome.
AnswerInv == ServerKeySpentAstray /\ BundleIsCallable /\ NeverGrants /\ ScoreAsMeant

\* An outcome that judges nothing and hands out nothing.
LEMMA PlainOutcome ==
  ASSUME NEW status \in {"none", "200", "403", "404", "422", "500", "503"}, answer' = Plain(status)
  PROVE  answer' \in Outcome /\ AnswerInv'
<1>1. /\ answer'.mode = "none" /\ answer'.model = NoKey /\ answer'.raw = NoAnswer
      /\ answer'.verdict = FailSafe
  BY DEF Plain
<1>2. answer' \in Outcome
  BY FailSafeVerdict DEF Plain, Outcome
<1>3. ServerKeySpentAstray' /\ BundleIsCallable'
  BY <1>1 DEF ServerKeySpentAstray, BundleIsCallable
<1>4. NeverGrants' /\ ScoreAsMeant'
  BY <1>1, FailSafeVerdict DEF NeverGrants, ScoreAsMeant
<1> QED
  BY <1>2, <1>3, <1>4 DEF AnswerInv

\* An outcome that judges a raw verdict.
LEMMA JudgedOutcome ==
  ASSUME NEW raw \in Raws, NEW verdict \in GateVerdict \cup {Broken},
         NEW status \in {"200", "500", "503"},
         NEW mode \in CredentialMode \cup {"none"},
         mode = "server_key" => TierNow' = "homelab" /\ session' # NoSession /\ session'.byok,
         answer' = Judged(status, mode, raw, verdict),
         verdict # Broken /\ verdict.verdict = "pass" =>
           raw \notin {NotObject, NoAnswer} /\ raw.verdict = "pass",
         verdict \notin {Broken, FailSafe} => Faithful(verdict.score, raw.score)
  PROVE  answer' \in Outcome /\ AnswerInv'
<1>1. /\ answer'.mode = mode /\ answer'.model = NoKey /\ answer'.raw = raw
      /\ answer'.verdict = verdict
  BY DEF Judged
<1>2. answer' \in Outcome
  BY DEF Judged, Outcome, Raws
<1>3. ServerKeySpentAstray' /\ BundleIsCallable'
  BY <1>1 DEF ServerKeySpentAstray, BundleIsCallable
<1>4. NeverGrants'
  BY <1>1 DEF NeverGrants
<1>5. ScoreAsMeant'
  BY <1>1, FailSafeVerdict DEF ScoreAsMeant, Faithful
<1> QED
  BY <1>2, <1>3, <1>4, <1>5 DEF AnswerInv

-------------------------------------------------------------------------------
(***************************************************************************)
(* Every request keeps it.                                                 *)
(***************************************************************************)

\* A request that leaves the session alone.
LEMMA SessionKept ==
  ASSUME PolicyInv, UNCHANGED <<deployment, session, offered>>, answer' \in Outcome
  PROVE  PolicyInv'
BY DEF PolicyInv, PolicyTypeOK, TransportFollowsProvider, OfferStands, TierNow

\* A request that pins a model.
LEMMA SessionPinned ==
  ASSUME PolicyInv, UNCHANGED deployment, answer' \in Outcome,
         NEW key \in ModelKey, session' = Pinned(key), offered' \in BOOLEAN,
         offered' => key \in AvailableModels(deployment, TierNow)
  PROVE  PolicyInv'
<1>1. PolicyTypeOK'
  BY PinnedRow DEF PolicyInv, PolicyTypeOK
<1>2. TransportFollowsProvider'
  BY PinnedRow DEF TransportFollowsProvider
<1>3. OfferStands'
  BY PinnedRow DEF OfferStands, TierNow
<1> QED
  BY <1>1, <1>2, <1>3 DEF PolicyInv

\* No session, as after clear-all.
LEMMA SessionGone ==
  ASSUME PolicyInv, UNCHANGED deployment, answer' \in Outcome, session' = NoSession, offered' = FALSE
  PROVE  PolicyInv'
BY DEF PolicyInv, PolicyTypeOK, TransportFollowsProvider, OfferStands

LEMMA CreateInv ==
  ASSUME PolicyInv, UNCHANGED deployment, NEW requested, Create(requested)
  PROVE  PolicyInv' /\ AnswerInv'
<1>1. answer' \in Outcome /\ AnswerInv'
  BY PlainOutcome DEF Create, Answers
<1>2. CASE UNCHANGED <<session, offered>>
  BY <1>1, <1>2, SessionKept
<1>3. CASE ~ UNCHANGED <<session, offered>>
  <2>1. /\ ~ NotAllowed(deployment, requested, TierNow)
        /\ session' = Pinned(ValidChoice(requested, TierNow)) /\ offered' = (requested # NoKey)
    BY <1>3 DEF Create
  <2> QED
    BY <1>1, <2>1, AllowedChoice, SessionPinned DEF TierNow, PolicyInv, PolicyTypeOK
<1> QED
  BY <1>1, <1>2, <1>3

LEMMA ChangeModelInv ==
  ASSUME PolicyInv, UNCHANGED deployment, NEW requested, ChangeModel(requested)
  PROVE  PolicyInv' /\ AnswerInv'
<1>1. answer' \in Outcome /\ AnswerInv'
  BY PlainOutcome DEF ChangeModel, Answers
<1>2. CASE UNCHANGED <<session, offered>>
  BY <1>1, <1>2, SessionKept
<1>3. CASE ~ UNCHANGED <<session, offered>>
  <2>1. /\ ~ NotAllowed(deployment, requested, TierNow)
        /\ session' = Pinned(ValidChoice(requested, TierNow)) /\ offered' = (requested # NoKey)
    BY <1>3 DEF ChangeModel, SwitchModel
  <2> QED
    BY <1>1, <2>1, AllowedChoice, SessionPinned DEF TierNow, PolicyInv, PolicyTypeOK
<1> QED
  BY <1>1, <1>2, <1>3

LEMMA ResetInv ==
  ASSUME PolicyInv, UNCHANGED deployment, Reset
  PROVE  PolicyInv' /\ AnswerInv'
<1>1. answer' \in Outcome /\ AnswerInv'
  BY PlainOutcome DEF Reset, Answers
<1>2. CASE session = NoSession
  BY <1>1, <1>2, SessionKept DEF Reset
<1>3. CASE session # NoSession
  <2> DEFINE kept == ~ NotAllowed(deployment, session.model, TierNow)
             key  == IF kept THEN ValidChoice(session.model, TierNow) ELSE DefaultModel(TierNow)
  <2>1. session' = Pinned(key) /\ offered' = (kept /\ session.model # NoKey)
    BY <1>3 DEF Reset
  <2>2. deployment \in Deployments
    BY DEF PolicyInv, PolicyTypeOK
  <2>3. key \in ModelKey
    BY <2>2, AllowedChoice, RunningDeployment DEF TierNow
  <2>4. offered' => key \in AvailableModels(deployment, TierNow)
    BY <2>1, <2>2, AllowedChoice DEF TierNow
  <2> QED
    BY <1>1, <2>1, <2>3, <2>4, SessionPinned
<1> QED
  BY <1>2, <1>3

LEMMA RemoveInv ==
  ASSUME PolicyInv, UNCHANGED deployment, Remove
  PROVE  PolicyInv' /\ AnswerInv'
BY PlainOutcome, SessionGone DEF Remove, Answers

\* The session a turn finds, or creates: its transport follows its provider too.
LEMMA FoundRow ==
  ASSUME PolicyInv, session # NoSession,
         NEW found \in {session, NoSession} \cup OtherSessions,
         NEW row, row = IF found = NoSession THEN Recreated ELSE found
  PROVE  /\ row \in PolicyRow /\ row # NoSession
         /\ row.byok <=> row.model # NoKey /\ ~ IsLocal(row.model)
<1>1. CASE found = NoSession
  <2>1. row \in PolicyRow /\ row.model = NoKey /\ row.byok = FALSE
    BY <1>1 DEF Recreated, PolicyRow
  <2> QED
    BY <2>1, PolicyAssumption
<1>2. CASE found # NoSession /\ found = session
  BY <1>2 DEF PolicyInv, PolicyTypeOK, TransportFollowsProvider
<1>3. CASE found # NoSession /\ found \in OtherSessions
  <2>1. PICK key \in ModelKey : row = Pinned(key)
    BY <1>3 DEF OtherSessions
  <2> QED
    BY <2>1, PinnedRow
<1> QED
  BY <1>1, <1>2, <1>3

LEMMA TurnInv ==
  ASSUME PolicyInv, UNCHANGED deployment, NEW raw \in Raws,
         NEW found \in {session, NoSession} \cup OtherSessions, Turn(raw, found)
  PROVE  PolicyInv' /\ AnswerInv'
<1>1. CASE session = NoSession \/ session.byok
  <2>1. UNCHANGED <<session, offered>> /\ \E status \in {"403", "404"} : answer' = Plain(status)
    BY <1>1 DEF Turn, Answers
  <2>2. answer' \in Outcome /\ AnswerInv'
    BY <2>1, PlainOutcome
  <2> QED
    BY <2>1, <2>2, SessionKept
<1>2. CASE session # NoSession /\ ~ session.byok
  <2> DEFINE verdict == Evaluate(raw)
             row     == IF found = NoSession THEN Recreated ELSE found
             mode    == ResolveCoach(deployment, row.model)
             status  == IF verdict = Broken THEN "500"
                        ELSE IF mode \in {"server_key", "local"} THEN "200" ELSE "503"
             paid    == IF verdict = Broken THEN "none" ELSE mode
  <2>1. /\ answer' = Judged(status, paid, raw, verdict)
        /\ session' = (IF verdict = Broken THEN found ELSE row)
        /\ offered' = (offered /\ found = session)
    BY <1>2 DEF Turn, Answers
  <2>2. /\ row \in PolicyRow /\ row # NoSession
        /\ row.byok <=> row.model # NoKey /\ ~ IsLocal(row.model)
    BY <1>2, FoundRow
  <2>3. deployment \in Deployments
    BY DEF PolicyInv, PolicyTypeOK
  <2>4. paid \in CredentialMode \cup {"none"}
    BY <2>3, PaidCoach
  <2>5. paid = "server_key" => TierNow' = "homelab" /\ session' # NoSession /\ session'.byok
    <3>1. SUFFICES ASSUME verdict # Broken, ResolveCoach(deployment, row.model) = "server_key"
                   PROVE  TierNow = "homelab" /\ row.byok
      BY <2>1, <2>2 DEF TierNow
    <3>2. TierNow = "homelab"
      BY <2>3, <3>1, PaidCoach DEF TierNow
    <3>3. ~ (row.model = NoKey \/ IsLocal(row.model))
      BY <2>3, <3>1, LocalCoach
    <3> HIDE DEF row, verdict
    <3> QED
      BY <2>2, <3>2, <3>3
  <2>6. status \in {"200", "500", "503"}
    OBVIOUS
  <2>7. /\ verdict \in GateVerdict \cup {Broken}
        /\ verdict # Broken /\ verdict.verdict = "pass" =>
              raw \notin {NotObject, NoAnswer} /\ raw.verdict = "pass"
        /\ verdict \notin {Broken, FailSafe} => Faithful(verdict.score, raw.score)
    <3>1. raw \in Raw \cup {NotObject, NoAnswer}
      BY PolicyAssumption DEF Raws
    <3> QED
      BY <3>1, EvaluateVerdict, EvaluateScore
  <2>8. \/ session' = session /\ offered' = offered
        \/ session' = NoSession /\ offered' = FALSE
        \/ session' = row /\ offered' = FALSE
    BY <1>2, <2>1 DEF PolicyInv, PolicyTypeOK
  <2> HIDE DEF verdict, paid, status, row
  <2>9. answer' \in Outcome /\ AnswerInv'
    BY <2>1, <2>4, <2>5, <2>6, <2>7, JudgedOutcome
  <2>10. CASE session' = row /\ offered' = FALSE
    BY <2>2, <2>9, <2>10 DEF PolicyInv, PolicyTypeOK, TransportFollowsProvider, OfferStands
  <2> QED
    BY <2>8, <2>9, <2>10, SessionKept, SessionGone
<1> QED
  BY <1>1, <1>2

LEMMA PromptBundleInv ==
  ASSUME PolicyInv, UNCHANGED deployment, PromptBundle
  PROVE  PolicyInv' /\ AnswerInv'
<1>1. CASE session = NoSession \/ ~ session.byok
  <2>1. UNCHANGED <<session, offered>> /\ \E status \in {"403", "404"} : answer' = Plain(status)
    BY <1>1 DEF PromptBundle, Answers
  <2>2. answer' \in Outcome /\ AnswerInv'
    BY <2>1, PlainOutcome
  <2> QED
    BY <2>1, <2>2, SessionKept
<1>2. CASE session # NoSession /\ session.byok
  <2> DEFINE key == BundleModel(session.model)
  <2>1. session.model \in ModelKey /\ ~ IsLocal(session.model) /\ deployment \in Deployments
    BY <1>2 DEF PolicyInv, PolicyTypeOK, TransportFollowsProvider, PolicyRow
  <2>2. key \in ModelKey /\ ~ IsLocal(key) /\ InCatalog(deployment, key)
    BY <2>1, NamedModel
  <2> HIDE DEF key
  <2>3. answer' = [Plain("200") EXCEPT !.mode = "client_direct", !.model = key]
    BY <1>2 DEF PromptBundle, Answers, key
  <2>4. /\ answer'.mode = "client_direct" /\ answer'.model = key
        /\ answer'.raw = NoAnswer /\ answer'.verdict = FailSafe
    BY <2>3 DEF Plain
  <2>5. answer' \in Outcome
    BY <2>2, <2>3, FailSafeVerdict DEF Plain, Outcome, CredentialMode
  <2>6. ServerKeySpentAstray' /\ BundleIsCallable'
    BY <2>2, <2>4 DEF ServerKeySpentAstray, BundleIsCallable
  <2>7. NeverGrants' /\ ScoreAsMeant'
    BY <2>4, FailSafeVerdict DEF NeverGrants, ScoreAsMeant
  <2> QED
    BY <2>5, <2>6, <2>7, SessionKept DEF AnswerInv, PromptBundle
<1> QED
  BY <1>1, <1>2

LEMMA ByokRecordInv ==
  ASSUME PolicyInv, UNCHANGED deployment, NEW raw \in RawVerdicts \cup {NotObject}, ByokRecord(raw)
  PROVE  PolicyInv' /\ AnswerInv'
<1> DEFINE verdict == ValidateClientVerdict(raw)
<1>1. answer' \in Outcome /\ AnswerInv'
  <2>1. CASE \E status \in {"403", "404", "422"} : answer' = Plain(status)
    BY <2>1, PlainOutcome
  <2>2. CASE verdict # Rejected /\ \E status \in {"200", "500"}, mode \in {"none", "client_direct"} :
                                     answer' = Judged(status, mode, raw, verdict)
    <3>1. raw \in Raws
      BY DEF Raws
    <3>2. /\ verdict \in GateVerdict \cup {Broken}
          /\ verdict # Broken /\ verdict.verdict = "pass" =>
                raw \notin {NotObject, NoAnswer} /\ raw.verdict = "pass"
          /\ verdict \notin {Broken, FailSafe} => Faithful(verdict.score, raw.score)
      BY <2>2, ClientVerdict, ClientScore
    <3>3. PICK status \in {"200", "500"}, mode \in {"none", "client_direct"} :
            answer' = Judged(status, mode, raw, verdict)
      BY <2>2
    <3>4. mode \in CredentialMode \cup {"none"} /\ mode # "server_key"
      BY DEF CredentialMode
    <3> HIDE DEF verdict
    <3> QED
      BY <3>1, <3>2, <3>3, <3>4, JudgedOutcome
  <2> QED
    BY <2>1, <2>2 DEF ByokRecord, Answers
<1> QED
  BY <1>1, SessionKept DEF ByokRecord

LEMMA RedeployInv ==
  ASSUME PolicyInv, Redeploy
  PROVE  PolicyInv' /\ AnswerInv'
<1>1. answer' \in Outcome /\ AnswerInv'
  BY PlainOutcome DEF Redeploy, Answers
<1>2. PolicyInv'
  BY <1>1 DEF Redeploy, PolicyInv, PolicyTypeOK, TransportFollowsProvider, OfferStands
<1> QED
  BY <1>1, <1>2

LEMMA PolicyNextInv == PolicyInv /\ AnswerInv /\ [PolicyNext]_policyVars => PolicyInv' /\ AnswerInv'
<1> SUFFICES ASSUME PolicyInv, AnswerInv, [PolicyNext]_policyVars PROVE PolicyInv' /\ AnswerInv'
  OBVIOUS
<1>1. CASE UNCHANGED policyVars
  BY <1>1 DEF policyVars, PolicyInv, PolicyTypeOK, TransportFollowsProvider, OfferStands, TierNow,
              AnswerInv, ServerKeySpentAstray, BundleIsCallable, NeverGrants, ScoreAsMeant
<1>2. CASE Redeploy
  BY <1>2, RedeployInv
<1>3. CASE PolicyRequest /\ UNCHANGED deployment
  BY <1>3, CreateInv, ChangeModelInv, ResetInv, RemoveInv, TurnInv, PromptBundleInv, ByokRecordInv
     DEF PolicyRequest
<1> QED
  BY <1>1, <1>2, <1>3 DEF PolicyNext

LEMMA PolicyInitInv == PolicyInit => PolicyInv /\ AnswerInv
<1> SUFFICES ASSUME PolicyInit PROVE PolicyInv /\ AnswerInv
  OBVIOUS
<1>1. answer = Plain("none")
  BY DEF PolicyInit
<1>2. /\ answer.mode = "none" /\ answer.model = NoKey /\ answer.raw = NoAnswer
      /\ answer.verdict = FailSafe
  BY <1>1 DEF Plain
<1>3. answer \in Outcome
  BY <1>1, FailSafeVerdict DEF Plain, Outcome
<1>4. AnswerInv
  BY <1>2, FailSafeVerdict DEF AnswerInv, ServerKeySpentAstray, BundleIsCallable, NeverGrants, ScoreAsMeant
<1>5. PolicyInv
  BY <1>3 DEF PolicyInit, PolicyInv, PolicyTypeOK, TransportFollowsProvider, OfferStands
<1> QED
  BY <1>4, <1>5

\* The invariant holds in every behaviour, and so does what is said of the outcomes.
THEOREM PolicyInvariant == PolicySpec => [](PolicyInv /\ AnswerInv)
BY PolicyInitInv, PolicyNextInv, PTL DEF PolicySpec

\* Whatever was redeployed, switched, reset or created lazily, a session is
\* client-direct exactly when its model is not the local one.
THEOREM TransportIsProvider == PolicySpec => []TransportFollowsProvider
<1>1. PolicyInv => TransportFollowsProvider
  BY DEF PolicyInv
<1> QED
  BY <1>1, PolicyInvariant, PTL

\* The variables of the policy keep their types, for every catalog, every sequence of
\* deployments and every raw verdict (sessions.py:174-640, gate.py:106-192).
THEOREM PolicyTypeCorrect == PolicySpec => []PolicyTypeOK
<1>1. PolicyInv => PolicyTypeOK
  BY DEF PolicyInv
<1> QED
  BY <1>1, PolicyInvariant, PTL

\* Only the turn of a homelab caller that finds, where it was not sent, a client-direct
\* session is coached on the server's key: for every catalog and sequence of deployments, a
\* session that admits a turn never leads to it (catalog.py:202-237, sessions.py:374).
THEOREM ServerKeyGoesAstray == PolicySpec => []ServerKeySpentAstray
<1>1. AnswerInv => ServerKeySpentAstray
  BY DEF AnswerInv
<1> QED
  BY <1>1, PolicyInvariant, PTL

\* A model that was offered and picked finds its coach until the next deployment.
THEOREM OffersHold == PolicySpec => []OfferHolds
<1>1. ASSUME PolicyInv PROVE OfferHolds
  <2> SUFFICES ASSUME offered, ~ session.byok PROVE ResolveCoach(deployment, session.model) = "local"
    BY DEF OfferHolds
  <2>1. /\ deployment \in Deployments /\ session.model \in AvailableModels(deployment, TierNow)
        /\ session # NoSession
    BY <1>1 DEF PolicyInv, PolicyTypeOK, OfferStands
  <2>2. session.model # NoKey
    BY <2>1, RunningDeployment DEF AvailableModels, TierNow, Tier
  <2>3. IsLocal(session.model)
    BY <1>1, <2>1, <2>2 DEF PolicyInv, TransportFollowsProvider
  <2> QED
    BY <2>1, <2>3, OfferedLocal DEF TierNow
<1> QED
  BY <1>1, PolicyInvariant, PTL

\* A bundle names a cloud model of the running catalog.
THEOREM BundlesAreCallable == PolicySpec => []BundleIsCallable
<1>1. AnswerInv => BundleIsCallable
  BY DEF AnswerInv
<1> QED
  BY <1>1, PolicyInvariant, PTL

\* Nothing but the judge's own "pass" is ever judged a pass, for every raw verdict.
THEOREM NoPassIsGranted == PolicySpec => []NeverGrants
<1>1. AnswerInv => NeverGrants
  BY DEF AnswerInv
<1> QED
  BY <1>1, PolicyInvariant, PTL

\* A score is the judge's to the nearest ten, ties down, for every number.
THEOREM ScoresAreMeant == PolicySpec => []ScoreAsMeant
<1>1. AnswerInv => ScoreAsMeant
  BY DEF AnswerInv
<1> QED
  BY <1>1, PolicyInvariant, PTL

-------------------------------------------------------------------------------
(***************************************************************************)
(* The gate's regression test: for every suite, every number of replays    *)
(* and whatever the judge answers.  The inductive invariant says what a    *)
(* run is made of, that a baseline was frozen from a run that had replays, *)
(* and that the answer of a comparison is about this run and this baseline.*)
(***************************************************************************)

RunRecord == [suite : Suites, raws : Seq(JudgeRaws \cup {NoAnswer})]

FrozenMetrics == [false_pass : Nat, flips : Nat, valid : Nat, total : Nat \ {0}, cases : Nat \ {0}]

\* A run is of labelled cases, at least one, and every answer so far was judged.
RunSound ==
  run # NoRun =>
    /\ run \in RunRecord
    /\ run.suite # <<>> /\ \A c \in DOMAIN run.suite : run.suite[c].allowed # {}
    /\ Len(run.raws) <= Total(run)
    /\ \A i \in DOMAIN run.raws : Evaluate(run.raws[i]) \in GateVerdict

\* The last comparison was of the run that is finished, with the baseline that there is.
ComparedNow ==
  ci # "none" =>
    /\ Finished(run) /\ baseline # NoBaseline
    /\ ci = IF Regresses(Metrics(run), baseline) THEN "regression" ELSE "ok"

RunnerInv ==
  /\ RunSound
  /\ baseline # NoBaseline => baseline \in FrozenMetrics
  /\ ComparedNow

\* What the judge answers is judged, unless the gate raises.
LEMMA ReplayJudged ==
  ASSUME NEW raw \in JudgeRaws \cup {NoAnswer, NotObject}, Evaluate(raw) # Broken
  PROVE  raw \in JudgeRaws \cup {NoAnswer} /\ Evaluate(raw) \in GateVerdict
<1>1. raw \in Raw \cup {NotObject, NoAnswer}
  BY RunnerAssumption
<1>2. Evaluate(raw) \in GateVerdict
  BY <1>1, EvaluateVerdict
<1>3. Evaluate(NotObject) = Broken
  BY RawAssumption DEF Evaluate
<1> QED
  BY <1>2, <1>3

\* A product of two numbers of at least one.
LEMMA ProductIsPositive ==
  ASSUME NEW m \in Nat \ {0}, NEW n \in Nat \ {0} PROVE m * n \in Nat \ {0}
  OBVIOUS

LEMMA TotalIsPositive ==
  ASSUME RunSound, run # NoRun PROVE Total(run) \in Nat \ {0} /\ Len(run.suite) \in Nat \ {0}
<1>1. run.suite \in Seq(EvalCase) /\ run.suite # <<>>
  BY RunnerAssumption DEF RunSound, RunRecord
<1>2. Len(run.suite) \in Nat \ {0}
  BY <1>1
<1> QED
  BY <1>2, ProductIsPositive, RunnerAssumption DEF Total

\* The replays that pass a test are some of the replays, and so they can be counted.
LEMMA SomeReplays ==
  ASSUME RunSound, run # NoRun, NEW S, S \subseteq DOMAIN run.raws
  PROVE  IsFiniteSet(S) /\ Cardinality(S) \in Nat /\ Cardinality(S) <= Len(run.raws)
<1>1. run.raws \in Seq(JudgeRaws \cup {NoAnswer})
  BY DEF RunSound, RunRecord
<1>2. DOMAIN run.raws = 1 .. Len(run.raws) /\ Len(run.raws) \in Nat
  BY <1>1
<1>3. IsFiniteSet(1 .. Len(run.raws)) /\ Cardinality(1 .. Len(run.raws)) = Len(run.raws)
  BY <1>2, FS_Interval
<1> QED
  BY <1>2, <1>3, FS_Subset, FS_CardinalityType

LEMMA SomeCases ==
  ASSUME RunSound, run # NoRun, NEW S, S \subseteq DOMAIN run.suite
  PROVE  Cardinality(S) \in Nat /\ Cardinality(S) <= Len(run.suite)
<1>1. run.suite \in Seq(EvalCase)
  BY RunnerAssumption DEF RunSound, RunRecord
<1>2. DOMAIN run.suite = 1 .. Len(run.suite) /\ Len(run.suite) \in Nat
  BY <1>1
<1>3. IsFiniteSet(1 .. Len(run.suite)) /\ Cardinality(1 .. Len(run.suite)) = Len(run.suite)
  BY <1>2, FS_Interval
<1> QED
  BY <1>2, <1>3, FS_Subset, FS_CardinalityType

\* The replays and the cases that the metrics count.
RightReplays == {i \in DOMAIN run.raws : Allows(run, i)}
FalsePasses == {i \in DOMAIN run.raws : FalsePass(run, i)}
FalseRetries == {i \in DOMAIN run.raws : FalseRetry(run, i)}
ValidReplays == {i \in DOMAIN run.raws : GateOutcome(run.raws[i]) = "valid"}
FlippedCases == {c \in DOMAIN run.suite : Flipped(run, c)}

LEMMA MetricsCount ==
  /\ Metrics(run).ok = Cardinality(RightReplays)
  /\ Metrics(run).false_pass = Cardinality(FalsePasses)
  /\ Metrics(run).false_retry = Cardinality(FalseRetries)
  /\ Metrics(run).valid = Cardinality(ValidReplays)
  /\ Metrics(run).flips = Cardinality(FlippedCases)
  /\ Metrics(run).total = Total(run) /\ Metrics(run).cases = Len(run.suite)
BY DEF Metrics, Count, RightReplays, FalsePasses, FalseRetries, ValidReplays, FlippedCases

LEMMA MetricsType ==
  ASSUME RunSound, run # NoRun PROVE Guarded(Metrics(run)) \in FrozenMetrics
<1> DEFINE m == Metrics(run)
<1>1. Cardinality(FalsePasses) \in Nat /\ Cardinality(ValidReplays) \in Nat
  BY SomeReplays DEF FalsePasses, ValidReplays
<1>2. Cardinality(FlippedCases) \in Nat
  BY SomeCases DEF FlippedCases
<1>3. /\ m.false_pass \in Nat /\ m.flips \in Nat /\ m.valid \in Nat
      /\ m.total \in Nat \ {0} /\ m.cases \in Nat \ {0}
  BY <1>1, <1>2, MetricsCount, TotalIsPositive
<1> HIDE DEF m
<1>4. Guarded(m) \in FrozenMetrics
  BY <1>3 DEF Guarded, FrozenMetrics
<1> QED
  BY <1>4 DEF m

\* The initial state, and each action.
LEMMA RunnerInitInv == RunnerInit => RunnerInv
  BY DEF RunnerInit, RunnerInv, RunSound, ComparedNow

LEMMA StartRunInv == ASSUME RunnerInv, StartRun PROVE RunnerInv'
<1>1. PICK suite \in Suites \ {<<>>} :
        /\ \A c \in DOMAIN suite : suite[c].allowed # {}
        /\ run' = [suite |-> suite, raws |-> <<>>]
  BY DEF StartRun
<1>2. run' \in RunRecord /\ run'.suite = suite /\ run'.raws = <<>>
  BY <1>1 DEF RunRecord
<1>3. Len(suite) \in Nat /\ Len(suite) * Replays \in Nat
  <2>1. suite \in Seq(EvalCase)
    BY RunnerAssumption
  <2> QED
    BY <2>1, RunnerAssumption
<1>4. RunSound'
  BY <1>1, <1>2, <1>3 DEF RunSound, Total
<1> QED
  BY <1>4 DEF RunnerInv, ComparedNow, StartRun

LEMMA ReplayCaseInv == ASSUME RunnerInv, ReplayCase PROVE RunnerInv'
<1>1. PICK raw \in JudgeRaws \cup {NoAnswer, NotObject} :
        run' = IF Evaluate(raw) = Broken THEN NoRun ELSE [run EXCEPT !.raws = Append(@, raw)]
  BY DEF ReplayCase
<1>2. /\ run \in RunRecord /\ Len(run.raws) <= Total(run) /\ Len(run.raws) # Total(run)
      /\ \A i \in DOMAIN run.raws : Evaluate(run.raws[i]) \in GateVerdict
      /\ run.suite # <<>> /\ \A c \in DOMAIN run.suite : run.suite[c].allowed # {}
  BY DEF RunnerInv, RunSound, ReplayCase, Finished
<1>3. CASE Evaluate(raw) = Broken
  BY <1>1, <1>3 DEF RunnerInv, RunSound, ComparedNow, ReplayCase
<1>4. CASE Evaluate(raw) # Broken
  <2>1. raw \in JudgeRaws \cup {NoAnswer} /\ Evaluate(raw) \in GateVerdict
    BY <1>4, ReplayJudged
  <2>2. run.raws \in Seq(JudgeRaws \cup {NoAnswer}) /\ run.suite \in Suites
    BY <1>2 DEF RunRecord
  <2>3. run' = [suite |-> run.suite, raws |-> Append(run.raws, raw)]
    BY <1>1, <1>2, <1>4 DEF RunRecord
  <2>4. run' \in RunRecord /\ run'.suite = run.suite /\ run'.raws = Append(run.raws, raw)
    BY <2>1, <2>2, <2>3 DEF RunRecord
  <2>5. Total(run) \in Nat
    BY TotalIsPositive, RunnerAssumption DEF RunnerInv, ReplayCase
  <2>6. Len(run'.raws) <= Total(run')
    BY <1>2, <2>1, <2>2, <2>4, <2>5 DEF Total
  <2>7. \A i \in DOMAIN run'.raws : Evaluate(run'.raws[i]) \in GateVerdict
    BY <1>2, <2>1, <2>2, <2>4
  <2>8. RunSound'
    BY <1>2, <2>4, <2>6, <2>7 DEF RunSound
  <2>9. ci = "none"
    BY <1>2 DEF RunnerInv, ComparedNow, Finished
  <2> QED
    BY <2>8, <2>9 DEF RunnerInv, ComparedNow, ReplayCase
<1> QED
  BY <1>3, <1>4

LEMMA FreezeInv == ASSUME RunnerInv, Freeze PROVE RunnerInv'
<1>1. Guarded(Metrics(run)) \in FrozenMetrics
  BY MetricsType DEF RunnerInv, Freeze, Finished
<1>2. baseline' \in FrozenMetrics /\ RunSound'
  BY <1>1 DEF RunnerInv, RunSound, Freeze, Total
<1> QED
  BY <1>2 DEF RunnerInv, ComparedNow, Freeze

LEMMA CompareInv == ASSUME RunnerInv, Compare PROVE RunnerInv'
<1>1. run' = run /\ baseline' = baseline
  BY DEF Compare
<1>2. RunSound' /\ Finished(run') /\ Metrics(run') = Metrics(run)
  BY <1>1 DEF RunnerInv, RunSound, Compare
<1> QED
  BY <1>1, <1>2 DEF RunnerInv, ComparedNow, Compare

LEMMA RunnerNextInv == RunnerInv /\ [RunnerNext]_runnerVars => RunnerInv'
<1> SUFFICES ASSUME RunnerInv, [RunnerNext]_runnerVars PROVE RunnerInv'
  OBVIOUS
<1>1. CASE RunnerNext
  BY <1>1, StartRunInv, ReplayCaseInv, FreezeInv, CompareInv DEF RunnerNext
<1>2. CASE UNCHANGED runnerVars
  <2>1. run' = run /\ baseline' = baseline /\ ci' = ci
    BY <1>2 DEF runnerVars
  <2>2. RunSound'
    BY <2>1 DEF RunnerInv, RunSound
  <2>3. ComparedNow'
    BY <2>1 DEF RunnerInv, ComparedNow
  <2> QED
    BY <2>1, <2>2, <2>3 DEF RunnerInv
<1> QED
  BY <1>1, <1>2

THEOREM RunnerInvariant == RunnerSpec => []RunnerInv
<1>1. RunnerInv /\ [RunnerNext]_runnerVars => RunnerInv'
  BY RunnerNextInv
<1> QED
  BY <1>1, RunnerInitInv, PTL DEF RunnerSpec

\* No replay is right, a false pass and a false retry at once.
LEMMA CountsAddUp ==
  ASSUME RunSound, run # NoRun
  PROVE  Cardinality(RightReplays) + Cardinality(FalsePasses) + Cardinality(FalseRetries)
           <= Len(run.raws)
<1> DEFINE Wrong == FalsePasses \cup FalseRetries
           All == RightReplays \cup Wrong
<1>1. /\ RightReplays \subseteq DOMAIN run.raws /\ FalsePasses \subseteq DOMAIN run.raws
      /\ FalseRetries \subseteq DOMAIN run.raws
  BY DEF RightReplays, FalsePasses, FalseRetries
<1>2. FalsePasses \cap FalseRetries = {} /\ RightReplays \cap Wrong = {}
  BY DEF RightReplays, FalsePasses, FalseRetries, FalsePass, FalseRetry
<1>3. IsFiniteSet(RightReplays) /\ IsFiniteSet(FalsePasses) /\ IsFiniteSet(FalseRetries)
  BY <1>1, SomeReplays
<1>4. /\ Cardinality(RightReplays) \in Nat /\ Cardinality(FalsePasses) \in Nat
      /\ Cardinality(FalseRetries) \in Nat
  BY <1>1, SomeReplays
<1>5. IsFiniteSet(Wrong) /\ Cardinality(Wrong) = Cardinality(FalsePasses) + Cardinality(FalseRetries)
  <2>1. /\ IsFiniteSet(Wrong)
        /\ Cardinality(Wrong) = Cardinality(FalsePasses) + Cardinality(FalseRetries)
                                  - Cardinality(FalsePasses \cap FalseRetries)
    BY <1>3, FS_Union
  <2>2. Cardinality(FalsePasses \cap FalseRetries) = 0
    BY <1>2, FS_EmptySet
  <2> QED
    BY <1>4, <2>1, <2>2
<1>6. Cardinality(All) = Cardinality(RightReplays) + Cardinality(Wrong)
  <2>1. Cardinality(All) = Cardinality(RightReplays) + Cardinality(Wrong)
                             - Cardinality(RightReplays \cap Wrong)
    BY <1>3, <1>5, FS_Union
  <2>2. Cardinality(RightReplays \cap Wrong) = 0
    BY <1>2, FS_EmptySet
  <2>3. Cardinality(Wrong) \in Nat
    BY <1>4, <1>5
  <2> QED
    BY <1>4, <2>1, <2>2, <2>3
<1>7. Cardinality(All) <= Len(run.raws)
  <2>1. All \subseteq DOMAIN run.raws
    BY <1>1
  <2> QED
    BY <2>1, SomeReplays
<1> QED
  BY <1>4, <1>5, <1>6, <1>7

\* Every variable of the regression test has its type, and no replay counts twice: it is
\* right, a false pass, a false retry, or none of them (gate_runner.py:126-148).
THEOREM RunnerTypeCorrect == RunnerSpec => []RunnerTypeOK
<1>1. RunnerInv => RunnerTypeOK
  <2> SUFFICES ASSUME RunnerInv PROVE RunnerTypeOK
    OBVIOUS
  <2>1. run # NoRun =>
          /\ run.suite \in Suites /\ Len(run.raws) <= Total(run)
          /\ \A i \in DOMAIN run.raws : Evaluate(run.raws[i]) \in GateVerdict
    BY DEF RunnerInv, RunSound, RunRecord
  <2>2. ci \in {"none", "ok", "regression"}
    BY DEF RunnerInv, ComparedNow
  <2>3. ASSUME Finished(run)
        PROVE  /\ Metrics(run).ok + Metrics(run).false_pass + Metrics(run).false_retry
                    <= Metrics(run).total
               /\ Metrics(run).flips <= Metrics(run).cases
    <3>1. RunSound /\ run # NoRun /\ Len(run.raws) = Total(run)
      BY <2>3 DEF RunnerInv, Finished
    <3>2. Cardinality(FlippedCases) <= Len(run.suite)
      BY <3>1, SomeCases DEF FlippedCases
    <3> QED
      BY <3>1, <3>2, CountsAddUp, MetricsCount
  <2> QED
    BY <2>1, <2>2, <2>3 DEF RunnerTypeOK
<1> QED
  BY <1>1, RunnerInvariant, PTL

\* Rates above and below a threshold.
LEMMA ShareLost ==
  ASSUME NEW a \in Nat, NEW b \in Nat \ {0}, NEW total \in Nat \ {0}, 100 * a > 5 * b
  PROVE  Exceeds(a, b, 0, total, 5)
<1>1. 100 * a - 5 * b \in Nat \ {0}
  OBVIOUS
<1>2. (100 * a - 5 * b) * total \in Nat \ {0}
  BY <1>1, ProductIsPositive
<1>3. (100 * a - 5 * b) * total = 100 * a * total - (100 * 0 + 5 * total) * b
  OBVIOUS
<1> QED
  BY <1>2, <1>3 DEF Exceeds

LEMMA NothingExceedsItself ==
  ASSUME NEW a \in Nat, NEW b \in Nat, NEW percent \in Nat
  PROVE  ~ Exceeds(a, b, a, b, percent)
<1>1. percent * b * b \in Nat
  OBVIOUS
<1>2. (100 * a + percent * b) * b = 100 * a * b + percent * b * b
  OBVIOUS
<1>3. 100 * a * b \in Nat
  OBVIOUS
<1> QED
  BY <1>1, <1>2, <1>3 DEF Exceeds

\* During an outage no replay is valid.
LEMMA OutageHasNoneValid ==
  ASSUME \A i \in DOMAIN run.raws : run.raws[i] = NoAnswer
  PROVE  Metrics(run).valid = 0
<1>1. ValidReplays = {}
  BY DEF ValidReplays, GateOutcome
<1> QED
  BY <1>1, MetricsCount, FS_EmptySet

\* Comparing with a baseline tells an outage from a good run, and no difference from a
\* regression, whatever the margins of the baseline leave room for (gate_runner.py:259-270).
THEOREM BaselineAlwaysTells == RunnerSpec => []BaselineTells
<1>1. RunnerInv => OutageIsRegression
  <2> SUFFICES ASSUME RunnerInv, Compared, \A i \in DOMAIN run.raws : run.raws[i] = NoAnswer,
                      100 * baseline.valid > 5 * baseline.total
               PROVE  ci = "regression"
    BY DEF OutageIsRegression
  <2>1. /\ baseline \in FrozenMetrics /\ RunSound /\ run # NoRun
        /\ ci = IF Regresses(Metrics(run), baseline) THEN "regression" ELSE "ok"
    BY DEF RunnerInv, Compared, ComparedNow, Finished
  <2>2. baseline.valid \in Nat /\ baseline.total \in Nat \ {0}
    BY <2>1 DEF FrozenMetrics
  <2>3. Metrics(run).valid = 0 /\ Metrics(run).total \in Nat \ {0}
    BY <2>1, OutageHasNoneValid, MetricsCount, TotalIsPositive
  <2>4. Exceeds(baseline.valid, baseline.total, 0, Metrics(run).total, 5)
    BY <2>2, <2>3, ShareLost
  <2> QED
    BY <2>1, <2>3, <2>4 DEF Regresses
<1>2. RunnerInv => OwnBaselineHolds
  <2> SUFFICES ASSUME RunnerInv, Compared, Guarded(Metrics(run)) = baseline
               PROVE  ci = "ok"
    BY DEF OwnBaselineHolds
  <2>1. /\ baseline \in FrozenMetrics
        /\ ci = IF Regresses(Metrics(run), baseline) THEN "regression" ELSE "ok"
    BY DEF RunnerInv, Compared, ComparedNow, Finished
  <2>2. /\ baseline.valid \in Nat /\ baseline.total \in Nat /\ baseline.false_pass \in Nat
        /\ baseline.flips \in Nat /\ baseline.cases \in Nat
    BY <2>1 DEF FrozenMetrics
  <2> DEFINE m == Metrics(run)
  <2>3. /\ m.false_pass = baseline.false_pass /\ m.flips = baseline.flips
        /\ m.valid = baseline.valid /\ m.total = baseline.total /\ m.cases = baseline.cases
    BY DEF Guarded
  <2>4. ~ Regresses(m, baseline)
    BY <2>2, <2>3, NothingExceedsItself DEF Regresses
  <2> QED
    BY <2>1, <2>4
<1> QED
  BY <1>1, <1>2, RunnerInvariant, PTL DEF BaselineTells

\* The replays of a case are replays of the run, and of that case.
LEMMA ReplaysOfCase ==
  ASSUME NEW n \in Nat, NEW c \in 1 .. n, NEW i \in ReplaysOf(c)
  PROVE  i \in 1 .. n * Replays /\ (i - 1) \div Replays + 1 = c
<1> USE RunnerAssumption
<1> DEFINE k == i - 1 - (c - 1) * Replays
<1>1. i \in Int /\ (c - 1) * Replays + 1 <= i /\ i <= c * Replays
  BY DEF ReplaysOf
<1>2. c * Replays = (c - 1) * Replays + Replays
  OBVIOUS
<1>3. (c - 1) * Replays \in Nat
  OBVIOUS
<1>4. c * Replays <= n * Replays
  <2>1. (n - c) * Replays \in Nat
    OBVIOUS
  <2>2. (n - c) * Replays = n * Replays - c * Replays
    OBVIOUS
  <2> QED
    BY <2>1, <2>2
<1>5. k \in 0 .. Replays - 1 /\ i - 1 = (c - 1) * Replays + k
  BY <1>1, <1>2, <1>3
<1>6. (i - 1) \div Replays = c - 1
  <2> HIDE DEF k
  <2>1. ((c - 1) * Replays + k) \div Replays = c - 1
    BY <1>5
  <2> QED
    BY <1>5, <2>1
<1>7. n * Replays \in Nat
  OBVIOUS
<1> QED
  BY <1>1, <1>3, <1>4, <1>6, <1>7

\* When all replays are right, they are right one by one.
LEMMA AllRight ==
  ASSUME RunSound, Finished(run), Metrics(run).ok = Total(run)
  PROVE  \A i \in 1 .. Total(run) : Allows(run, i)
<1>1. run # NoRun /\ Len(run.raws) = Total(run) /\ run.raws \in Seq(JudgeRaws \cup {NoAnswer})
  BY DEF Finished, RunSound, RunRecord
<1>2. DOMAIN run.raws = 1 .. Total(run) /\ Total(run) \in Nat
  BY <1>1
<1>3. IsFiniteSet(1 .. Total(run)) /\ Cardinality(1 .. Total(run)) = Total(run)
  BY <1>2, FS_Interval
<1>4. RightReplays \subseteq 1 .. Total(run) /\ Cardinality(RightReplays) = Total(run)
  BY <1>2, MetricsCount DEF RightReplays
<1>5. RightReplays = 1 .. Total(run)
  BY <1>3, <1>4, FS_Subset
<1> QED
  BY <1>5 DEF RightReplays

LEMMA AccurateRunIsStable == RunnerInv => AccurateIsStable
<1> SUFFICES ASSUME RunnerInv, Finished(run), Metrics(run).ok = Total(run),
                    \A c \in DOMAIN run.suite :
                      "pass" \in run.suite[c].allowed => run.suite[c].allowed = {"pass"}
             PROVE  Metrics(run).flips = 0
  BY DEF AccurateIsStable
<1>1. RunSound /\ run # NoRun
  BY DEF RunnerInv, Finished
<1>2. \A i \in 1 .. Total(run) : Allows(run, i)
  BY <1>1, AllRight
<1>3. run.suite \in Seq(EvalCase)
  BY <1>1, RunnerAssumption DEF RunSound, RunRecord
<1>4. ASSUME NEW c \in DOMAIN run.suite PROVE ~ Flipped(run, c)
  <2>1. Len(run.suite) \in Nat /\ c \in 1 .. Len(run.suite)
    BY <1>3
  <2>2. ASSUME NEW i \in ReplaysOf(c) PROVE VerdictAt(run, i) \in run.suite[c].allowed
    <3>1. i \in 1 .. Total(run) /\ CaseOf(run, i) = run.suite[c]
      BY <2>1, ReplaysOfCase DEF Total, CaseOf
    <3> QED
      BY <1>2, <3>1 DEF Allows
  <2>3. CASE "pass" \in run.suite[c].allowed
    BY <2>2, <2>3 DEF Flipped
  <2>4. CASE "pass" \notin run.suite[c].allowed
    BY <2>2, <2>4 DEF Flipped
  <2> QED
    BY <2>3, <2>4
<1>5. FlippedCases = {}
  BY <1>4 DEF FlippedCases
<1> QED
  BY <1>5, MetricsCount, FS_EmptySet

\* A valid verdict has no failure shape, and one that is not valid has one, but for what
\* goes unnamed.
LEMMA ShapesOfSchema ==
  ASSUME NEW raw \in Raw \cup {NoAnswer}
  PROVE  /\ GateOutcome(raw) = "valid" => FailureShapes(raw) = {}
         /\ GateOutcome(raw) # "valid" =>
              \/ FailureShapes(raw) # {}
              \/ raw.score = Null \/ raw.next_hint_level = Null
              \/ ~ raw.hint_ok \/ raw.lists = "malformed"
<1>1. CASE raw = NoAnswer
  BY <1>1 DEF GateOutcome, FailureShapes
<1>2. CASE raw # NoAnswer
  <2>1. raw.lists \in {"strings", "benign", "malformed"} /\ raw.hint_ok \in BOOLEAN /\ raw.extra \in BOOLEAN
    BY <1>2 DEF Raw
  <2>2. GateOutcome(raw) = "valid" <=> Validates(raw)
    BY <1>2 DEF GateOutcome
  <2>3. ASSUME Validates(raw) PROVE FailureShapes(raw) = {}
    BY <1>2, <2>3 DEF FailureShapes, Validates, MAX_HINT_LEVEL
  <2>4. ASSUME ~ Validates(raw), raw.score # Null, raw.next_hint_level # Null,
               raw.hint_ok, raw.lists # "malformed"
        PROVE  FailureShapes(raw) # {}
    <3>1. \/ raw.verdict \notin Verdict
          \/ raw.score \notin SCORE_VALUES \cup {Absent, Null}
          \/ raw.next_hint_level \notin 0 .. 3 \cup {Absent, Null}
          \/ raw.lists = "benign" \/ raw.extra
      BY <2>1, <2>4 DEF Validates, MAX_HINT_LEVEL
    <3>2. CASE raw.verdict \notin Verdict
      <4>1. "verdict" \in FailureShapes(raw)
        BY <1>2, <3>2 DEF FailureShapes
      <4> QED
        BY <4>1
    <3>3. CASE raw.score \notin SCORE_VALUES \cup {Absent, Null}
      <4>1. "score" \in FailureShapes(raw)
        BY <1>2, <3>3 DEF FailureShapes
      <4> QED
        BY <4>1
    <3>4. CASE raw.next_hint_level \notin 0 .. 3 \cup {Absent, Null}
      <4>1. "hint_level" \in FailureShapes(raw)
        BY <1>2, <3>4 DEF FailureShapes
      <4> QED
        BY <4>1
    <3>5. CASE raw.lists = "benign"
      <4>1. "list_field" \in FailureShapes(raw)
        BY <1>2, <3>5 DEF FailureShapes
      <4> QED
        BY <4>1
    <3>6. CASE raw.extra
      <4>1. "extra_keys" \in FailureShapes(raw)
        BY <1>2, <3>6 DEF FailureShapes
      <4> QED
        BY <4>1
    <3> QED
      BY <3>1, <3>2, <3>3, <3>4, <3>5, <3>6
  <2> QED
    BY <2>2, <2>3, <2>4
<1> QED
  BY <1>1, <1>2

\* What the report says of a run is about the learner's fate and about the schema: a run
\* that is right in every replay has no flips, and the histogram of failure shapes names
\* what the schema refused (gate_runner.py:113-204).
THEOREM ReportAlwaysTells == RunnerSpec => []ReportTells
<1>1. RunnerInv => ShapesMatchSchema
  <2> SUFFICES ASSUME RunnerInv, run # NoRun, NEW i \in DOMAIN run.raws
               PROVE  run.raws[i] \in Raw \cup {NoAnswer}
    BY ShapesOfSchema DEF ShapesMatchSchema
  <2>1. run.raws \in Seq(JudgeRaws \cup {NoAnswer})
    BY DEF RunnerInv, RunSound, RunRecord
  <2>2. run.raws[i] \in JudgeRaws \cup {NoAnswer}
    BY <2>1
  <2> QED
    BY <2>2, RunnerAssumption
<1> QED
  BY <1>1, AccurateRunIsStable, RunnerInvariant, PTL DEF ReportTells

-------------------------------------------------------------------------------
(***************************************************************************)
(* The parts side by side, as they are checked.                            *)
(***************************************************************************)

\* Each part's behaviours are behaviours of its own specification: nothing another part
\* does changes its state.
THEOREM JudgePartsApart == JudgeSpec => PolicySpec /\ RunnerSpec
<1>1. [JudgeNext]_JudgeVars => [PolicyNext]_policyVars
  BY DEF JudgeNext, JudgeVars
<1>2. [JudgeNext]_JudgeVars => [RunnerNext]_runnerVars
  BY DEF JudgeNext, JudgeVars
<1>3. JudgeInit => PolicyInit /\ RunnerInit
  BY DEF JudgeInit
<1> QED
  BY <1>1, <1>2, <1>3, PTL DEF JudgeSpec, PolicySpec, RunnerSpec

\* Every variable of the routes' policy and of the regression test has its type: every
\* judgement is a verdict, and no replay counts twice.
THEOREM JudgeTypeCorrect == JudgeSpec => []JudgeTypeOK
  BY JudgePartsApart, PolicyTypeCorrect, RunnerTypeCorrect, PTL DEF JudgeTypeOK

-------------------------------------------------------------------------------
(***************************************************************************)
(* Cases and probes.  The inductive invariant says that the transcript a   *)
(* turn has loaded ends where the log does: nothing is written meanwhile.  *)
(***************************************************************************)

\* The messages of the window that ends with message "last".
SeesUpTo(saw, last) ==
  \E from \in 1 .. last + 1 :
    /\ saw = [k \in 1 .. last - from + 1 |-> from + k - 1]
    /\ from = 1 \/ last - from + 1 = Window

LoadedTurn == [step : CaseStep, text : Text, saw : Seq(Nat)]

ProbesMade ==
  LET wanted == {p \in Passes \X {cases[n].case.step : n \in Passes} : Wanted(p[1], p[2])}
  IN  {[of |-> p[1], probe |-> Probe(p[1], p[2])] : p \in wanted}

MessagesInv ==
  /\ messages \in Seq(Message)
  /\ \A i \in AnswersOf(messages) : SeesUpTo(messages[i].saw, i - 1)
  /\ turn # NoTurnYet => turn \in LoadedTurn /\ SeesUpTo(turn.saw, Len(messages))

CasesAreExtracted ==
  cases # NoCases =>
    /\ turn = NoTurnYet
    /\ DOMAIN cases = AnswersOf(messages)
    /\ \A i \in DOMAIN cases : cases[i].case = Extracted(i)

CasesInv ==
  /\ MessagesInv
  /\ CasesAreExtracted
  /\ probes # {} => cases # NoCases /\ probes = ProbesMade

LEMMA CasesInitInv == CasesInit => CasesInv
  BY DEF CasesInit, CasesInv, MessagesInv, CasesAreExtracted, AnswersOf

LEMMA RecalledSees ==
  ASSUME messages \in Seq(Message)
  PROVE  Recalled \in Seq(Nat) /\ SeesUpTo(Recalled, Len(messages))
<1> USE CasesAssumption
<1> DEFINE last == Len(messages)
           from == IF last > Window THEN last - Window + 1 ELSE 1
<1>1. last \in Nat
  OBVIOUS
<1>2. from \in 1 .. last + 1 /\ (from = 1 \/ last - from + 1 = Window)
  BY <1>1
<1>3. Recalled = [k \in 1 .. last - from + 1 |-> from + k - 1]
  BY DEF Recalled
<1> HIDE DEF from, last
<1>4. last - from + 1 \in Nat
  BY <1>1, <1>2
<1>5. Recalled \in Seq(Nat)
  BY <1>1, <1>2, <1>3, <1>4
<1> QED
  BY <1>2, <1>3, <1>5 DEF SeesUpTo, last

\* A message more changes nothing before it.
LEMMA OneMoreMessage ==
  ASSUME messages \in Seq(Message), NEW m \in Message, messages' = Append(messages, m)
  PROVE  /\ messages' \in Seq(Message) /\ Len(messages) \in Nat
         /\ Len(messages') = Len(messages) + 1 /\ DOMAIN messages' = 1 .. Len(messages) + 1
         /\ DOMAIN messages = 1 .. Len(messages)
         /\ \A i \in 1 .. Len(messages) : messages'[i] = messages[i]
         /\ messages'[Len(messages) + 1] = m
  OBVIOUS

\* What an answer saw is said of it once for all.
LEMMA EarlierAnswersStay ==
  ASSUME MessagesInv, NEW m \in Message, messages' = Append(messages, m),
         NEW i \in 1 .. Len(messages), messages'[i].role = "user"
  PROVE  SeesUpTo(messages'[i].saw, i - 1)
<1>1. messages'[i] = messages[i] /\ DOMAIN messages = 1 .. Len(messages)
  BY OneMoreMessage DEF MessagesInv
<1>2. SeesUpTo(messages[i].saw, i - 1)
  BY <1>1 DEF MessagesInv, AnswersOf
<1> QED
  BY <1>1, <1>2

LEMMA LoadInv ==
  ASSUME CasesInv, NEW step \in CaseStep, NEW text \in Text, LoadTranscript(step, text)
  PROVE  CasesInv'
<1>1. messages' = messages /\ cases' = cases /\ probes' = probes /\ cases = NoCases
  BY DEF LoadTranscript
<1>2. turn' \in LoadedTurn /\ turn'.saw = Recalled /\ SeesUpTo(Recalled, Len(messages))
  BY RecalledSees DEF LoadTranscript, CasesInv, MessagesInv, LoadedTurn
<1>3. MessagesInv'
  BY <1>1, <1>2 DEF CasesInv, MessagesInv, SeesUpTo, AnswersOf
<1> QED
  BY <1>1, <1>3 DEF CasesInv, CasesAreExtracted

LEMMA AppendAnswerInv == ASSUME CasesInv, AppendAnswer PROVE CasesInv'
<1> DEFINE m == [role |-> "user", step |-> turn.step, text |-> turn.text, saw |-> turn.saw]
<1>1. turn \in LoadedTurn /\ SeesUpTo(turn.saw, Len(messages))
  BY DEF AppendAnswer, CasesInv, MessagesInv
<1>2. m \in Message /\ m.saw = turn.saw
  BY <1>1 DEF LoadedTurn, Message
<1>3. messages' = Append(messages, m) /\ turn' = NoTurnYet /\ cases' = cases /\ probes' = probes
  BY DEF AppendAnswer
<1> HIDE DEF m
<1>4. /\ messages' \in Seq(Message) /\ Len(messages) \in Nat /\ DOMAIN messages' = 1 .. Len(messages) + 1
      /\ messages'[Len(messages) + 1] = m
  BY <1>2, <1>3, OneMoreMessage DEF CasesInv, MessagesInv
<1>5. ASSUME NEW i \in 1 .. Len(messages) + 1, messages'[i].role = "user"
      PROVE  SeesUpTo(messages'[i].saw, i - 1)
  <2>1. CASE i \in 1 .. Len(messages)
    BY <1>2, <1>3, <1>5, <2>1, EarlierAnswersStay DEF CasesInv
  <2>2. CASE i = Len(messages) + 1
    <3>1. i - 1 = Len(messages) /\ messages'[i].saw = turn.saw
      BY <1>2, <1>4, <2>2
    <3> QED
      BY <1>1, <3>1
  <2> QED
    BY <1>4, <2>1, <2>2
<1>6. MessagesInv'
  <2>1. \A i \in AnswersOf(messages') : SeesUpTo(messages'[i].saw, i - 1)
    BY <1>4, <1>5 DEF AnswersOf
  <2> QED
    BY <1>3, <1>4, <2>1 DEF MessagesInv, SeesUpTo
<1>7. cases = NoCases
  BY DEF AppendAnswer, CasesInv, CasesAreExtracted
<1> QED
  BY <1>3, <1>6, <1>7 DEF CasesInv, CasesAreExtracted

LEMMA AppendReplyInv == ASSUME CasesInv, AppendReply PROVE CasesInv'
<1>1. PICK j \in AnswersOf(messages) :
        messages' = Append(messages, [messages[j] EXCEPT !.role = "coach", !.saw = <<>>])
  BY DEF AppendReply
<1>2. messages[j] \in Message
  BY DEF CasesInv, MessagesInv, AnswersOf
<1>3. PICK m : m = [messages[j] EXCEPT !.role = "coach", !.saw = <<>>]
  OBVIOUS
<1>4. m \in Message /\ m.role = "coach"
  <2>1. m = [role |-> "coach", step |-> messages[j].step, text |-> messages[j].text, saw |-> <<>>]
    BY <1>2, <1>3 DEF Message
  <2>2. <<>> \in Seq(Nat)
    OBVIOUS
  <2>3. messages[j].step \in CaseStep /\ messages[j].text \in Text
    BY <1>2 DEF Message
  <2> QED
    BY <2>1, <2>2, <2>3 DEF Message
<1>5. /\ messages' = Append(messages, m) /\ cases' = cases /\ probes' = probes
      /\ turn' = NoTurnYet /\ cases = NoCases
  BY <1>1, <1>3 DEF AppendReply
<1>6. /\ messages' \in Seq(Message) /\ Len(messages) \in Nat /\ DOMAIN messages' = 1 .. Len(messages) + 1
      /\ messages'[Len(messages) + 1] = m
  BY <1>4, <1>5, OneMoreMessage DEF CasesInv, MessagesInv
<1>7. ASSUME NEW i \in 1 .. Len(messages) + 1, messages'[i].role = "user"
      PROVE  SeesUpTo(messages'[i].saw, i - 1)
  <2>1. i \in 1 .. Len(messages)
    BY <1>4, <1>6, <1>7
  <2> QED
    BY <1>4, <1>5, <1>7, <2>1, EarlierAnswersStay DEF CasesInv
<1>8. MessagesInv'
  <2>1. \A i \in AnswersOf(messages') : SeesUpTo(messages'[i].saw, i - 1)
    BY <1>6, <1>7 DEF AnswersOf
  <2> QED
    BY <1>5, <1>6, <2>1 DEF MessagesInv, SeesUpTo
<1> QED
  BY <1>5, <1>8 DEF CasesInv, CasesAreExtracted

LEMMA ExtractInv == ASSUME CasesInv, ExtractSession PROVE CasesInv'
<1>1. PICK label \in [AnswersOf(messages) -> {"pass", "other"}] :
        cases' = [i \in AnswersOf(messages) |-> [case |-> Extracted(i), label |-> label[i]]]
  BY DEF ExtractSession
<1>2. messages' = messages /\ turn' = turn /\ turn = NoTurnYet /\ probes' = probes /\ cases = NoCases
  BY DEF ExtractSession
<1>3. MessagesInv'
  BY <1>2 DEF CasesInv, MessagesInv, SeesUpTo, AnswersOf
<1>4. DOMAIN cases' = AnswersOf(messages') /\ \A i \in DOMAIN cases' : cases'[i].case = Extracted(i)'
  BY <1>1, <1>2 DEF Extracted, AnswersOf
<1> QED
  BY <1>2, <1>3, <1>4 DEF CasesInv, CasesAreExtracted

LEMMA SameMessages ==
  ASSUME CasesInv, UNCHANGED <<messages, turn, cases>>
  PROVE  MessagesInv' /\ CasesAreExtracted' /\ ProbesMade' = ProbesMade
<1>1. messages' = messages /\ turn' = turn /\ cases' = cases
  OBVIOUS
<1>2. MessagesInv'
  BY <1>1 DEF CasesInv, MessagesInv, SeesUpTo, AnswersOf
<1>3. CasesAreExtracted'
  BY <1>1 DEF CasesInv, CasesAreExtracted, AnswersOf, Extracted
<1>4. ProbesMade' = ProbesMade
  BY <1>1 DEF ProbesMade, Passes, Wanted, Probe, DonorOf
<1> QED
  BY <1>2, <1>3, <1>4

LEMMA CasesNextInv == CasesInv /\ [CasesNext]_caseVars => CasesInv'
<1> SUFFICES ASSUME CasesInv, [CasesNext]_caseVars PROVE CasesInv'
  OBVIOUS
<1>1. CASE MakeProbes
  <2>1. probes' = ProbesMade /\ cases # NoCases
    BY <1>1 DEF MakeProbes, ProbesMade
  <2> QED
    BY <1>1, <2>1, SameMessages DEF MakeProbes, CasesInv
<1>2. CASE NextSession
  BY <1>2 DEF NextSession, CasesInv, MessagesInv, CasesAreExtracted, AnswersOf
<1>3. CASE UNCHANGED caseVars
  BY <1>3, SameMessages DEF caseVars, CasesInv
<1> QED
  BY <1>1, <1>2, <1>3, LoadInv, AppendAnswerInv, AppendReplyInv, ExtractInv
  DEF CasesNext

THEOREM CasesInvariant == CasesSpec => []CasesInv
  BY CasesInitInv, CasesNextInv, PTL DEF CasesSpec

\* What TranscriptCoversSeen says of one transcript.
Covers(heard, saw) ==
  /\ \A m \in DOMAIN saw : \E k \in DOMAIN heard : heard[k] = saw[m]
  /\ \A k, l \in DOMAIN heard : \A m, n \in DOMAIN saw :
       heard[k] = saw[m] /\ heard[l] = saw[n] => (k < l <=> m < n)
  /\ \A k \in DOMAIN heard : (\A m \in DOMAIN saw : saw[m] # heard[k]) =>
       Len(saw) = Window /\ heard[k] < saw[1]

\* What the places before i hold beside a window that ends there.
LEMMA WindowCovered ==
  ASSUME NEW last \in Nat, NEW from \in 1 .. last + 1,
         from = 1 \/ last - from + 1 = Window,
         NEW saw, saw = [k \in 1 .. last - from + 1 |-> from + k - 1],
         NEW heard, heard = [k \in 1 .. last |-> k]
  PROVE  Covers(heard, saw)
<1> USE CasesAssumption
<1>1. /\ DOMAIN saw = 1 .. last - from + 1 /\ DOMAIN heard = 1 .. last
      /\ \A m \in DOMAIN saw : saw[m] = from + m - 1
      /\ \A k \in DOMAIN heard : heard[k] = k
  OBVIOUS
<1>2. ASSUME NEW m \in DOMAIN saw PROVE \E k \in DOMAIN heard : heard[k] = saw[m]
  <2>1. from + m - 1 \in DOMAIN heard
    BY <1>1
  <2> QED
    BY <1>1, <2>1
<1>3. ASSUME NEW k \in DOMAIN heard, NEW l \in DOMAIN heard, NEW m \in DOMAIN saw, NEW n \in DOMAIN saw,
             heard[k] = saw[m], heard[l] = saw[n]
      PROVE  k < l <=> m < n
  <2>1. k = from + m - 1 /\ l = from + n - 1
    BY <1>1, <1>3
  <2>2. m \in Nat /\ n \in Nat
    BY <1>1
  <2> QED
    BY <2>1, <2>2
<1>4. ASSUME NEW k \in DOMAIN heard, \A m \in DOMAIN saw : saw[m] # heard[k]
      PROVE  Len(saw) = Window /\ heard[k] < saw[1]
  <2>1. k \in 1 .. last /\ heard[k] = k
    BY <1>1
  <2>2. CASE k < from
    <3>1. last - from + 1 = Window
      BY <2>1, <2>2
    <3>2. 1 \in DOMAIN saw
      BY <1>1, <3>1
    <3>3. saw[1] = from
      BY <1>1, <3>2
    <3>4. Len(saw) = Window
      BY <1>1, <3>1
    <3> QED
      BY <2>1, <2>2, <3>3, <3>4
  <2>3. CASE k \in from .. last
    <3>1. k - from + 1 \in DOMAIN saw
      BY <1>1, <2>3
    <3>2. saw[k - from + 1] = k
      BY <1>1, <2>1, <3>1
    <3> QED
      BY <1>4, <2>1, <3>1, <3>2
  <2> QED
    BY <2>1, <2>2, <2>3
<1> QED
  BY <1>2, <1>3, <1>4 DEF Covers

LEMMA CaseCoversSeen ==
  ASSUME CasesInv, cases # NoCases, NEW i \in DOMAIN cases
  PROVE  Covers(cases[i].case.transcript, messages[i].saw)
<1>1. i \in AnswersOf(messages) /\ cases[i].case = Extracted(i) /\ messages \in Seq(Message)
  BY DEF CasesInv, CasesAreExtracted, MessagesInv
<1>2. i \in 1 .. Len(messages) /\ Len(messages) \in Nat
  BY <1>1 DEF AnswersOf
<1>3. PICK saw : saw = messages[i].saw
  OBVIOUS
<1>4. PICK heard : heard = cases[i].case.transcript
  OBVIOUS
<1>5. PICK last : last = i - 1
  OBVIOUS
<1>6. last \in Nat /\ heard = [k \in 1 .. last |-> k]
  BY <1>1, <1>2, <1>4, <1>5 DEF Extracted, Before
<1>7. SeesUpTo(saw, last)
  BY <1>1, <1>3, <1>5 DEF CasesInv, MessagesInv
<1>8. PICK from \in 1 .. last + 1 :
        /\ saw = [k \in 1 .. last - from + 1 |-> from + k - 1]
        /\ from = 1 \/ last - from + 1 = Window
  BY <1>7 DEF SeesUpTo
<1>9. Covers(heard, saw)
  BY <1>6, <1>8, WindowCovered
<1> QED
  BY <1>3, <1>4, <1>9

\* An extracted transcript holds all that the gate saw before the answer, in its order,
\* and beside it only what is older than the gate's window, whatever the window's size:
\* replies wait for the row that the turn holds (turn.py:68-107, extract.py:69-80).
THEOREM TranscriptsCoverSeen == CasesSpec => []TranscriptCoversSeen
<1>1. CasesInv => TranscriptCoversSeen
  BY CaseCoversSeen DEF TranscriptCoversSeen, Covers
<1> QED
  BY <1>1, CasesInvariant, PTL

\* Every nonempty set of places has a first one.
LEMMA FirstOfPlaces ==
  ASSUME NEW S \in SUBSET Nat, S # {}
  PROVE  \E o \in S : \A i \in S : o <= i
<1>1. PICK o \in S : \A i \in S : ~ (<<i, o>> \in OpToRel(<, Nat))
  BY NatLessThanWellFounded, WFMin, Zenon
<1>2. \A i \in S : ~ (i < o)
  BY <1>1 DEF OpToRel
<1> QED
  BY <1>2

LEMMA PassesAreCases ==
  ASSUME CasesInv, cases # NoCases
  PROVE  /\ Passes \in SUBSET Nat
         /\ \A n \in Passes : /\ cases[n].case = Extracted(n)
                              /\ cases[n].case.context = cases[n].case.step
<1>1. messages \in Seq(Message) /\ DOMAIN cases = AnswersOf(messages)
      /\ \A n \in DOMAIN cases : cases[n].case = Extracted(n)
  BY DEF CasesInv, MessagesInv, CasesAreExtracted
<1>2. Passes \subseteq DOMAIN cases
  BY DEF Passes
<1>3. DOMAIN cases \subseteq Nat
  BY <1>1 DEF AnswersOf
<1>4. ASSUME NEW n \in Passes PROVE cases[n].case.context = cases[n].case.step
  <2>1. cases[n].case = Extracted(n)
    BY <1>1, <1>2
  <2>2. Extracted(n).context = Extracted(n).step
    BY DEF Extracted
  <2> QED
    BY <2>1, <2>2
<1> QED
  BY <1>1, <1>2, <1>3, <1>4

\* A step that some case passed has a donor.
LEMMA DonorExists ==
  ASSUME CasesInv, cases # NoCases, NEW step, \E n \in Passes : cases[n].case.step = step
  PROVE  DonorOf(step) \in Passes /\ cases[DonorOf(step)].case.step = step
<1> DEFINE S == {n \in Passes : cases[n].case.step = step}
<1>1. S \in SUBSET Nat /\ S # {}
  BY PassesAreCases
<1>2. PICK o \in S : \A i \in S : o <= i
  BY <1>1, FirstOfPlaces
<1>3. o \in Passes /\ cases[o].case.step = step
      /\ \A m \in Passes : cases[m].case.step = step => o <= m
  BY <1>2
<1> QED
  BY <1>3 DEF DonorOf

LEMMA ProbeIs ==
  ASSUME CasesInv, cases # NoCases, NEW n \in Passes, NEW step,
         \E d \in Passes : cases[d].case.step = step
  PROVE  /\ Probe(n, step).step = step /\ Probe(n, step).answer = cases[n].case.answer
         /\ Probe(n, step).context = step
         /\ \E d \in Passes : cases[d].case.step = step
                              /\ cases[d].case.transcript = Probe(n, step).transcript
<1>1. PICK d \in Passes : d = DonorOf(step) /\ cases[d].case.step = step
  BY DonorExists
<1>2. cases[d].case = Extracted(d) /\ cases[d].case.context = step
  BY <1>1, PassesAreCases
<1>3. Probe(n, step) = [cases[d].case EXCEPT !.answer = cases[n].case.answer]
  BY <1>1 DEF Probe
<1>4. Probe(n, step) = [step |-> messages[d].step, answer |-> cases[n].case.answer,
                        transcript |-> Before(d), context |-> messages[d].step]
  BY <1>2, <1>3 DEF Extracted
<1>5. messages[d].step = step /\ cases[d].case.transcript = Before(d)
  BY <1>1, <1>2 DEF Extracted
<1>6. PICK probe : probe = Probe(n, step)
  OBVIOUS
<1>7. /\ probe.step = step /\ probe.answer = cases[n].case.answer
      /\ probe.context = step /\ probe.transcript = Before(d)
  BY <1>4, <1>5, <1>6
<1> QED
  BY <1>1, <1>5, <1>6, <1>7

LEMMA MadeProbeIs ==
  ASSUME CasesInv, cases # NoCases, NEW made \in ProbesMade
  PROVE  \E n \in Passes, step \in {cases[m].case.step : m \in Passes} :
           Wanted(n, step) /\ made = [of |-> n, probe |-> Probe(n, step)]
  BY DEF ProbesMade

LEMMA ProbesFit == CasesInv => ProbesFitTheirStep
<1> SUFFICES ASSUME CasesInv, NEW made \in probes
             PROVE  /\ made.probe.step # cases[made.of].case.step
                    /\ made.probe.answer = cases[made.of].case.answer
                    /\ made.probe.context = made.probe.step
                    /\ \E n \in Passes : cases[n].case.step = made.probe.step
                                         /\ cases[n].case.transcript = made.probe.transcript
  BY DEF ProbesFitTheirStep
<1>1. cases # NoCases /\ made \in ProbesMade
  BY DEF CasesInv
<1>2. PICK n \in Passes, step \in {cases[m].case.step : m \in Passes} :
        Wanted(n, step) /\ made = [of |-> n, probe |-> Probe(n, step)]
  BY <1>1, MadeProbeIs
<1>3. PICK probe : probe = Probe(n, step)
  OBVIOUS
<1>4. made.of = n /\ made.probe = probe
  BY <1>2, <1>3
<1>5. \E m \in Passes : cases[m].case.step = step
  OBVIOUS
<1>6. /\ probe.step = step /\ probe.answer = cases[n].case.answer /\ probe.context = step
      /\ \E d \in Passes : cases[d].case.step = step /\ cases[d].case.transcript = probe.transcript
  BY <1>1, <1>3, <1>5, ProbeIs
<1>7. step # cases[n].case.step
  BY <1>2 DEF Wanted
<1> QED
  BY <1>4, <1>6, <1>7

\* Of two answers with the same text, the later is wanted only where the earlier was asked.
LEMMA WantedOnce ==
  ASSUME NEW n \in Passes, NEW m \in Passes, NEW step, Wanted(n, step), Wanted(m, step),
         cases[n].case.answer = cases[m].case.answer, Passes \in SUBSET Nat
  PROVE  n = m
<1>1. ~ (n < m) /\ ~ (m < n)
  BY DEF Wanted
<1> QED
  BY <1>1

\* The first answer with a text that was not given at a step is wanted there.
LEMMA FirstIsWanted ==
  ASSUME CasesInv, cases # NoCases, NEW n \in Passes, NEW step, step # cases[n].case.step
  PROVE  \E o \in Passes : Wanted(o, step) /\ cases[o].case.answer = cases[n].case.answer
<1> DEFINE S == {p \in Passes : cases[p].case.answer = cases[n].case.answer
                               /\ cases[p].case.step # step}
<1>1. Passes \in SUBSET Nat
  BY PassesAreCases
<1>2. S \in SUBSET Nat /\ S # {}
  BY <1>1
<1>3. PICK o \in S : \A i \in S : o <= i
  BY <1>2, FirstOfPlaces
<1>4. ASSUME NEW p \in Passes, p < o, cases[p].case.answer = cases[o].case.answer
      PROVE  step = cases[p].case.step
  <2>1. p \in S => o <= p
    BY <1>3
  <2>2. p \notin S
    BY <1>1, <1>2, <1>4, <2>1
  <2> QED
    BY <1>3, <1>4, <2>2
<1> QED
  BY <1>3, <1>4 DEF Wanted

LEMMA ProbesOnce == CasesInv => ProbedOnce
<1> SUFFICES ASSUME CasesInv, probes # {} PROVE ProbedOnce
  BY DEF ProbedOnce
<1>1. cases # NoCases /\ probes = ProbesMade /\ Passes \in SUBSET Nat
  BY PassesAreCases DEF CasesInv
<1>2. ASSUME NEW made \in probes, NEW again \in probes,
             made.probe.answer = again.probe.answer, made.probe.step = again.probe.step
      PROVE  made = again
  <2>1. PICK n \in Passes, step \in {cases[m].case.step : m \in Passes} :
          Wanted(n, step) /\ made = [of |-> n, probe |-> Probe(n, step)]
    BY <1>1, MadeProbeIs
  <2>2. PICK m \in Passes, place \in {cases[l].case.step : l \in Passes} :
          Wanted(m, place) /\ again = [of |-> m, probe |-> Probe(m, place)]
    BY <1>1, MadeProbeIs
  <2>3. made.probe = Probe(n, step) /\ again.probe = Probe(m, place)
    BY <2>1, <2>2
  <2>4. Probe(n, step).step = step /\ Probe(n, step).answer = cases[n].case.answer
    BY <1>1, ProbeIs
  <2>5. Probe(m, place).step = place /\ Probe(m, place).answer = cases[m].case.answer
    BY <1>1, ProbeIs
  <2>6. step = place /\ cases[n].case.answer = cases[m].case.answer
    BY <1>2, <2>3, <2>4, <2>5
  <2>7. n = m
    BY <1>1, <2>1, <2>2, <2>6, WantedOnce
  <2> QED
    BY <2>1, <2>2, <2>6, <2>7
<1>3. ASSUME NEW n \in Passes, NEW m \in Passes, cases[n].case.step # cases[m].case.step
      PROVE  \E made \in probes : made.probe.answer = cases[n].case.answer
                                   /\ made.probe.step = cases[m].case.step
  <2>1. PICK step : step = cases[m].case.step
    OBVIOUS
  <2>2. PICK o \in Passes : Wanted(o, step) /\ cases[o].case.answer = cases[n].case.answer
    BY <1>1, <1>3, <2>1, FirstIsWanted
  <2>3. [of |-> o, probe |-> Probe(o, step)] \in ProbesMade
    <3>1. <<o, step>> \in {p \in Passes \X {cases[l].case.step : l \in Passes} : Wanted(p[1], p[2])}
      BY <2>1, <2>2
    <3>2. [of |-> o, probe |-> Probe(o, step)]
            = [of |-> <<o, step>>[1], probe |-> Probe(<<o, step>>[1], <<o, step>>[2])]
      OBVIOUS
    <3> QED
      BY <3>1, <3>2 DEF ProbesMade
  <2>4. Probe(o, step).step = step /\ Probe(o, step).answer = cases[o].case.answer
    BY <1>1, <2>1, ProbeIs
  <2> QED
    BY <1>1, <2>1, <2>2, <2>3, <2>4
<1> QED
  BY <1>2, <1>3 DEF ProbedOnce

\* A probe meets the gate as the probed step did, and no answer is probed twice at a
\* step however often it was submitted, nor left out where another step was passed
\* (extract.py:91-125).
THEOREM ProbesAreFairAlways == CasesSpec => []ProbesAreFair
<1>1. CasesInv => ProbesAreFair
  BY ProbesFit, ProbesOnce DEF ProbesAreFair
<1> QED
  BY <1>1, CasesInvariant, PTL
===============================================================================
