------------------------------ MODULE TurnPolicy ------------------------------
(***************************************************************************)
(* What the session routes (tutor/routes/sessions.py) decide beside the    *)
(* progress of a session: which model coaches it, who pays, and what the   *)
(* judge's raw verdict comes to -- over the life of one learner's session  *)
(* on one problem, across redeployments.  Requests come one at a time:     *)
(* their interleavings are TurnService's, but for the one that matters     *)
(* here, that a turn may be admitted by one session and judged on another. *)
(* Every request finds the step and the quotas in order: so are those.     *)
(***************************************************************************)
EXTENDS CoachModels, GateRepair

CONSTANTS
  RawVerdicts,  \* the raw verdicts a judge may give, beside NotObject and NoAnswer
  NoSession

PolicyRow == [model : ModelKey \cup {NoKey}, byok : BOOLEAN]

ASSUME PolicyAssumption == RawVerdicts \subseteq Raw /\ NoSession \notin PolicyRow

VARIABLES
  deployment,  \* the deployment that is running
  session,     \* coach_model and byok of the session, or NoSession
  offered,     \* the model was picked from those this deployment offers
  answer       \* what the last request came to

policyVars == <<deployment, session, offered, answer>>

\* A request's outcome: its status; how the coach call is funded; the model a bundle
\* hands to the browser; the raw verdict judged and what it was judged as.
Outcome ==
  [status : {"none", "200", "403", "404", "422", "500", "503"},
   mode : CredentialMode \cup {"none"}, model : ModelKey \cup {NoKey},
   raw : RawVerdicts \cup {NotObject, NoAnswer},
   verdict : GateVerdict \cup {Broken}]

Plain(status) ==
  [status |-> status, mode |-> "none", model |-> NoKey, raw |-> NoAnswer, verdict |-> FailSafe]

Judged(status, mode, raw, verdict) ==
  [status |-> status, mode |-> mode, model |-> NoKey, raw |-> raw, verdict |-> verdict]

Answers(outcome) == answer' = outcome

Raws == RawVerdicts \cup {NotObject, NoAnswer}

PolicyInit ==
  /\ deployment \in Deployments
  /\ session = NoSession
  /\ offered = FALSE
  /\ answer = Plain("none")

TierNow == TierFor(deployment)

\* A transport that follows the tier.
PinnedByTier(key) == [model |-> key, byok |-> TierNow = "byok"]

\* The transport follows the model's provider, not the tier.
Pinned(key) == [model |-> key, byok |-> ~ IsLocal(key)]

\* POST /sessions; a session there is is resumed, and the model ignored.
Create(requested) ==
  IF NotAllowed(deployment, requested, TierNow)
  THEN Answers(Plain("422")) /\ UNCHANGED <<session, offered>>
  ELSE /\ Answers(Plain("200"))
       /\ IF session # NoSession THEN UNCHANGED <<session, offered>>
          ELSE /\ session' = Pinned(ValidChoice(requested, TierNow))
               /\ offered' = (requested # NoKey)

\* A switch that keeps the transport.
SwitchKey(key) == [session EXCEPT !.model = key]

\* set_coach_model: the key and the transport together.
SwitchModel(key) == Pinned(key)

\* POST /sessions/{id}/model
ChangeModel(requested) ==
  IF NotAllowed(deployment, requested, TierNow)
  THEN Answers(Plain("422")) /\ UNCHANGED <<session, offered>>
  ELSE IF session = NoSession THEN Answers(Plain("404")) /\ UNCHANGED <<session, offered>>
  ELSE /\ Answers(Plain("200"))
       /\ session' = SwitchModel(ValidChoice(requested, TierNow))
       /\ offered' = (requested # NoKey)

\* POST /sessions/{id}/reset: the model is carried over if the deployment still offers
\* it, and is the tier's default if not.
Reset ==
  IF session = NoSession THEN Answers(Plain("404")) /\ UNCHANGED <<session, offered>>
  ELSE LET kept == ~ NotAllowed(deployment, session.model, TierNow)
       IN  /\ Answers(Plain("200"))
           /\ session' = Pinned(IF kept THEN ValidChoice(session.model, TierNow)
                                ELSE DefaultModel(TierNow))
           /\ offered' = (kept /\ session.model # NoKey)

\* A session goes: clear-all, or the purge.
Remove ==
  /\ Answers(Plain("200"))
  /\ session' = NoSession
  /\ offered' = FALSE

\* The session apply_turn creates when the one it was sent to is gone by then: no
\* model is stored, and the turn is judged by the server.
Recreated == [model |-> NoKey, byok |-> FALSE]

\* Sessions that a turn may find where it is not sent: begun since the one it was sent to
\* was reset or cleared, or after that was completed, with a model that was ever offered.
OtherSessions ==
  {Pinned(key) : key \in {k \in ModelKey : \E d \in Deployments : InCatalog(d, k)}}

\* POST /sessions/{id}/turns: admitted by the session it is sent to; judged, by the
\* server's gate model, on the one it then finds active, and coached by the model of that
\* one.  Anything but a funded or local coach is a 503, after the turn counted.
Turn(raw, found) ==
  IF session = NoSession THEN Answers(Plain("404")) /\ UNCHANGED <<session, offered>>
  ELSE IF session.byok THEN Answers(Plain("403")) /\ UNCHANGED <<session, offered>>
  ELSE LET verdict == Evaluate(raw)
           row     == IF found = NoSession THEN Recreated ELSE found
           mode    == ResolveCoach(deployment, row.model)
       IN  /\ offered' = (offered /\ found = session)
           /\ IF verdict = Broken
              THEN /\ Answers(Judged("500", "none", raw, verdict))
                   /\ session' = found
              ELSE /\ Answers(Judged(IF mode \in {"server_key", "local"} THEN "200" ELSE "503",
                                     mode, raw, verdict))
                   /\ session' = row

\* A bundle whose fallback is the default of the caller's tier.
BundleModelByTier(key) == IF InCatalog(deployment, key) THEN key ELSE DefaultModel(TierNow)

\* The model of a prompt bundle.
BundleModel(key) == IF InCatalog(deployment, key) THEN key ELSE DefaultModel("byok")

\* GET /sessions/{id}/prompt-bundle
PromptBundle ==
  /\ Answers(IF session = NoSession THEN Plain("404")
             ELSE IF ~ session.byok THEN Plain("403")
             ELSE [Plain("200") EXCEPT !.mode = "client_direct", !.model = BundleModel(session.model)])
  /\ UNCHANGED <<session, offered>>

\* POST /sessions/{id}/turns/byok-record: the verdict is validated before the session
\* is looked at.  (Of the numbers int() cannot take, NaN is answered 422.)
ByokRecord(raw) ==
  LET verdict == ValidateClientVerdict(raw)
  IN  /\ Answers(IF verdict = Rejected THEN Plain("422")
                 ELSE IF verdict = Broken THEN Judged("500", "none", raw, verdict)
                 ELSE IF session = NoSession THEN Plain("404")
                 ELSE IF ~ session.byok THEN Plain("403")
                 ELSE Judged("200", "client_direct", raw, verdict))
      /\ UNCHANGED <<session, offered>>

\* The service comes up with other settings, or another catalog; or the learner's
\* place on the allowlist changed with them.
Redeploy ==
  /\ deployment' \in Deployments
  /\ Answers(Plain("none"))
  /\ offered' = FALSE
  /\ UNCHANGED session

PolicyRequest ==
  \/ \E key \in ModelKey \cup {NoKey} : Create(key) \/ ChangeModel(key)
  \/ Reset
  \/ Remove
  \/ \E raw \in Raws, found \in {session, NoSession} \cup OtherSessions : Turn(raw, found)
  \/ PromptBundle
  \/ \E raw \in RawVerdicts \cup {NotObject} : ByokRecord(raw)

PolicyNext ==
  \/ PolicyRequest /\ UNCHANGED deployment
  \/ Redeploy

PolicySpec == PolicyInit /\ [][PolicyNext]_policyVars

-------------------------------------------------------------------------------
(***************************************************************************)
(* Correctness.                                                            *)
(***************************************************************************)

\* Every variable has its type.
PolicyTypeOK ==
  /\ deployment \in Deployments
  /\ session \in PolicyRow \cup {NoSession}
  /\ offered \in BOOLEAN
  /\ answer \in Outcome

\* A session is client-direct exactly when its model is not the local one, whatever
\* was redeployed, switched, reset or created lazily since (sessions.py:213-216).
TransportFollowsProvider ==
  session # NoSession =>
    (session.byok <=> session.model # NoKey /\ ~ IsLocal(session.model))

\* How far the catalog's word on the server's key holds, that a homelab caller's cloud pick
\* "never spends the server key" (catalog.py:57-60) and "never reaches resolve_coach at
\* all" (test_catalog.py:168-171): it is spent on the coach only of a homelab caller, and
\* only of a client-direct session -- which admits no turn, so it is the turn of another
\* session that found it; never of the session that a turn was sent to, whatever that was
\* created under, switched to or carried over by a reset (catalog.py:202-237 with
\* sessions.py:374 and 446-454).
ServerKeySpentAstray ==
  answer.mode = "server_key" => TierNow = "homelab" /\ session # NoSession /\ session.byok

\* A model that was offered and picked works until the next deployment: its turns
\* find a coach, or are the browser's (catalog.py:160-161: "we never offer a model
\* that would fail at turn time").
OfferHolds ==
  offered => session.byok \/ ResolveCoach(deployment, session.model) = "local"

\* A prompt bundle names a model the browser can call -- a cloud one, of the running
\* catalog -- also when the stored one was retired (sessions.py:551-553).
BundleIsCallable ==
  answer.model # NoKey => ~ IsLocal(answer.model) /\ InCatalog(deployment, answer.model)

\* Progress is granted by no repair: what is judged a pass is what the judge itself
\* called a pass (gate.py:1-7).
NeverGrants ==
  answer.verdict # Broken /\ answer.verdict.verdict = "pass" =>
    answer.raw \notin {NotObject, NoAnswer} /\ answer.raw.verdict = "pass"

\* A repaired score is the judge's, to the nearest ten, ties down, and 0 to 100 at the
\* ends; what has no number for a score, and the fail-safe, is 0 (gate.py:155-157).
ScoreAsMeant ==
  LET score == answer.verdict.score
      meant == answer.raw.score
  IN  answer.verdict # Broken =>
        IF answer.verdict = FailSafe \/ meant \notin Int THEN score = 0
        ELSE IF meant < 0 THEN score = 0
        ELSE IF meant > 100 THEN score = 100
        ELSE score - meant \in -5 .. 4
===============================================================================
