----------------------------- MODULE MCTurnPolicy -----------------------------
(* What is made of a judge's raw verdict: by the session routes, under a       *)
(* catalog of one model of each kind and one that a deployment retired, with   *)
(* raw verdicts that are off in one field, or in two; and by the gate's        *)
(* regression test, with two cases of two replays.  The two share no state.    *)
EXTENDS TurnPolicy, EvalRunner

OneTrack == [problem |-> <<"clarify", "test">>]
OneTrackSteps == {"clarify", "test"}

Keys == {"qwen-coach", "claude-sonnet", "or-glm", "or-old"}
Providers == [key \in Keys |-> CASE key = "qwen-coach" -> "ollama"
                                 [] key = "claude-sonnet" -> "anthropic"
                                 [] OTHER -> "openrouter"]
Defaults == [tier \in Tier |-> IF tier = "homelab" THEN "qwen-coach" ELSE "or-glm"]

\* The catalog as it ships, before it dropped a model, and with homelab local only.
Cloud == {"claude-sonnet", "or-glm"}
Catalogs == {[tier \in Tier |-> IF tier = "homelab" THEN Cloud \cup {"qwen-coach"} ELSE Cloud],
             [tier \in Tier |-> IF tier = "homelab" THEN Keys ELSE Keys \ {"qwen-coach"}],
             [tier \in Tier |-> IF tier = "homelab" THEN {"qwen-coach"} ELSE Cloud]}

AllDeployments ==
  {[force_byok |-> force, auth_enabled |-> TRUE, allowlisted |-> listed,
    has_server_key |-> key, has_local |-> backend, force_local |-> FALSE, catalog |-> shipped] :
      force \in {FALSE}, listed \in BOOLEAN, key \in BOOLEAN, backend \in BOOLEAN,
      shipped \in Catalogs}
  \cup {[force_byok |-> force, auth_enabled |-> FALSE, allowlisted |-> FALSE,
         has_server_key |-> TRUE, has_local |-> TRUE, force_local |-> ~ force,
         catalog |-> CHOOSE shipped \in Catalogs : TRUE] : force \in BOOLEAN}

Good(verdict) == [verdict |-> verdict, score |-> 80, next_hint_level |-> 1,
                  lists |-> "strings", hint_ok |-> TRUE, extra |-> FALSE]
Scores == {Absent, Null, Infinite, Other, -7, 45, 46, 95, 130}
Levels == {Null, Infinite, -1, 7}
Words == {"pass", "question", Absent, Other, Nested}
SomeRaws ==
  {[Good("pass") EXCEPT !.score = score] : score \in Scores}
    \cup {[Good(word) EXCEPT !.score = score] : word \in Words, score \in {46, 100}}
    \cup {[Good("pass") EXCEPT !.next_hint_level = level] : level \in Levels}
    \cup {[Good("pass") EXCEPT !.lists = lists, !.hint_ok = ok, !.extra = extra] :
            lists \in {"benign", "malformed"}, ok \in BOOLEAN, extra \in BOOLEAN}

Label(allowed) == [allowed |-> allowed]
NeverPass == Label(Verdict \ {"pass"})
SomeSuites == {<<Label({"pass"}), NeverPass>>, <<Label({"pass", "retry"})>>, <<NeverPass, Label({})>>}
SomeJudgeRaws ==
  {Good("pass"), Good("question"), [Good("pass") EXCEPT !.score = 46],
   [Good("pass") EXCEPT !.extra = TRUE], [Good("pass") EXCEPT !.verdict = Nested]}

VARIABLE part

JudgeVars == <<policyVars, runnerVars, part>>

JudgeInit ==
  /\ PolicyInit /\ RunnerInit
  /\ \/ part = "routes"
     \/ part = "evals" /\ deployment = CHOOSE d \in Deployments : TRUE

JudgeNext ==
  /\ part' = part
  /\ \/ part = "routes" /\ PolicyNext /\ UNCHANGED runnerVars
     \/ part = "evals" /\ RunnerNext /\ UNCHANGED policyVars

JudgeSpec == JudgeInit /\ [][JudgeNext]_JudgeVars

\* The type invariants of the two parts.
JudgeTypeOK == PolicyTypeOK /\ RunnerTypeOK
===============================================================================
