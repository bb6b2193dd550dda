---------------------------- MODULE MCTurnService ----------------------------
(* Instances of TurnService: two-step ladders, one or two problems, two to   *)
(* four requests.  Each cfg picks what each request may ask.                 *)
EXTENDS TurnService

CONSTANTS r1, r2, r3, r4, p1, p2, t1, t2, t3

OneTrack == [problem |-> <<"clarify", "test">>]
OneTrackSteps == {"clarify", "test"}
OneStep == [problem |-> <<"clarify">>]
OneStepSteps == {"clarify"}

Pass == [verdict |-> "pass", score |-> 80, next_hint_level |-> 0]
Again == [verdict |-> "retry", score |-> 30, next_hint_level |-> 2]
Asked == [verdict |-> "question", score |-> 0, next_hint_level |-> 0]
PassOrRetry == {Pass, Again}
AllKinds == {Pass, Again, Asked}
PassOnly == {Pass}
RetryOnly == {Again}

Seed(p, b) == [problem |-> p, track |-> "problem", byok |-> b]
OneServerSession == {<<Seed(p1, FALSE)>>}
OneByokSession == {<<Seed(p1, TRUE)>>}
OneSession == OneServerSession \cup OneByokSession
TwoSessions == {<<Seed(p1, FALSE), Seed(p2, FALSE)>>}
NothingYet == {<<>>}
AnyStart == NothingYet \cup OneSession

CreateOf(ps, bs) == {[op |-> "create", problem |-> p, track |-> "problem", byok |-> b] : p \in ps, b \in bs}
TurnOf(ss, turns) == [op : {"turn"}, sid : ss, step : Step, turn : turns]
ByokOf(ss, turns) == [op : {"byok"}, sid : ss, step : Step, turn : turns]
ModelOf(ss) == [op : {"model"}, sid : ss, byok : BOOLEAN]
ResetOf(ss) == [op : {"reset"}, sid : ss]
ClearAll == {[op |-> "clear"]}
Purge == {[op |-> "purge"]}

Offer3(a, b, c) == [r \in {r1, r2, r3} |-> IF r = r1 THEN a ELSE IF r = r2 THEN b ELSE c]
Offer2(a, b) == [r \in {r1, r2} |-> IF r = r1 THEN a ELSE b]

\* Three submissions to one server-judged session, two of them of the same turn.
DoubleSubmit == Offer3(TurnOf({1}, {t1}), TurnOf({1}, {t1, t2}), TurnOf({1}, {t2}))
\* A turn, a model switch, and a turn on either path or the purge.
Switching == Offer3(TurnOf({1}, {t1}), ModelOf({1, 2}),
                    TurnOf({1}, {t2}) \cup ByokOf({1}, {t1, t2}) \cup Purge)
\* A learner on their own key.
OwnKey == Offer3(CreateOf({p1, p2}, {TRUE}) \cup ByokOf({1}, {t1}), ByokOf({1}, {t1, NoTurn}),
                 ByokOf({1, 2}, {t1, t2}))
\* Turns, and everything that inserts or deletes an active row, against each other.
StartOvers == Offer3(TurnOf({1}, {t1}) \cup CreateOf({p1}, {FALSE}) \cup ResetOf({2}),
                     TurnOf({1}, {t1, t2}) \cup ResetOf({1}),
                     CreateOf({p1}, {TRUE}) \cup ResetOf({1, 2}) \cup ClearAll)

\* The small instances that show where the code and its documentation part.
CreateDuringReset == Offer3(ByokOf({1}, {t1}), ResetOf({1}), CreateOf({p1}, {FALSE}))
SameTurnTwice == Offer2(TurnOf({1}, {t1}), TurnOf({1}, {t1}))
TurnAndStartOver == Offer3(TurnOf({1}, {t1}), ResetOf({1}), ModelOf({2}))
TurnThenByok == Offer3(TurnOf({1}, {t1}), ModelOf({1}), ByokOf({1}, {t2}))
FirstStepTurns(turns) == [op : {"turn"}, sid : {1}, step : {"clarify"}, turn : turns]
FourWriters ==
  [r \in {r1, r2, r3, r4} |->
     IF r = r2 THEN {[op |-> "model", sid |-> 1, byok |-> FALSE]}
     ELSE FirstStepTurns(IF r = r1 THEN {t1} ELSE IF r = r3 THEN {t2} ELSE {t3})]
===============================================================================
