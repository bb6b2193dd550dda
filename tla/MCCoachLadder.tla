---------------------------- MODULE MCCoachLadder ----------------------------
(* Three systems that share no state, one of them per behaviour: one learner *)
(* on each shipped ladder shape, judged by every verdict that the state      *)
(* machine can tell apart, with requests that put the lesson before a model; *)
(* the grounding server, which holds the lessons; and the sessions that the  *)
(* cases of the gate's regression test are taken from.                       *)
EXTENDS Withholding, GroundingServer, EvalCases

CONSTANTS t1, x1, x2

VARIABLE part  \* the system that runs; the others stay in one state of theirs

MCVerdicts ==
  {[verdict |-> v, score |-> 70, next_hint_level |-> h] :
     v \in {"pass", "retry"}, h \in {0, 3}}
    \cup {[verdict |-> "question", score |-> 0, next_hint_level |-> 3]}

MCSid == {1}
MCSolutionSteps == {"implement", "test"}
MCText == {x1, x2}

MCTerm == {"graph", "hash", "heap", "sum", "why"}
\* "Izmir" has a dot above its first letter: it is lowered to "i" and a mark.
Words == <<"_drafts", "arrays", "dsa", "examples", "index", "intro", "Izmir", "problems",
           "prose", "two sum", "two-sum", "v1.2", "why">>
MCWord == {Words[i] : i \in DOMAIN Words} \cup {""}
\* A directory with a name comes before the file; "3.md" comes after "3-intro.md".
MCAlphabet == <<<<"", TRUE>>>>
  \o [i \in 1 .. 2 * Len(Words) |-> <<Words[(i + 1) \div 2], i % 2 = 1>>] \o <<<<"", FALSE>>>>
MCSlugified == [w \in MCWord |-> CASE w = "two sum" -> "two-sum" [] w = "v1.2" -> "v1-2"
                                  [] w = "Izmir" -> "i~zmir" [] OTHER -> w]
MCSlugLike == MCWord \ {"two sum", "v1.2"}
MCHumanised == [w \in MCWord |-> {w} \cap MCTerm]
MCHidden == {"_drafts"}
MCBookOrder == [w \in MCWord |-> IF w = "prose" THEN 3 ELSE NoNumber]

Plain(word) == [num |-> NoNumber, word |-> word]
No(n, word) == [num |-> n, word |-> word]
Dsa == Plain("dsa")
Prose == Plain("prose")
Md(path, given, body, size) ==
  [path |-> path, md |-> TRUE, given |-> given, summary |-> {}, body |-> body, heading |-> {}, size |-> size]

\* Sections, a hidden one, an asset one, one that is no slug; a number alone, which
\* leaves no segment and so gives a second chapter the id of the first.
Tree == {
  Md(<<Dsa, No(2, "arrays"), Plain("index")>>, {"sum"}, <<"graph">>, 1),
  Md(<<Dsa, No(2, "arrays"), Plain("problems"), No(10, "two sum")>>, {"sum"},
     <<"heap", "open", "hash", "close">>, 2),
  Md(<<Dsa, No(2, "arrays"), Plain("problems"), No(9, "why")>>, {}, <<"graph", "heap">>, 2),
  Md(<<Dsa, No(2, "arrays"), Plain("arrays")>>, {"sum"}, <<>>, 1),
  Md(<<Dsa, No(1, "intro")>>, {}, <<"graph">>, 1),
  Md(<<Dsa, No(3, ""), Plain("intro")>>, {}, <<"heap", "sum">>, 2),
  Md(<<Dsa, No(3, ""), Plain("index")>>, {}, <<"heap">>, 1),
  Md(<<Dsa, Plain("why")>>, {"hash"}, <<"graph">>, 3),
  Md(<<Dsa, Plain("intro"), Plain("why")>>, {}, <<"sum">>, 1),
  Md(<<Dsa, Plain("why"), Plain("intro")>>, {}, <<"heap">>, 1),
  Md(<<Dsa, Plain("_drafts"), Plain("why")>>, {}, <<"graph">>, 1),
  Md(<<Dsa, Plain("examples"), Plain("why")>>, {}, <<"graph">>, 1),
  Md(<<Dsa, Plain("v1.2"), Plain("why")>>, {}, <<"graph">>, 1),
  Md(<<Dsa, Plain("Izmir"), Plain("why")>>, {}, <<"graph">>, 1),
  Md(<<Dsa, No(4, "")>>, {}, <<"graph">>, 1),
  [Md(<<Dsa, Plain("two-sum")>>, {}, <<"graph">>, 1) EXCEPT !.md = FALSE],
  Md(<<Prose, Plain("why")>>, {"sum"}, <<"graph", "heap">>, 1)}

\* Chapters with ids of their own; three of them alike, one that is in another book, one
\* that does not resolve, and one named after a heading that is to be withheld.
Shelf == {
  Md(<<Dsa, No(1, "intro")>>, {}, <<"graph", "open", "hash", "close", "heap">>, 2),
  [Md(<<Dsa, No(2, "why")>>, {}, <<"graph", "heap", "sum">>, 3) EXCEPT !.summary = {"why"}],
  Md(<<Dsa, No(3, "two sum")>>, {"graph"}, <<"heap">>, 1),
  Md(<<Dsa, No(4, "arrays"), Plain("index")>>, {"hash"}, <<"sum">>, 1),
  Md(<<Dsa, No(5, "Izmir")>>, {"graph"}, <<"hash">>, 1),
  [Md(<<Dsa, No(6, "prose")>>, {}, <<"open", "why", "heap", "close">>, 1) EXCEPT !.heading = {2}],
  Md(<<Prose, Plain("why")>>, {"graph"}, <<"heap", "sum">>, 1)}

\* One lesson with every text of up to five blocks, one word for each place, and for up to
\* four with every place of a heading.
Vocabulary == <<"graph", "hash", "heap", "sum", "why">>
Texts(max) == UNION {[1 .. n -> {"text", "open", "close"}] : n \in 0 .. max}
OneLesson(text, heading) ==
  {[Md(<<Dsa, No(1, "intro")>>, {},
       [i \in DOMAIN text |-> IF text[i] = "text" THEN Vocabulary[i] ELSE text[i]], 1)
      EXCEPT !.heading = heading]}

MCCorpora ==
  {Tree, Shelf} \cup {OneLesson(text, {}) : text \in Texts(5)}
    \cup UNION {{OneLesson(text, {k}) : k \in {k \in DOMAIN text : text[k] = "text"}} : text \in Texts(4)}

IntroId == <<Dsa, <<"intro">>>>
Ids == {IntroId, <<Dsa, <<"two-sum">>>>, <<Dsa, <<"why">>>>, <<Dsa, <<"prose">>>>,
        <<Dsa, <<"arrays", "problems", "two-sum">>>>, <<Dsa, <<"why", "">>>>, <<Dsa, <<"i~zmir">>>>}
Ask == [tool |-> "problem", token |-> TRUE, id |-> IntroId, query |-> {}, include_solution |-> FALSE,
        limit |-> NoLimit, book |-> AnyBook]
MCCalls ==
  {[Ask EXCEPT !.tool = "search", !.query = q, !.limit = n, !.book = b] :
     q \in {{"hash"}, {"graph", "sum"}}, n \in {NoLimit, 0, 1, 9}, b \in {AnyBook, Prose}}
  \cup {[Ask EXCEPT !.tool = "related", !.id = id, !.limit = n] : id \in Ids, n \in {1, 2, 9}}
  \cup {[Ask EXCEPT !.id = id] : id \in Ids} \cup {[Ask EXCEPT !.token = FALSE]}
  \cup {[Ask EXCEPT !.tool = "lesson", !.id = id, !.include_solution = s] : id \in Ids, s \in BOOLEAN}
  \cup {[Ask EXCEPT !.tool = "outline", !.book = b] : b \in {AnyBook, Dsa}}

GatheredInit ==
  /\ WithholdingInit /\ ServerInit /\ CasesInit
  /\ part \in {"ladder", "grounding", "cases"}
  /\ part # "ladder" => progress = [sid \in Sid |-> NoSession]
  /\ part # "grounding" => content = OneLesson(<<>>, {})

GatheredNext ==
  /\ part' = part
  /\ \/ part = "ladder" /\ WithholdingNext /\ UNCHANGED <<serverVars, caseVars>>
     \/ part = "grounding" /\ ServerNext /\ UNCHANGED <<withholdingVars, caseVars>>
     \/ part = "cases" /\ CasesNext /\ UNCHANGED <<withholdingVars, serverVars>>

GatheredSpec == GatheredInit /\ [][GatheredNext]_<<part, withholdingVars, serverVars, caseVars>>

\* The type invariants of the three parts.
GatheredTypeOK == WithholdingTypeOK /\ ServerTypeOK
===============================================================================
