---------------------------- MODULE GroundingServer ----------------------------
(***************************************************************************)
(* The grounding server: the tools of grounding_mcp/tools.py over the      *)
(* Corpus and the search index of grounding_mcp/search.py, behind the      *)
(* service-token gate of grounding_mcp/server.py.  A process builds its    *)
(* index once, on the first tool call it serves, by a recursive walk of    *)
(* the directories; what is left of the recursion is a list of entries to  *)
(* visit, and nothing else happens in the process meanwhile.               *)
(***************************************************************************)
EXTENDS Corpus

CONSTANTS
  Corpora,    \* what the content directory may hold
  Calls,      \* the calls made of the server
  NoLimit,    \* a call without a limit ...
  AnyBook,    \* ... or without a book
  MaxResults, MaxRelated, MaxBody, MaxOutline,  \* the caps of GroundingSettings
  NoIndex,
  NoWalk,
  NothingSaid

\* "limit" is not negative: see the README for one that is.
Call == [tool : {"search", "related", "problem", "lesson", "outline"},
         token : BOOLEAN,              \* does it bear the service token?
         id : Name \X Seq(STRING), query : SUBSET Term, include_solution : BOOLEAN,
         limit : Nat \cup {NoLimit}, book : Name \cup {AnyBook}]

ASSUME ServerAssumption ==
  /\ Calls \subseteq Call
  /\ \A files \in Corpora : files \subseteq File /\ IsFiniteSet(files)
  /\ \A files \in Corpora : \A f, g \in files :   \* one file for a path, no book with a number
       /\ f.md /\ g.md /\ f.path = g.path => f = g
       /\ f.path # <<>> /\ f.path[1].num = NoNumber
  /\ MaxResults \in Nat /\ MaxRelated \in Nat \ {0} /\ MaxBody \in Nat /\ MaxOutline \in Nat

VARIABLES content,  \* the files
          index,    \* _grounding: the corpus index of this process, or NoIndex
          walk,     \* _build, under way: entries to visit and chapters collected, or NoWalk
          said      \* the last call and the answer to it

serverVars == <<content, index, walk, said>>

ServerInit ==
  /\ content \in Corpora
  /\ index = NoIndex
  /\ walk = NoWalk
  /\ said = NothingSaid

TermsOf(text) == {text[i] : i \in DOMAIN text}

\* What Bm25Index indexes for a chapter, and what a search shows of it: its title and
\* what its document shows.  A chapter that does not resolve has only its title.
IndexedText(of, meta) ==
  meta.title \cup
    IF Resolves(of, ProblemId(meta)) THEN TermsOf(of.docs[ProblemId(meta)].split.visible) ELSE {}

\* The BM25 score, of which only this matters: it is positive when a term of the query
\* is found, and here the more of them, the higher.
Score(of, meta, query) == Cardinality(query \cap IndexedText(of, meta))

\* (score, problem_id), reverse=True; the sort is stable.  Ids are compared as strings,
\* here in some fixed order.
IdPlace(of, id) == CHOOSE i \in DOMAIN of.chapters :
  ProblemId(of.chapters[i]) = id /\ \A j \in DOMAIN of.chapters : ProblemId(of.chapters[j]) = id => i <= j

HitBefore(of, query, i, j) ==
  LET s == Score(of, of.chapters[i], query)
      t == Score(of, of.chapters[j], query)
      p == IdPlace(of, ProblemId(of.chapters[i]))
      q == IdPlace(of, ProblemId(of.chapters[j]))
  IN  s > t \/ (s = t /\ p > q) \/ (s = t /\ p = q /\ i < j)

FirstOf(seq, n) == SubSeq(seq, 1, IF n < Len(seq) THEN n ELSE Len(seq))

Hits(of, query, book) ==
  LET found == {i \in DOMAIN of.chapters : (book = AnyBook \/ of.chapters[i].book = book)
                                            /\ Score(of, of.chapters[i], query) > 0}
  IN  Sorted(found, {p \in found \X found : HitBefore(of, query, p[1], p[2])})

\* The limit applied before the book.
SearchThenFilter(of, query, n, book) ==
  LET hits == FirstOf(Hits(of, query, AnyBook), n)
      found == [i \in DOMAIN hits |-> of.chapters[hits[i]]]
  IN  Chosen(found, {i \in DOMAIN found : book = AnyBook \/ found[i].book = book})

\* Bm25Index.search
Search(of, query, n, book) ==
  LET hits == FirstOf(Hits(of, query, book), n)
  IN  [i \in DOMAIN hits |-> of.chapters[hits[i]]]

\* Whatever is asked for.
LimitedByCaller(limit, max) == IF limit \in {NoLimit, 0} THEN max ELSE limit

\* min(limit or max, max): a limit of 0 counts as none.
Limited(limit, max) == IF limit \in {NoLimit, 0} \/ limit > max THEN max ELSE limit

SearchCorpus(of, call) ==
  LET found == Search(of, call.query, Limited(call.limit, MaxResults), call.book)
  IN  [ids |-> [i \in DOMAIN found |-> ProblemId(found[i])],
       \* the titles and, of the documents that have the ids, the snippets
       shown |-> UNION {IndexedText(of, found[i]) : i \in DOMAIN found}]

\* _ref, of some chapters: their titles.
Titles(chapters) == UNION {chapters[i].title : i \in DOMAIN chapters}

\* list_related searches for one more than it wants, and skips the chapter itself.
ListRelated(of, call) ==
  LET doc == of.docs[call.id]
      n == Limited(call.limit, MaxRelated)
      found == Search(of, IndexedText(of, doc.meta), n + 1, AnyBook)
      others == FirstOf(Chosen(found, {i \in DOMAIN found : ProblemId(found[i]) # call.id}), n)
  IN  [ids |-> [i \in DOMAIN others |-> ProblemId(others[i])], shown |-> Titles(others)]

\* _cap: a text over the limit is cut.
Cap(text) == TermsOf(FirstOf(text, MaxBody))

\* Title, summary and text of a document.
Presented(doc) == doc.meta.title \cup doc.meta.file.summary \cup Cap(doc.split.visible)

\* get_problem, and get_lesson, which may also give the solution.
GetProblem(of, call) == [ids |-> <<call.id>>, shown |-> Presented(of.docs[call.id])]

GetLesson(of, call) ==
  [ids |-> <<call.id>>,
   shown |-> Presented(of.docs[call.id])
               \cup IF call.include_solution THEN Cap(of.docs[call.id].split.solution) ELSE {}]

\* used: the characters of the lines of these chapters.
SizeOf(chapters) ==
  Cardinality(UNION {{i} \X (1 .. chapters[i].file.size) : i \in DOMAIN chapters})

InBook(of, book) == Chosen(of.chapters, {i \in DOMAIN of.chapters : book = AnyBook \/ of.chapters[i].book = book})

\* get_corpus_outline: book by book and chapter by chapter, up to the first that does
\* not fit the budget any more.
GetOutline(of, call) ==
  LET all == InBook(of, call.book)
      Overruns == {i \in DOMAIN all : SizeOf(FirstOf(all, i)) > MaxOutline}
      listed == IF Overruns = {} THEN all
                ELSE FirstOf(all, (CHOOSE i \in Overruns : \A j \in Overruns : i <= j) - 1)
  IN  [ids |-> [i \in DOMAIN listed |-> ProblemId(listed[i])], shown |-> Titles(listed),
       truncated |-> Overruns # {}]

NotFound == [error |-> "not_found"]

AnswerTo(of, call) ==
  IF call.tool \in {"related", "problem", "lesson"} /\ ~ Resolves(of, call.id) THEN NotFound
  ELSE CASE call.tool = "search"  -> SearchCorpus(of, call)
         [] call.tool = "outline" -> GetOutline(of, call)
         [] call.tool = "related" -> ListRelated(of, call)
         [] call.tool = "problem" -> GetProblem(of, call)
         [] call.tool = "lesson"  -> GetLesson(of, call)

\* _g(), on the first call: the walk starts with the books.
StartWalk ==
  /\ index = NoIndex /\ walk = NoWalk
  /\ said = NothingSaid
  /\ walk' = [todo |-> Books(content), found |-> <<>>]
  /\ UNCHANGED <<content, index, said>>

Visiting == walk # NoWalk /\ walk.todo # <<>>

\* Sections after the files beside them.
EnterLater ==
  /\ Visiting
  /\ LET entry == Head(walk.todo) IN
       /\ entry.dir /\ IncludesAsContent(entry.path[Len(entry.path)])
       /\ walk' = [walk EXCEPT !.todo = Tail(@) \o Inside(content, entry.path)]
  /\ UNCHANGED <<content, index, said>>

\* rec passes over what is hidden, what is no chapter and no content ...
PassOver ==
  /\ Visiting
  /\ LET entry == Head(walk.todo)
         name  == entry.path[Len(entry.path)]
     IN  \/ IsHidden(name)
         \/ ~ entry.dir /\ ChapterAt(content, entry.path) = {}
         \/ entry.dir /\ ~ IncludesAsContent(name)
  /\ walk' = [walk EXCEPT !.todo = Tail(@)]
  /\ UNCHANGED <<content, index, said>>

\* ... collects a chapter ...
CollectChapter ==
  /\ Visiting
  /\ LET entry == Head(walk.todo) IN
       /\ ~ IsHidden(entry.path[Len(entry.path)]) /\ ~ entry.dir
       /\ \E file \in ChapterAt(content, entry.path) :
            walk' = [todo |-> Tail(walk.todo), found |-> Append(walk.found, MetaOf(file))]
  /\ UNCHANGED <<content, index, said>>

\* ... and enters a section before it goes on beside it.
Enter ==
  /\ Visiting
  /\ LET entry == Head(walk.todo) IN
       /\ entry.dir /\ IncludesAsContent(entry.path[Len(entry.path)])
       /\ walk' = [walk EXCEPT !.todo = Inside(content, entry.path) \o Tail(@)]
  /\ UNCHANGED <<content, index, said>>

\* The index of what was collected, kept as long as the process.
FinishWalk ==
  /\ walk # NoWalk /\ walk.todo = <<>>
  /\ index' = CorpusIndex(walk.found)
  /\ walk' = NoWalk
  /\ UNCHANGED <<content, said>>

Serve(call) ==
  /\ index # NoIndex
  /\ said = NothingSaid
  /\ call.token
  /\ said' = [call |-> call, answer |-> AnswerTo(index, call)]
  /\ UNCHANGED <<content, index, walk>>

\* The service-token gate: 401.
TurnAway(call) ==
  /\ said = NothingSaid /\ walk = NoWalk
  /\ ~ call.token
  /\ said' = [call |-> call, answer |-> [error |-> "unauthorized"]]
  /\ UNCHANGED <<content, index, walk>>

Read ==
  /\ said # NothingSaid
  /\ said' = NothingSaid
  /\ UNCHANGED <<content, index, walk>>

\* A new process on the same content.
RestartServer ==
  /\ index' = NoIndex /\ walk' = NoWalk
  /\ said' = NothingSaid
  /\ UNCHANGED content

ServerNext ==
  \/ StartWalk \/ PassOver \/ CollectChapter \/ Enter \/ FinishWalk
  \/ (\E call \in Calls : Serve(call) \/ TurnAway(call)) \/ Read \/ RestartServer

ServerSpec == ServerInit /\ [][ServerNext]_serverVars

-------------------------------------------------------------------------------
(***************************************************************************)
(* Correctness.                                                            *)
(***************************************************************************)

Answered(tools) == said # NothingSaid /\ said.call.tool \in tools /\ "ids" \in DOMAIN said.answer

\* Every variable has its type, and no answer is longer than its cap.
ServerTypeOK ==
  /\ content \subseteq File
  /\ index # NoIndex =>
       /\ \A i \in DOMAIN index.chapters : index.chapters[i].file \in content
       /\ \A id \in DOMAIN index.docs : ProblemId(index.docs[id].meta) = id
  /\ walk # NoWalk => index = NoIndex /\ \A i \in DOMAIN walk.found : walk.found[i].file \in content
  /\ said # NothingSaid => said.call \in Calls
  /\ Answered({"search"}) => Len(said.answer.ids) <= MaxResults
  /\ Answered({"related"}) => Len(said.answer.ids) <= MaxRelated

\* What the sidebar of the book shows: index first, then by number, then by name as it
\* is on disk.
SidebarBefore(a, b) ==
  LET First(e) == e.name.word = "index" /\ e.name.num = NoNumber
      Numbered(e) == e.name.num # NoNumber
  IN  \/ First(a) /\ ~ First(b)
      \/ Numbered(a) /\ ~ Numbered(b) /\ ~ First(b)
      \/ Numbered(a) /\ Numbered(b) /\ a.name.num < b.name.num
      \/ /\ First(a) <=> First(b)
         /\ a.name.num = b.name.num
         /\ Place(a.name.word, a.dir) < Place(b.name.word, b.dir)

\* A file that is a chapter: markdown, not hidden, its book and sections content.
IsChapter(file) ==
  LET last == Len(file.path) IN
  /\ file.md /\ last > 1 /\ ~ IsHidden(file.path[last])
  /\ \A i \in 1 .. last - 1 : IncludesAsContent(file.path[i])
  /\ \E i \in 2 .. last : Slugified[file.path[i].word] # ""

\* The chapters come in the order of the sidebar, at every depth, each once and none
\* left out: the recursive walk agrees with comparing two paths where they part
\* (corpus.py:121-164).
SidebarOrder ==
  index # NoIndex =>
    LET chapters == index.chapters
        At(path, k) == [name |-> path[k], dir |-> k < Len(path)]
    IN  /\ {chapters[i].file : i \in DOMAIN chapters} = {f \in content : IsChapter(f)}
        /\ Cardinality({f \in content : IsChapter(f)}) = Len(chapters)
        /\ \A i, j \in DOMAIN chapters : i < j /\ chapters[i].book = chapters[j].book =>
             LET p == chapters[i].file.path
                 q == chapters[j].file.path
                 k == CHOOSE n \in DOMAIN p \cap DOMAIN q :
                        At(p, n) # At(q, n) /\ \A m \in 1 .. n - 1 : At(p, m) = At(q, m)
             IN  SidebarBefore(At(p, k), At(q, k))

\* No name of a path below the book has a letter that slugify turns into more than letters.
Spelled(path) == \A k \in 2 .. Len(path) : Slugified[path[k].word] \in SlugLike \cup {""}

\* A chapter that a search, the neighbours or the outline lists is one that get_problem
\* and get_lesson resolve, and to a document with that id, unless slugify has mangled
\* one of its names, and then they refuse it: slugs are made by one piece of code and
\* taken apart by another (corpus.py:143 and slug.py:40 with 203-208 and slug.py:72).
ResolvesUnlessMangled ==
  Answered({"search", "related", "outline"}) =>
    \A i \in DOMAIN said.answer.ids :
      LET id == said.answer.ids[i] IN
      \E file \in content :
        /\ IsChapter(file) /\ ProblemId(MetaOf(file)) = id
        /\ Resolves(index, id) <=> Spelled(file.path)
        /\ Resolves(index, id) => ProblemId(index.docs[id].meta) = id

Tags(body, k, tag) == Cardinality({i \in 1 .. k : body[i] = tag})

\* <details> blocks that are closed, one after the other: what the walker assumes.
Flat(body) == \A k \in DOMAIN body :
  /\ Tags(body, k, "open") - Tags(body, k, "close") \in {0, 1}
  /\ k = Len(body) => Tags(body, k, "open") = Tags(body, k, "close")

\* The terms that stand outside all blocks.
Outside(body) == {body[k] : k \in {k \in DOMAIN body :
  body[k] \in Term /\ Tags(body, k, "open") = Tags(body, k, "close")}}

BodyOf(id) == index.docs[id].meta.file.body

\* What anyone may see of a file: its front matter, its name, what stands outside all
\* blocks ... and, of what is inside, a heading that the file is named after.
Public(file) ==
  file.given \cup file.summary \cup Humanised[file.path[Len(file.path)].word]
    \cup Outside(file.body) \cup IF file.given = {} THEN HeadingOf(file) ELSE {}

\* The files of the chapters that an answer is about.
Listed == {c.file : c \in {c \in {index.chapters[i] : i \in DOMAIN index.chapters} :
  \E i \in DOMAIN said.answer.ids : said.answer.ids[i] = ProblemId(c)}}

\* As long as <details> blocks are flat siblings, no answer that was not asked for the
\* solution shows a term that stands only inside one, whichever tool is called, save a
\* heading there that is the first of a body without a title in its front matter: the
\* title is looked for before the text is split (corpus.py:11-13 and 147, tools.py:5-6).
Withheld ==
  Answered({"search", "related", "problem", "lesson", "outline"}) /\ ~ said.call.include_solution
    /\ (\A file \in Listed : Flat(file.body)) =>
       said.answer.shown \subseteq UNION {Public(file) : file \in Listed}

\* Withholding hides nothing else: the whole text outside the blocks is there, also
\* between two of them, and with the solution asked for the whole lesson, as far as
\* the caps allow (corpus.py:98-104).
NothingElseHidden ==
  Answered({"problem", "lesson"}) =>
    LET body  == BodyOf(said.call.id)
        terms == {k \in DOMAIN body : body[k] \in Term}
    IN  Cardinality(terms) <= MaxBody =>
      /\ Flat(body) => Outside(body) \subseteq said.answer.shown
      /\ said.call.tool = "lesson" /\ said.call.include_solution =>
           {body[k] : k \in terms} \subseteq said.answer.shown

\* No two chapters have the same id.
DistinctIds == \A i, j \in DOMAIN index.chapters :
  ProblemId(index.chapters[i]) = ProblemId(index.chapters[j]) => i = j

\* A search never finds a chapter by what only its solution says, the title apart: that
\* would tell a learner at clarify which problems a technique solves (search.py:33, 42).
SolutionsUnsearchable ==
  Answered({"search"}) /\ DistinctIds =>
    \A i \in DOMAIN said.answer.ids :
      LET file == index.docs[said.answer.ids[i]].meta.file IN
      Flat(file.body) => said.call.query \cap (TitleOf(file) \cup Outside(file.body)) # {}

\* The chapters that a search could have returned.
Matching(query, book) ==
  {i \in DOMAIN index.chapters : (book = AnyBook \/ index.chapters[i].book = book)
                                 /\ Score(index, index.chapters[i], query) > 0}

AtMost(n, m) == IF n < m THEN n ELSE m

\* A search in one book is as good as a search of that book alone: it returns as many
\* of its chapters as match, up to the limit, and none that scores less than one it
\* leaves out (search.py:61-81).
TopRanked ==
  Answered({"search"}) /\ DistinctIds =>
    LET matching == Matching(said.call.query, said.call.book)
        Returned(i) == \E k \in DOMAIN said.answer.ids : said.answer.ids[k] = ProblemId(index.chapters[i])
        ScoreOf(i) == Score(index, index.chapters[i], said.call.query)
    IN  /\ Len(said.answer.ids) = AtMost(Limited(said.call.limit, MaxResults), Cardinality(matching))
        /\ \A i, j \in matching : Returned(i) /\ ~ Returned(j) => ScoreOf(i) >= ScoreOf(j)

\* The neighbours of a chapter never include the chapter itself, and are as many as
\* were asked for, if there are as many, wherever the chapter ranks in the search for
\* its own text (tools.py:77-87).
RelatedIsFull ==
  Answered({"related"}) /\ DistinctIds =>
    LET others == {i \in Matching(IndexedText(index, index.docs[said.call.id].meta), AnyBook) :
                     ProblemId(index.chapters[i]) # said.call.id}
    IN  /\ \A k \in DOMAIN said.answer.ids : said.answer.ids[k] # said.call.id
        /\ Len(said.answer.ids) = AtMost(Limited(said.call.limit, MaxRelated), Cardinality(others))

\* An outline is a beginning of the sidebar, as long a one as the budget takes, and says
\* so exactly when it is not all of it (tools.py:90-119).
OutlineIsBeginning ==
  Answered({"outline"}) =>
    LET all == InBook(index, said.call.book)
        n == Len(said.answer.ids)
    IN  /\ n <= Len(all) /\ \A i \in 1 .. n : said.answer.ids[i] = ProblemId(all[i])
        /\ SizeOf(FirstOf(all, n)) <= MaxOutline
        /\ said.answer.truncated = (n < Len(all))
        /\ n < Len(all) => SizeOf(FirstOf(all, n + 1)) > MaxOutline

\* The solution, but for a heading that became the title, and nothing but the solution, is
\* withheld from those who did not ask for it: by what is shown and by what is found
\* (corpus.py:11-13 and 147, tools.py:5-6).
SolutionWithheld == Withheld /\ SolutionsUnsearchable /\ NothingElseHidden

\* The outline that the model is given is the sidebar of the books, from its beginning
\* (corpus.py:121-164, tools.py:89-120).
OutlineFollowsSidebar == SidebarOrder /\ OutlineIsBeginning

\* What is found is the best there is, and as much of it as was asked for (search.py:61-81,
\* tools.py:73-87).
FindsTheBest == TopRanked /\ RelatedIsFull
================================================================================
