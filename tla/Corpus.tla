-------------------------------- MODULE Corpus --------------------------------
(***************************************************************************)
(* The lessons that the grounding server serves: grounding_mcp/corpus.py   *)
(* and slug.py.  A corpus is a set of markdown files, each with its path   *)
(* from the content directory down: book, sections, file.  What the string *)
(* functions do to a name is given by tables; the text of a file is a      *)
(* sequence of terms, with the tags of <details> blocks between them.      *)
(***************************************************************************)
EXTENDS Integers, FiniteSets, Sequences

CONSTANTS
  Word,       \* names without their ordering number (and without ".md")
  Alphabet,   \* the names of entries, as they are on disk, in the order of their lower case
  Slugified,  \* slugify of a word; "" when nothing is left of it
  SlugLike,   \* the words, and the slugs, that are slug_like
  Humanised,  \* what humanise makes of a word
  Hidden,     \* the words that start with "_" or "."
  BookOrder,  \* "order" of the book.json of a book, NoNumber if there is none
  NoNumber,
  AfterAll,   \* 2**31, after every number
  Term        \* what a text is made of

\* RESERVED_AUX_DIRS
Reserved == {"examples", "c4"}

\* In one directory equal numbers are written alike; a book's name has none.
Name == [num : 0 .. AfterAll - 1 \cup {NoNumber}, word : Word]
Block == Term \cup {"open", "close"}
File ==
  {file \in [path : Seq(Name), md : BOOLEAN,
             given : SUBSET Term,           \* the title and the summary of its front
             summary : SUBSET Term,         \* matter; {} for none
             body : Seq(Block),
             heading : SUBSET Nat,          \* where in the body its first H1 is; {} for none
             size : Nat] :                  \* what the outline counts it for
     \A k \in file.heading : k \in DOMAIN file.body /\ file.body[k] \in Term}

\* A directory with a name may stand before a markdown file with that name and others between.
ASSUME CorpusAssumption ==
  /\ Alphabet \in Seq(Word \X BOOLEAN)
  /\ \A word \in Word, dir \in BOOLEAN : \E i \in DOMAIN Alphabet : Alphabet[i] = <<word, dir>>
  /\ Hidden \subseteq Word
  /\ DOMAIN Slugified = Word
  /\ \A word \in Word : Humanised[word] \in SUBSET Term
  /\ \A word \in Word : BookOrder[word] \in Nat \cup {NoNumber}
  /\ NoNumber \notin Nat /\ AfterAll \in Nat
  /\ IsFiniteSet(Term) /\ {"open", "close"} \cap Term = {}

\* sorted: the elements of a finite set, by a strict total order.
Sorted(S, before) ==
  [i \in 1 .. Cardinality(S) |-> CHOOSE x \in S : Cardinality({y \in S : <<y, x>> \in before}) = i - 1]

\* What a sequence holds at some of its places, in order.
Chosen(seq, places) ==
  LET place == Sorted(places, {p \in places \X places : p[1] < p[2]})
  IN  [i \in DOMAIN place |-> seq[place[i]]]

Place(word, dir) == CHOOSE i \in DOMAIN Alphabet : Alphabet[i] = <<word, dir>>

\* name.startswith(("_", "."))
IsHidden(name) == name.num = NoNumber /\ name.word \in Hidden

\* includes_as_content, of a directory.
IncludesAsContent(name) ==
  name.word \in SlugLike /\ ~ IsHidden(name) /\ name.word \notin Reserved

\* The first part of _order_key.
Rank(name) ==
  IF name.num = NoNumber /\ name.word = "index" THEN -1
  ELSE IF name.num = NoNumber THEN AfterAll ELSE name.num

\* _order_key as an order.
EntryBefore(a, b) ==
  \/ Rank(a.name) < Rank(b.name)
  \/ Rank(a.name) = Rank(b.name) /\ Place(a.name.word, a.dir) < Place(b.name.word, b.dir)

Below(dir, path) == Len(dir) < Len(path) /\ \A k \in DOMAIN dir : path[k] = dir[k]

\* The directory entries of "dir".
Entries(files, dir) ==
  {[name |-> file.path[Len(dir) + 1], dir |-> Len(file.path) > Len(dir) + 1] :
     file \in {f \in files : Below(dir, f.path)}}

\* A segment of which slugify leaves nothing, kept.
ChapterSlugAllSegments(path) == [i \in DOMAIN path |-> Slugified[path[i].word]]

\* chapter_slug of the path below the book: empty segments are dropped.
ChapterSlug(path) ==
  LET slugs == [i \in DOMAIN path |-> Slugified[path[i].word]]
  IN  Chosen(slugs, {i \in DOMAIN path : slugs[i] # ""})

\* first_h1, of the whole body: it may stand inside a <details> block.
HeadingOf(file) == {file.body[k] : k \in file.heading}

TitleOf(file) ==
  IF file.given # {} THEN file.given
  ELSE IF file.heading # {} THEN HeadingOf(file)
  ELSE Humanised[file.path[Len(file.path)].word]

\* ChapterMeta, with the file it is about.
MetaOf(file) ==
  [book |-> file.path[1], slug |-> ChapterSlug(Tail(file.path)), file |-> file,
   title |-> TitleOf(file),
   is_problem |-> \E i \in 2 .. Len(file.path) - 1 : file.path[i].word = "problems"]

ProblemId(meta) == <<meta.book, meta.slug>>

\* What rec visits in a directory, in its order.
Inside(files, dir) ==
  LET entries == Entries(files, dir)
      sorted  == Sorted(entries, {p \in entries \X entries : EntryBefore(p[1], p[2])})
  IN  [i \in DOMAIN sorted |-> [path |-> Append(dir, sorted[i].name), dir |-> sorted[i].dir]]

\* The key that books are sorted by; an order of 0 counts as none.
BookRank(name) ==
  IF BookOrder[name.word] \in {NoNumber, 0} THEN AfterAll ELSE BookOrder[name.word]

BookBefore(a, b) ==
  \/ BookRank(a) < BookRank(b)
  \/ BookRank(a) = BookRank(b) /\ Place(a.word, TRUE) < Place(b.word, TRUE)

\* The books, as directories to visit.
Books(files) ==
  LET names  == {e.name : e \in {e \in Entries(files, <<>>) : e.dir /\ IncludesAsContent(e.name)}}
      sorted == Sorted(names, {p \in names \X names : BookBefore(p[1], p[2])})
  IN  [i \in DOMAIN sorted |-> [path |-> <<sorted[i]>>, dir |-> TRUE]]

\* What a file is collected for.
ChapterAt(files, path) == {f \in files : f.path = path /\ f.md /\ ChapterSlug(Tail(path)) # <<>>}

\* _DETAILS: a block goes from an opening tag to the next closing one.
InBlock(body, k) ==
  /\ \E i \in 1 .. k : body[i] = "open" /\ \A j \in i .. k - 1 : body[j] # "close"
  /\ \E j \in k .. Len(body) : body[j] = "close"

\* The first block only.
SplitOnce(body) ==
  LET Withheld(k) == InBlock(body, k) /\ \A j \in 1 .. k - 1 : body[j] = "close" => ~ InBlock(body, j)
  IN  [visible  |-> Chosen(body, {k \in DOMAIN body : body[k] \in Term /\ ~ Withheld(k)}),
       solution |-> Chosen(body, {k \in DOMAIN body : body[k] \in Term /\ Withheld(k)})]

\* split_visible_solution; the tags are stripped.
Split(body) ==
  [visible  |-> Chosen(body, {k \in DOMAIN body : body[k] \in Term /\ ~ InBlock(body, k)}),
   solution |-> Chosen(body, {k \in DOMAIN body : body[k] \in Term /\ InBlock(body, k)})]

DocOf(meta) == [meta |-> meta, split |-> Split(meta.file.body)]

\* CorpusIndex of the chapters: for each id the last one that has it.
CorpusIndex(chapters) ==
  LET Ids == {ProblemId(chapters[i]) : i \in DOMAIN chapters}
      LastOf(id) == CHOOSE i \in DOMAIN chapters :
        ProblemId(chapters[i]) = id /\ \A j \in DOMAIN chapters : ProblemId(chapters[j]) = id => j <= i
  IN  [chapters |-> chapters, docs |-> [id \in Ids |-> DocOf(chapters[LastOf(id)])]]

\* CorpusIndex.doc: does it find one?  It asks of every segment of a slug whether it is
\* slug_like; slugify does not see to that, for lower() may turn a letter into one and
\* a mark ("I" with a dot above).
Resolves(index, id) ==
  /\ id[2] # <<>> /\ \A i \in DOMAIN id[2] : id[2][i] # "" /\ id[2][i] \in SlugLike
  /\ id \in DOMAIN index.docs
===============================================================================
