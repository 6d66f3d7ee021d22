---------------------------- MODULE BrainSyncProofs ----------------------------
(***************************************************************************)
(* Theorems about BrainSync, for every Notion, boundary, size limit, batch *)
(* size and number of retries, edits and runs.                             *)
(***************************************************************************)
EXTENDS BrainSync, SequenceTheorems, FiniteSetTheorems, WellFoundedInduction, TLAPS

-----------------------------------------------------------------------------
(* The invariant. *)

Paragraph == [id : Ids, opens : BOOLEAN]
Page == [page : Ids, blocks : Seq(Blocks)]
Fetch == [of : Ids, kind : {"child_page", "table", "group"}, at : Nat, attempt : 1..Retries,
          got : Seq(Blocks)]

Typed ==
    /\ notion \in Notions /\ edits \in 0..MaxEdits
    /\ phase \in Idle \cup {"crawl", "parse", "drop", "create", "add"}
    /\ run \in 0..MaxRuns
    /\ stack \in Seq(Seq(Blocks)) /\ text \in Seq(Paragraph)
    /\ visited \subseteq Ids /\ pages \in Seq(Page)
    /\ gaps \in BOOLEAN /\ stirred \in BOOLEAN

\* A request belongs to the walk that made it: a page being fetched was just
\* marked as visited; a nested list being fetched is of the page in hand.
FetchSound ==
    \/ fetch = NoFetch
    \/ /\ fetch \in Fetch
       /\ \/ /\ phase = "crawl" /\ fetch.kind = "child_page"
             /\ fetch.of \in visited \cap Boundary
             /\ \A i \in DOMAIN pages : pages[i].page # fetch.of
          \/ /\ phase = "parse" /\ fetch.kind \in {"table", "group"}
             /\ stack # <<>>
             /\ fetch.kind = "group" => Len(stack) <= MaxNesting

\* The pages are distinct, and the first is in hand while a list of it is parsed.
PagesSound ==
    /\ \A i \in DOMAIN pages : pages[i].page \in visited \cap Boundary
    /\ \A i, j \in DOMAIN pages : pages[i].page = pages[j].page => i = j
    /\ phase = "parse" => Len(stack) <= MaxNesting + 1 /\ (stack # <<>> => pages # <<>>)

\* The chunks are of this sync, of pages that are done with, and each of its own.
ChunksSound ==
    /\ chunks \in Seq(Range(chunks))
    /\ phase = "crawl" => chunks = <<>>
    /\ \A i \in DOMAIN chunks :
          /\ chunks[i].run = run /\ chunks[i].page \in Boundary
          /\ \A j \in DOMAIN pages : pages[j].page # chunks[i].page
    /\ \A i, j \in DOMAIN chunks :
          chunks[i].page = chunks[j].page /\ chunks[i].index = chunks[j].index => i = j
    /\ added \in 0..Len(chunks)
    /\ phase \in {"crawl", "parse", "drop", "create"} => added = 0

\* The collection holds the first chunks of one sync; of this one, while it is filled.
CollectionSound ==
    /\ collection \in [run : 0..run, total : Nat, held : {collection.held}]
    /\ \E m \in 0..collection.total : DOMAIN collection.held = 1..m
    /\ \A i \in DOMAIN collection.held :
          collection.held[i].run = collection.run /\ collection.held[i].page \in Boundary
    /\ \A i, j \in DOMAIN collection.held :
          collection.held[i].page = collection.held[j].page
            /\ collection.held[i].index = collection.held[j].index => i = j
    /\ phase = "add" => /\ collection.run = run /\ collection.total = Len(chunks)
                        /\ DOMAIN collection.held = 1..added
                        /\ \A i \in 1..added : collection.held[i] = chunks[i]
    /\ phase = "done" => DOMAIN collection.held = 1..collection.total

\* The inductive invariant.
Kept == Typed /\ FetchSound /\ PagesSound /\ ChunksSound /\ CollectionSound

-----------------------------------------------------------------------------
(* The invariant of a quiet sync: no list was given up, and nobody edited. *)

Quiet == ~gaps /\ ~stirred

\* What a block adds to the text of its page by itself, and with up to j levels of
\* what is nested in it.
OwnText(n, b) ==
    {x \in {b.id} : b.kind \notin {"child_page", "child_database"}}
    \cup {x \in {c.id : c \in ChildrenIn(n, b.id)} : b.kind = "table"}

Deeper(n, g) ==
    [b \in Blocks |-> OwnText(n, b) \cup
        UNION {g[c] : c \in {d \in ChildrenIn(n, b.id) : b.kind = "group"}}]

Below(n) ==
    LET below[j \in 0..MaxNesting] ==
          IF j = 0 THEN [b \in Blocks |-> OwnText(n, b)] ELSE Deeper(n, below[j - 1])
    IN  below

Yields(n, j, blocks) == UNION {Below(n)[j][b] : b \in blocks}

\* What is left of the lists being walked.
Listed(lists) == UNION {Range(lists[k]) : k \in DOMAIN lists}
Pending == Listed(stack)
Ahead == visited \cup LeadsTo(notion, Pending)

\* A request has the pages of its listing so far.
ReadSoFar ==
    fetch # NoFetch =>
        /\ fetch.at \in DOMAIN notion[fetch.of]
        /\ Range(fetch.got) = UNION {Range(notion[fetch.of][k]) : k \in 1..fetch.at - 1}

Crawled == {pages[i].page : i \in DOMAIN pages}
PagesWhole == \A i \in DOMAIN pages : Range(pages[i].blocks) = ChildrenIn(notion, pages[i].page)

\* What is visited is to be found, and what is to be found next is visited or ahead.
CrawlExact ==
    /\ visited \cap Boundary = Crawled \cup {p \in {fetch.of} : fetch # NoFetch}
    /\ visited \cap Boundary \subseteq Findable(notion)
    /\ Boundary \cap LeadsTo(notion, Pending) \subseteq Findable(notion)
    /\ \A d \in Pending : d.kind = "child_database" =>
          \A row \in Range(notion[d.id][1]) : row.kind = "child_page"
    /\ Root \in Ahead
    /\ \A p \in Crawled : Boundary \cap LeadsTo(notion, ChildrenIn(notion, p)) \subseteq Ahead
    /\ text = <<>>

ChunksOf(p) == {c \in Range(chunks) : c.page = p}
Indexed(p) ==
    /\ UNION {{b.id : b \in Range(c.parts)} : c \in ChunksOf(p)} = TextOf(notion, p)
    /\ TextOf(notion, p) = {} => ChunksOf(p) = {}

\* What the lists and the request still owe the page in hand.
Owes(n, lists) == UNION {Yields(n, MaxNesting + 1 - k, Range(lists[k])) : k \in DOMAIN lists}
Requested ==
    IF fetch = NoFetch THEN {}
    ELSE IF fetch.kind = "table" THEN {b.id : b \in ChildrenIn(notion, fetch.of)}
    ELSE Yields(notion, MaxNesting - Len(stack), ChildrenIn(notion, fetch.of))

\* The page in hand has its text or is still owed it; the others have it, or wait.
ParseExact ==
    /\ Crawled \subseteq Findable(notion)
    /\ \A i \in DOMAIN chunks : chunks[i].page \in Findable(notion)
    /\ \A p \in Findable(notion) \ Crawled : Indexed(p)
    /\ IF stack = <<>> THEN text = <<>>
       ELSE TextOf(notion, Head(pages).page) =
              {b.id : b \in Range(text)} \cup Owes(notion, stack) \cup Requested

IndexExact ==
    /\ \A i \in DOMAIN chunks : chunks[i].page \in Findable(notion)
    /\ \A p \in Findable(notion) : Indexed(p)
    /\ phase = "done" => Held = Range(chunks)

QuietSound ==
    Quiet =>
        /\ ReadSoFar /\ PagesWhole
        /\ phase = "crawl" => CrawlExact
        /\ phase = "parse" => ParseExact
        /\ phase \in {"drop", "create", "add", "done"} => IndexExact

-----------------------------------------------------------------------------
(* The invariant of a Notion nobody edits: a list that was given up is short,  *)
(* never another's.                                                            *)

ReadWithin == fetch # NoFetch => Range(fetch.got) \subseteq ChildrenIn(notion, fetch.of)

PagesWithin ==
    \A i \in DOMAIN pages : Range(pages[i].blocks) \subseteq ChildrenIn(notion, pages[i].page)

CrawlWithin ==
    /\ Boundary \cap LeadsTo(notion, Pending) \subseteq Findable(notion)
    /\ \A d \in Pending : d.kind = "child_database" =>
          \A row \in Range(notion[d.id][1]) : row.kind = "child_page"
    /\ text = <<>>

ParseWithin ==
    IF stack = <<>> THEN text = <<>>
    ELSE {b.id : b \in Range(text)} \cup Owes(notion, stack) \cup Requested
            \subseteq TextOf(notion, Head(pages).page)

OfItsPage(c) ==
    /\ c.page \in Findable(notion)
    /\ {b.id : b \in Range(c.parts)} \subseteq TextOf(notion, c.page)

IndexWithin ==
    /\ visited \cap Boundary \subseteq Findable(notion)
    /\ \A c \in Range(chunks) : OfItsPage(c)
    /\ \A c \in Held : c.run = run => OfItsPage(c)

WithinSound ==
    ~stirred =>
        /\ ReadWithin /\ PagesWithin /\ IndexWithin
        /\ phase = "crawl" => CrawlWithin
        /\ phase = "parse" => ParseWithin

-----------------------------------------------------------------------------
(* Listings and the stack. *)

LEMMA ListingFacts ==
    ASSUME Typed, NEW i \in Ids, NEW at
    PROVE  Listing(i, at) \in Seq(Blocks)
  <1>1. notion[i] \in Seq(Seq(Blocks))
    BY NotionAssumption DEF Typed
  <1>2. ASSUME at \in DOMAIN notion[i] PROVE notion[i][at] \in Seq(Blocks)
    BY <1>1, <1>2, LenProperties, ElementOfSeq
  <1>3. <<>> \in Seq(Blocks)
    BY EmptySeq
  <1> QED BY <1>2, <1>3 DEF Listing

LEMMA LastAndFront ==
    ASSUME NEW S, NEW s \in Seq(S), s # <<>>
    PROVE  /\ Last(s) \in S /\ Front(s) \in Seq(S)
           /\ Len(s) \in Nat \ {0} /\ Len(Front(s)) = Len(s) - 1
  <1>1. Len(s) \in Nat \ {0}
    BY EmptySeq, LenProperties
  <1>2. \A i \in 1..Len(s) - 1 : s[i] \in S
    BY <1>1, ElementOfSeq
  <1>3. Front(s) \in Seq(S) /\ Len(Front(s)) = Len(s) - 1
    <2> DEFINE n == Len(s) - 1
    <2>1. n \in Nat /\ \A i \in 1..n : s[i] \in S
      BY <1>1, <1>2
    <2>2. Front(s) = SubSeq(s, 1, n)
      BY DEF Front
    <2> HIDE DEF n
    <2>3. SubSeq(s, 1, n) \in Seq(S)
      BY <2>1, SubSeqProperties
    <2>4. Len(SubSeq(s, 1, n)) = IF 1 <= n THEN n - 1 + 1 ELSE 0
      BY <2>1, SubSeqProperties
    <2>5. Len(Front(s)) = n
      BY <2>1, <2>2, <2>4
    <2> QED BY <2>2, <2>3, <2>5 DEF n
  <1> QED BY <1>1, <1>3, ElementOfSeq DEF Last

\* Taking the next block of the innermost list leaves the stack as deep as it is.
LEMMA StackFacts ==
    ASSUME stack \in Seq(Seq(Blocks)), stack # <<>>
    PROVE  /\ Last(stack) \in Seq(Blocks) /\ Front(stack) \in Seq(Seq(Blocks))
           /\ Len(stack) \in Nat \ {0} /\ Len(Front(stack)) = Len(stack) - 1
           /\ Last(stack) # <<>> =>
                 /\ Here \in Blocks
                 /\ Advanced \in Seq(Seq(Blocks)) /\ Len(Advanced) = Len(stack)
                 /\ Advanced # <<>>
  <1>1. /\ Last(stack) \in Seq(Blocks) /\ Front(stack) \in Seq(Seq(Blocks))
        /\ Len(stack) \in Nat \ {0} /\ Len(Front(stack)) = Len(stack) - 1
    BY LastAndFront
  <1>2. ASSUME Last(stack) # <<>>
        PROVE  /\ Here \in Blocks
               /\ Advanced \in Seq(Seq(Blocks)) /\ Len(Advanced) = Len(stack)
               /\ Advanced # <<>>
    <2>1. Head(Last(stack)) \in Blocks /\ Tail(Last(stack)) \in Seq(Blocks)
      BY <1>1, <1>2, HeadTailProperties
    <2>2. Advanced \in Seq(Seq(Blocks)) /\ Len(Advanced) = Len(stack) - 1 + 1
      BY <1>1, <2>1, AppendProperties DEF Advanced
    <2>3. Advanced # <<>>
      BY <1>1, <2>2, EmptySeq
    <2> QED BY <1>1, <2>1, <2>2, <2>3 DEF Here
  <1> QED BY <1>1, <1>2

LEMMA BlockFacts ==
    ASSUME NEW b \in Blocks, b.kind \in {"child_page", "table", "group"}
    PROVE  /\ b.id \in Ids
           /\ Start(b) \in Fetch /\ Start(b).of = b.id /\ Start(b).kind = b.kind
  <1>1. b.id \in Ids
    BY DEF Blocks
  <1>2. 1 \in 1..Retries /\ <<>> \in Seq(Blocks)
    BY BoundsAssumption, EmptySeq
  <1> QED BY <1>1, <1>2 DEF Start, Fetch

-----------------------------------------------------------------------------
(* Chunks. *)

\* The chunks of a page are numbered from one, whatever its text and however it is split.
LEMMA ChunkedFacts ==
    ASSUME NEW page, NEW t, t \in Seq(Paragraph)
    PROVE  /\ Chunked(page, t) \in Seq(Range(Chunked(page, t)))
           /\ \A k \in DOMAIN Chunked(page, t) :
                 /\ Chunked(page, t)[k].run = run /\ Chunked(page, t)[k].page = page
                 /\ Chunked(page, t)[k].index = k
  <1> DEFINE begin == Begins(t)
             ends == {i \in DOMAIN t : EndsChunk(t, begin[i], i)}
             end(k) == CHOOSE i \in ends : Cardinality({j \in ends : j <= i}) = k
             n == Cardinality(ends)
             chunk(k) == [run |-> run, page |-> page, index |-> k, of |-> n,
                          parts |-> SubSeq(t, begin[end(k)], end(k))]
             c == [k \in 1..n |-> chunk(k)]
  <1>1. Chunked(page, t) = c
    BY DEF Chunked
  <1>2. n \in Nat
    <2>1. DOMAIN t = 1..Len(t) /\ Len(t) \in Nat
      BY LenProperties
    <2>2. IsFiniteSet(1..Len(t))
      BY <2>1, FS_Interval
    <2>3. ends \subseteq 1..Len(t)
      BY <2>1
    <2> HIDE DEF ends
    <2> QED BY <2>2, <2>3, FS_Subset, FS_CardinalityType
  <1>3. \A k \in 1..n : chunk(k).run = run /\ chunk(k).page = page /\ chunk(k).index = k
    OBVIOUS
  <1> HIDE DEF n, chunk
  <1>4. \A k \in DOMAIN c : c[k].run = run /\ c[k].page = page /\ c[k].index = k
    BY <1>3
  <1>5. c \in Seq(Range(c))
    <2>1. c \in [1..n -> Range(c)]
      BY DEF Range
    <2> HIDE DEF c
    <2> QED BY <1>2, <2>1, SeqDef
  <1> HIDE DEF c
  <1> QED BY <1>1, <1>4, <1>5

-----------------------------------------------------------------------------
(* Reading a list. *)

LEMMA DeliverKeeps ==
    ASSUME Kept, fetch # NoFetch, NEW blocks \in Seq(Blocks), Deliver(blocks),
           UNCHANGED <<notion, edits, phase, run, visited, chunks, added, collection, stirred>>,
           gaps' \in BOOLEAN
    PROVE  Kept'
  <1>1. /\ fetch \in Fetch /\ fetch.of \in Ids /\ fetch' = NoFetch
        /\ stack \in Seq(Seq(Blocks)) /\ text \in Seq(Paragraph) /\ pages \in Seq(Page)
    BY DEF Kept, Typed, FetchSound, Fetch, Deliver
  <1>2. CASE fetch.kind = "child_page"
    <2> DEFINE page == [page |-> fetch.of, blocks |-> blocks]
    <2>1. /\ pages' = Append(pages, page) /\ stack' = Append(stack, blocks) /\ text' = text
      BY <1>2 DEF Deliver
    <2>2. /\ phase = "crawl" /\ chunks = <<>> /\ fetch.of \in visited \cap Boundary
          /\ \A i \in DOMAIN pages : pages[i].page # fetch.of
      BY <1>1, <1>2 DEF Kept, FetchSound, ChunksSound
    <2>3. page \in Page /\ page.page = fetch.of
      BY <1>1 DEF Page
    <2> HIDE DEF page
    <2>4. /\ pages' \in Seq(Page) /\ DOMAIN pages' = 1..Len(pages) + 1
          /\ DOMAIN pages = 1..Len(pages) /\ Len(pages) \in Nat
          /\ \A i \in 1..Len(pages) : pages'[i] = pages[i]
          /\ pages'[Len(pages) + 1] = page
      BY <1>1, <2>1, <2>3, AppendProperties, LenProperties
    <2>5. stack' \in Seq(Seq(Blocks))
      BY <1>1, <2>1, AppendProperties
    <2>6. PagesSound'
      BY <2>2, <2>3, <2>4 DEF Kept, PagesSound
    <2>7. ChunksSound'
      BY <2>2, EmptySeq DEF Kept, ChunksSound
    <2> QED BY <1>1, <2>1, <2>4, <2>5, <2>6, <2>7
            DEF Kept, Typed, FetchSound, CollectionSound, Idle
  <1>3. CASE fetch.kind = "table"
    <2> DEFINE rows == [i \in 1..Len(blocks) |-> [id |-> blocks[i].id, opens |-> FALSE]]
    <2>1. text' = text \o rows /\ UNCHANGED <<pages, stack>>
      BY <1>3 DEF Deliver
    <2>2. rows \in Seq(Paragraph)
      <3>1. Len(blocks) \in Nat
        BY LenProperties
      <3>2. \A i \in 1..Len(blocks) : [id |-> blocks[i].id, opens |-> FALSE] \in Paragraph
        <4> TAKE i \in 1..Len(blocks)
        <4>1. blocks[i] \in Blocks
          BY ElementOfSeq
        <4>2. blocks[i].id \in Ids
          BY <4>1 DEF Blocks
        <4> QED BY <4>2 DEF Paragraph
      <3>3. rows \in [1..Len(blocks) -> Paragraph]
        BY <3>2
      <3> HIDE DEF rows
      <3> QED BY <3>1, <3>3, SeqDef
    <2> HIDE DEF rows
    <2>3. text' \in Seq(Paragraph)
      BY <1>1, <2>1, <2>2, ConcatProperties
    <2> QED BY <1>1, <2>1, <2>3
            DEF Kept, Typed, FetchSound, PagesSound, ChunksSound, CollectionSound
  <1>4. CASE fetch.kind = "group"
    <2>1. stack' = Append(stack, blocks) /\ UNCHANGED <<pages, text>>
      BY <1>4 DEF Deliver
    <2>2. phase = "parse" /\ stack # <<>> /\ Len(stack) <= MaxNesting
      BY <1>1, <1>4 DEF Kept, FetchSound
    <2>3. stack' \in Seq(Seq(Blocks)) /\ Len(stack') = Len(stack) + 1 /\ Len(stack) \in Nat
      BY <1>1, <2>1, AppendProperties, LenProperties
    <2>4. Len(stack') <= MaxNesting + 1
      BY <2>2, <2>3, BoundsAssumption
    <2> QED BY <1>1, <2>1, <2>2, <2>3, <2>4
            DEF Kept, Typed, FetchSound, PagesSound, ChunksSound, CollectionSound
  <1> QED BY <1>1, <1>2, <1>3, <1>4 DEF Fetch

\* The next page of a listing, or the next attempt, is still the same request.
LEMMA Renewed ==
    ASSUME NEW I, NEW K, NEW T, NEW A, NEW G,
           NEW f \in [of : I, kind : K, at : T, attempt : A, got : G],
           NEW t \in T, NEW a \in A, NEW g \in G,
           NEW h, h = [f EXCEPT !.got = g, !.at = t, !.attempt = a]
    PROVE  /\ h \in [of : I, kind : K, at : T, attempt : A, got : G]
           /\ h.of = f.of /\ h.kind = f.kind
  OBVIOUS

LEMMA Retried ==
    ASSUME NEW I, NEW K, NEW T, NEW A, NEW G,
           NEW f \in [of : I, kind : K, at : T, attempt : A, got : G],
           NEW a \in A, NEW h, h = [f EXCEPT !.attempt = a]
    PROVE  /\ h \in [of : I, kind : K, at : T, attempt : A, got : G]
           /\ h.of = f.of /\ h.kind = f.kind
  OBVIOUS

LEMMA AnsweredKeeps == ASSUME Kept, Answered PROVE Kept'
  <1> DEFINE got == fetch.got \o Listing(fetch.of, fetch.at)
  <1>1. /\ fetch \in Fetch /\ fetch # NoFetch
        /\ UNCHANGED <<notion, edits, phase, run, visited, chunks, added, collection, gaps, stirred>>
    BY DEF Kept, FetchSound, Answered
  <1>2. got \in Seq(Blocks)
    <2>1. Listing(fetch.of, fetch.at) \in Seq(Blocks)
      BY <1>1, ListingFacts DEF Kept, Fetch
    <2> QED BY <1>1, <2>1, ConcatProperties DEF Fetch
  <1>3. \/ HasMore(fetch.of, fetch.at)
           /\ fetch' = [fetch EXCEPT !.got = got, !.at = @ + 1, !.attempt = 1]
           /\ UNCHANGED <<pages, stack, text>>
        \/ Deliver(got)
    BY DEF Answered
  <1> HIDE DEF got
  <1>4. CASE /\ fetch' = [fetch EXCEPT !.got = got, !.at = @ + 1, !.attempt = 1]
             /\ UNCHANGED <<pages, stack, text>>
    <2>1. 1 \in 1..Retries /\ fetch.at + 1 \in Nat
      BY <1>1, BoundsAssumption DEF Fetch
    <2>2. fetch' \in Fetch /\ fetch'.of = fetch.of /\ fetch'.kind = fetch.kind
      <3> DEFINE next == fetch.at + 1
      <3>1. /\ next \in Nat
            /\ fetch' = [fetch EXCEPT !.got = got, !.at = next, !.attempt = 1]
        BY <1>4, <2>1
      <3> HIDE DEF next
      <3> QED BY <1>1, <1>2, <2>1, <3>1, Renewed DEF Fetch
    <2>3. FetchSound'
      BY <1>1, <1>4, <2>2 DEF Kept, FetchSound
    <2> QED BY <1>1, <1>4, <2>3 DEF Kept, Typed, PagesSound, ChunksSound, CollectionSound
  <1>5. CASE Deliver(got)
    <2>1. gaps' \in BOOLEAN
      BY <1>1 DEF Kept, Typed
    <2> QED BY <1>1, <1>2, <1>5, <2>1, DeliverKeeps
  <1> QED BY <1>3, <1>4, <1>5

LEMMA ToBeRetriedKeeps == ASSUME Kept, ToBeRetried PROVE Kept'
  <1>1. /\ fetch # NoFetch /\ fetch \in Fetch /\ fetch.attempt < Retries
        /\ fetch' = [fetch EXCEPT !.attempt = NextAttempt(@)]
        /\ UNCHANGED <<notion, edits, phase, run, stack, visited, pages, text, chunks, added,
                       collection, gaps, stirred>>
    BY DEF Kept, FetchSound, ToBeRetried
  <1>2. NextAttempt(fetch.attempt) \in 1..Retries
    BY <1>1, BoundsAssumption DEF Fetch, NextAttempt
  <1>3. fetch' \in Fetch /\ fetch'.of = fetch.of /\ fetch'.kind = fetch.kind
    <2> DEFINE next == NextAttempt(fetch.attempt)
    <2>1. next \in 1..Retries /\ fetch' = [fetch EXCEPT !.attempt = next]
      BY <1>1, <1>2
    <2> HIDE DEF next
    <2> QED BY <1>1, <2>1, Retried DEF Fetch
  <1>4. FetchSound'
    BY <1>1, <1>3 DEF Kept, FetchSound
  <1> QED BY <1>1, <1>4 DEF Kept, Typed, PagesSound, ChunksSound, CollectionSound

LEMMA GivesUpKeeps == ASSUME Kept, GivesUp PROVE Kept'
  <1>1. fetch \in Fetch /\ fetch.got \in Seq(Blocks)
    BY DEF Kept, FetchSound, GivesUp, Fetch
  <1>2. /\ fetch # NoFetch /\ Deliver(fetch.got) /\ gaps' \in BOOLEAN
        /\ UNCHANGED <<notion, edits, phase, run, visited, chunks, added, collection, stirred>>
    BY DEF GivesUp
  <1> QED BY <1>1, <1>2, DeliverKeeps

-----------------------------------------------------------------------------
(* The crawl and the parse. *)

\* A page that has been parsed is done with: its chunks join those of the pages
\* before it.
LEMMA PageDoneKeeps ==
    ASSUME Kept, phase = "parse", fetch = NoFetch, stack # <<>>, Len(stack) = 1,
           stack' = Front(stack),
           chunks' = chunks \o Chunked(Head(pages).page, text),
           pages' = Tail(pages), text' = <<>>,
           UNCHANGED <<notion, edits, phase, run, fetch, visited, added, collection, gaps, stirred>>
    PROVE  Kept'
  <1> DEFINE page == Head(pages).page
             new == Chunked(page, text)
             S == Range(chunks) \cup Range(new)
             n == Len(chunks)
  <1>1. /\ pages \in Seq(Page) /\ pages # <<>> /\ text \in Seq(Paragraph)
        /\ chunks \in Seq(Range(chunks))
    BY DEF Kept, Typed, PagesSound, ChunksSound
  <1>2. /\ Head(pages) = pages[1] /\ 1 \in DOMAIN pages
        /\ pages' \in Seq(Page) /\ DOMAIN pages' = 1..Len(pages) - 1
        /\ DOMAIN pages = 1..Len(pages) /\ Len(pages) \in Nat \ {0}
        /\ \A i \in 1..Len(pages) - 1 : pages'[i] = pages[i + 1]
    <2>1. Len(pages) \in Nat \ {0}
      BY <1>1, EmptySeq
    <2>2. /\ Tail(pages) \in Seq(Page) /\ Len(Tail(pages)) = Len(pages) - 1
          /\ \A i \in 1..Len(Tail(pages)) : Tail(pages)[i] = pages[i + 1]
      BY <1>1, HeadTailProperties
    <2> QED BY <1>1, <2>1, <2>2, LenProperties
  <1>3. page \in Boundary /\ \A i \in DOMAIN pages' : pages'[i].page # page
    BY <1>2 DEF Kept, PagesSound
  <1>4. /\ new \in Seq(Range(new))
        /\ \A k \in DOMAIN new : new[k].run = run /\ new[k].page = page /\ new[k].index = k
    BY <1>1, ChunkedFacts
  <1>5. \A i \in DOMAIN chunks :
           /\ chunks[i].run = run /\ chunks[i].page \in Boundary /\ chunks[i].page # page
           /\ \A j \in DOMAIN pages' : pages'[j].page # chunks[i].page
    BY <1>2 DEF Kept, ChunksSound
  <1> HIDE DEF page, new
  <1>6. chunks \in Seq(S) /\ new \in Seq(S)
    BY <1>1, <1>4, SeqMonotonic
  <1>7. /\ chunks' \in Seq(S) /\ Len(chunks') = n + Len(new)
        /\ n \in Nat /\ Len(new) \in Nat
        /\ DOMAIN chunks = 1..n /\ DOMAIN new = 1..Len(new) /\ DOMAIN chunks' = 1..n + Len(new)
        /\ \A i \in 1..n + Len(new) : chunks'[i] = IF i <= n THEN chunks[i] ELSE new[i - n]
    <2>1. chunks' = chunks \o new
      BY DEF page, new
    <2> HIDE DEF S
    <2>2. n \in Nat /\ Len(new) \in Nat /\ DOMAIN chunks = 1..n /\ DOMAIN new = 1..Len(new)
      BY <1>6, LenProperties
    <2>3. chunks' \in Seq(S) /\ Len(chunks') = n + Len(new)
      BY <1>6, <2>1, ConcatProperties
    <2>4. DOMAIN chunks' = 1..n + Len(new)
      BY <2>3, LenProperties
    <2>5. \A i \in 1..n + Len(new) : chunks'[i] = IF i <= n THEN chunks[i] ELSE new[i - n]
      BY <1>6, <2>1, ConcatProperties
    <2> QED BY <2>2, <2>3, <2>4, <2>5
  <1>8. chunks' \in Seq(Range(chunks'))
    BY <1>7, SeqOfRange
  <1>9. \A i \in DOMAIN chunks' : \/ i \in DOMAIN chunks /\ chunks'[i] = chunks[i]
                                  \/ i > n /\ i - n \in DOMAIN new /\ chunks'[i] = new[i - n]
    BY <1>7
  <1>10. \A i \in DOMAIN chunks' :
            /\ chunks'[i].run = run /\ chunks'[i].page \in Boundary
            /\ \A j \in DOMAIN pages' : pages'[j].page # chunks'[i].page
    BY <1>3, <1>4, <1>5, <1>9
  <1>11. ASSUME NEW i \in DOMAIN chunks', NEW j \in DOMAIN chunks',
                chunks'[i].page = chunks'[j].page, chunks'[i].index = chunks'[j].index
         PROVE  i = j
    <2>1. CASE i \in DOMAIN chunks /\ chunks'[i] = chunks[i]
      <3>1. j \in DOMAIN chunks /\ chunks'[j] = chunks[j]
        BY <1>4, <1>5, <1>9, <1>11, <2>1
      <3> QED BY <1>11, <2>1, <3>1 DEF Kept, ChunksSound
    <2>2. CASE i > n /\ i - n \in DOMAIN new /\ chunks'[i] = new[i - n]
      <3>1. j > n /\ j - n \in DOMAIN new /\ chunks'[j] = new[j - n]
        BY <1>4, <1>5, <1>9, <1>11, <2>2
      <3>2. i - n = j - n
        BY <1>4, <1>11, <2>2, <3>1
      <3>3. i \in Int /\ j \in Int /\ n \in Int
        BY <1>7
      <3> QED BY <3>2, <3>3
    <2> QED BY <1>9, <2>1, <2>2
  <1>12. added' \in 0..Len(chunks')
    BY <1>7 DEF Kept, ChunksSound
  <1>13. ChunksSound'
    BY <1>8, <1>10, <1>11, <1>12 DEF Kept, ChunksSound
  <1>14. stack' \in Seq(Seq(Blocks)) /\ Len(stack') = 0 /\ stack' = <<>>
    <2>1. stack' \in Seq(Seq(Blocks)) /\ Len(stack') = 0
      BY StackFacts DEF Kept, Typed
    <2> QED BY <2>1, EmptySeq
  <1>15. PagesSound'
    <2>1. Len(stack') <= MaxNesting + 1
      BY <1>14, BoundsAssumption
    <2>2. \A i, j \in DOMAIN pages' : pages'[i].page = pages'[j].page => i = j
      <3> SUFFICES ASSUME NEW i \in DOMAIN pages', NEW j \in DOMAIN pages',
                          pages'[i].page = pages'[j].page
                   PROVE  i = j
        OBVIOUS
      <3>1. i + 1 \in DOMAIN pages /\ j + 1 \in DOMAIN pages /\ i \in Int /\ j \in Int
            /\ pages'[i] = pages[i + 1] /\ pages'[j] = pages[j + 1]
        BY <1>2
      <3>2. i + 1 = j + 1
        BY <3>1 DEF Kept, PagesSound
      <3> QED BY <3>1, <3>2
    <2>3. \A i \in DOMAIN pages' : pages'[i].page \in visited \cap Boundary
      BY <1>2 DEF Kept, PagesSound
    <2> QED BY <1>14, <2>1, <2>2, <2>3 DEF PagesSound
  <1>16. Typed' /\ FetchSound'
    <2>1. text' \in Seq(Paragraph)
      BY EmptySeq
    <2> QED BY <1>2, <1>14, <2>1 DEF Kept, Typed, FetchSound
  <1>17. CollectionSound'
    BY DEF Kept, CollectionSound
  <1> QED BY <1>13, <1>15, <1>16, <1>17 DEF Kept

LEMMA EndOfListKeeps == ASSUME Kept, EndOfList PROVE Kept'
  <1>1. /\ phase \in {"crawl", "parse"} /\ fetch = NoFetch /\ stack # <<>>
        /\ stack' = Front(stack)
        /\ UNCHANGED <<notion, edits, phase, run, fetch, visited, added, collection, gaps, stirred>>
    BY DEF EndOfList
  <1>2. /\ stack' \in Seq(Seq(Blocks)) /\ Len(stack') = Len(stack) - 1
        /\ Len(stack) \in Nat \ {0}
    BY <1>1, StackFacts DEF Kept, Typed
  <1>3. CASE phase = "parse" /\ Len(stack) = 1
    <2>1. /\ chunks' = chunks \o Chunked(Head(pages).page, text)
          /\ pages' = Tail(pages) /\ text' = <<>>
      BY <1>3 DEF EndOfList
    <2> QED BY <1>1, <1>3, <2>1, PageDoneKeeps
  <1>4. CASE ~(phase = "parse" /\ Len(stack) = 1)
    <2>1. UNCHANGED <<chunks, pages, text>>
      BY <1>4 DEF EndOfList
    <2>2. phase = "parse" => Len(stack') <= MaxNesting + 1
      BY <1>1, <1>2, BoundsAssumption DEF Kept, PagesSound
    <2>3. PagesSound'
      BY <1>1, <2>1, <2>2 DEF Kept, PagesSound
    <2> QED BY <1>1, <1>2, <2>1, <2>3
            DEF Kept, Typed, FetchSound, ChunksSound, CollectionSound
  <1> QED BY <1>3, <1>4

LEMMA CrawlBlockKeeps == ASSUME Kept, CrawlBlock PROVE Kept'
  <1>1. /\ phase = "crawl" /\ fetch = NoFetch /\ stack # <<>> /\ Last(stack) # <<>>
        /\ stack' = Advanced
        /\ UNCHANGED <<notion, edits, phase, run, pages, text, chunks, added, collection, gaps,
                       stirred>>
    BY DEF CrawlBlock, Walks
  <1>2. Here \in Blocks /\ stack' \in Seq(Seq(Blocks))
    BY <1>1, StackFacts DEF Kept, Typed
  <1>3. CASE Here.kind = "child_page" /\ Here.id \notin visited
    <2>1. /\ visited' = visited \cup {Here.id}
          /\ fetch' = IF Here.id \in Boundary THEN Start(Here) ELSE NoFetch
      BY <1>3 DEF CrawlBlock
    <2>2. /\ Here.id \in Ids /\ Start(Here) \in Fetch
          /\ Start(Here).of = Here.id /\ Start(Here).kind = Here.kind
      BY <1>2, <1>3, BlockFacts
    <2>3. \A i \in DOMAIN pages : pages[i].page # Here.id
      BY <1>3 DEF Kept, PagesSound
    <2>4. FetchSound'
      BY <1>1, <1>3, <2>1, <2>2, <2>3 DEF FetchSound
    <2>5. PagesSound'
      BY <1>1, <2>1 DEF Kept, PagesSound
    <2> QED BY <1>1, <1>2, <2>1, <2>2, <2>4, <2>5
            DEF Kept, Typed, ChunksSound, CollectionSound
  <1>4. CASE ~(Here.kind = "child_page" /\ Here.id \notin visited)
    <2>1. UNCHANGED <<visited, fetch>>
      BY <1>4 DEF CrawlBlock
    <2>2. PagesSound'
      BY <1>1, <2>1 DEF Kept, PagesSound
    <2> QED BY <1>1, <1>2, <2>1, <2>2
            DEF Kept, Typed, FetchSound, ChunksSound, CollectionSound
  <1> QED BY <1>3, <1>4

LEMMA CrawlDatabaseKeeps == ASSUME Kept, CrawlDatabase PROVE Kept'
  <1>1. /\ phase = "crawl" /\ fetch = NoFetch /\ stack # <<>> /\ Last(stack) # <<>>
        /\ stack' = Append(Advanced, Listing(Here.id, 1)) \/ stack' = Advanced
        /\ gaps' = gaps \/ gaps' = TRUE
        /\ UNCHANGED <<notion, edits, phase, run, fetch, visited, pages, text, chunks, added,
                       collection, stirred>>
    BY DEF CrawlDatabase, Walks
  <1>2. Here \in Blocks /\ Here.id \in Ids /\ Advanced \in Seq(Seq(Blocks))
    BY <1>1, StackFacts DEF Kept, Typed, Blocks
  <1>3. stack' \in Seq(Seq(Blocks))
    <2>1. Listing(Here.id, 1) \in Seq(Blocks)
      BY <1>2, ListingFacts DEF Kept
    <2>2. Append(Advanced, Listing(Here.id, 1)) \in Seq(Seq(Blocks))
      BY <1>2, <2>1, AppendProperties
    <2> QED BY <1>1, <1>2, <2>2
  <1> QED BY <1>1, <1>3 DEF Kept, Typed, FetchSound, PagesSound, ChunksSound, CollectionSound

LEMMA CrawlEndsKeeps == ASSUME Kept, CrawlEnds PROVE Kept'
  <1>1. /\ phase = "crawl" /\ phase' = "parse" /\ fetch = NoFetch /\ stack = <<>>
        /\ UNCHANGED <<notion, edits, run, stack, fetch, visited, pages, text, chunks, added,
                       collection, gaps, stirred>>
    BY DEF CrawlEnds
  <1>2. Len(stack) = 0 /\ 0 <= MaxNesting + 1
    BY <1>1, EmptySeq, BoundsAssumption
  <1> QED BY <1>1, <1>2 DEF Kept, Typed, FetchSound, PagesSound, ChunksSound, CollectionSound, Idle

LEMMA ParseBlockKeeps == ASSUME Kept, ParseBlock PROVE Kept'
  <1>1. /\ phase = "parse" /\ fetch = NoFetch /\ stack # <<>> /\ Last(stack) # <<>>
        /\ stack' = Advanced
        /\ UNCHANGED <<notion, edits, phase, run, visited, pages, chunks, added, collection, gaps,
                       stirred>>
    BY DEF ParseBlock, Walks
  <1>2. /\ Here \in Blocks /\ stack' \in Seq(Seq(Blocks))
        /\ Len(stack') = Len(stack) /\ stack' # <<>>
    BY <1>1, StackFacts DEF Kept, Typed
  <1>3. PagesSound'
    BY <1>1, <1>2 DEF Kept, PagesSound
  <1>4. CASE Here.kind \in {"child_page", "child_database"}
    <2>1. UNCHANGED <<text, fetch>>
      BY <1>4 DEF ParseBlock
    <2> QED BY <1>1, <1>2, <1>3, <2>1
            DEF Kept, Typed, FetchSound, ChunksSound, CollectionSound
  <1>5. CASE Here.kind \notin {"child_page", "child_database"}
    <2> DEFINE para == [id |-> Here.id, opens |-> Here.kind = "heading" /\ Len(stack) = 1]
    <2>1. /\ text' = Append(text, para)
          /\ fetch' = IF Descends(Here) THEN Start(Here) ELSE NoFetch
      BY <1>5 DEF ParseBlock
    <2>2. para \in Paragraph
      <3>1. Here.id \in Ids /\ (Here.kind = "heading" /\ Len(stack) = 1) \in BOOLEAN
        BY <1>2 DEF Blocks
      <3> QED BY <3>1 DEF Paragraph
    <2> HIDE DEF para
    <2>3. text' \in Seq(Paragraph)
      BY <2>1, <2>2, AppendProperties DEF Kept, Typed
    <2>4. FetchSound'
      <3>1. CASE ~Descends(Here)
        BY <2>1, <3>1 DEF FetchSound
      <3>2. CASE Descends(Here)
        <4>1. /\ Here.kind \in {"table", "group"}
              /\ Here.kind = "group" => Len(stack) <= MaxNesting
          BY <3>2 DEF Descends
        <4>2. Start(Here) \in Fetch /\ Start(Here).kind = Here.kind
          BY <1>2, <4>1, BlockFacts
        <4> QED BY <1>1, <1>2, <2>1, <3>2, <4>1, <4>2 DEF FetchSound
      <3> QED BY <3>1, <3>2
    <2> QED BY <1>1, <1>2, <1>3, <2>3, <2>4 DEF Kept, Typed, ChunksSound, CollectionSound
  <1> QED BY <1>4, <1>5

LEMMA ParsePageKeeps == ASSUME Kept, ParsePage PROVE Kept'
  <1>1. /\ phase = "parse" /\ fetch = NoFetch /\ stack = <<>>
        /\ UNCHANGED <<notion, edits, run, fetch, visited, pages, text, chunks, added,
                       collection, gaps, stirred>>
    BY DEF ParsePage
  <1>2. CASE pages = <<>>
    <2>1. phase' = "drop" /\ stack' = stack
      BY <1>2 DEF ParsePage
    <2> QED BY <1>1, <2>1
            DEF Kept, Typed, FetchSound, PagesSound, ChunksSound, CollectionSound, Idle
  <1>3. CASE pages # <<>>
    <2>1. stack' = <<Head(pages).blocks>> /\ phase' = phase
      BY <1>3 DEF ParsePage
    <2>2. Head(pages).blocks \in Seq(Blocks)
      <3>1. Head(pages) \in Page
        BY <1>3, HeadTailProperties DEF Kept, Typed
      <3> QED BY <3>1 DEF Page
    <2>3. stack' \in Seq(Seq(Blocks)) /\ Len(stack') = 1
      <3> DEFINE blocks == Head(pages).blocks
      <3>1. stack' = Append(<<>>, blocks) /\ blocks \in Seq(Blocks)
        BY <2>1, <2>2
      <3> HIDE DEF blocks
      <3> QED BY <3>1, AppendProperties, EmptySeq
    <2>4. 1 <= MaxNesting + 1
      BY BoundsAssumption
    <2> QED BY <1>1, <1>3, <2>1, <2>3, <2>4
            DEF Kept, Typed, FetchSound, PagesSound, ChunksSound, CollectionSound
  <1> QED BY <1>2, <1>3

-----------------------------------------------------------------------------
(* The collection. *)

LEMMA NoCollectionIsSound ==
    ASSUME run \in Nat
    PROVE  /\ NoCollection \in [run : 0..run, total : Nat, held : {NoCollection.held}]
           /\ DOMAIN NoCollection.held = {} /\ 1..0 = {}
           /\ NoCollection.run = 0 /\ NoCollection.total = 0 /\ NoCollection.held = <<>>
  BY DEF NoCollection

LEMMA DropOldKeeps == ASSUME Kept, DropOld PROVE Kept'
  <1>1. /\ phase = "drop" /\ phase' = "create"
        /\ collection' = NoCollection \/ collection' = collection
        /\ UNCHANGED <<notion, edits, run, stack, fetch, visited, pages, text, chunks, added, gaps,
                       stirred>>
    BY DEF DropOld
  <1>2. run \in Nat
    BY BoundsAssumption DEF Kept, Typed
  <1>3. CollectionSound'
    <2>1. CASE collection' = collection
      BY <1>1, <2>1 DEF Kept, CollectionSound
    <2>2. CASE collection' = NoCollection
      <3>1. \E m \in 0..0 : {} = 1..m
        BY <1>2, NoCollectionIsSound
      <3> QED BY <1>1, <1>2, <2>2, <3>1, NoCollectionIsSound DEF CollectionSound
    <2> QED BY <1>1, <2>1, <2>2
  <1> QED BY <1>1, <1>3 DEF Kept, Typed, FetchSound, PagesSound, ChunksSound, Idle

LEMMA CreateKeeps == ASSUME Kept, Create PROVE Kept'
  <1>1. /\ phase = "create"
        /\ UNCHANGED <<notion, edits, run, stack, fetch, visited, pages, text, chunks, added, gaps,
                       stirred>>
    BY DEF Create
  <1>2. CASE MayCreate
    <2>1. /\ phase' = "add" /\ collection = NoCollection
          /\ collection' = [collection EXCEPT !.run = run, !.total = Len(chunks)]
      BY <1>2 DEF Create, MayCreate
    <2>2. collection' = [run |-> run, total |-> Len(chunks), held |-> <<>>]
      BY <2>1 DEF NoCollection
    <2>3. run \in Nat /\ Len(chunks) \in Nat /\ added = 0
      BY <1>1, BoundsAssumption, LenProperties DEF Kept, Typed, ChunksSound
    <2>4. /\ collection'.run = run /\ collection'.total = Len(chunks) /\ collection'.held = <<>>
          /\ DOMAIN collection'.held = {}
          /\ collection' \in [run : 0..run, total : Nat, held : {collection'.held}]
      BY <2>2, <2>3
    <2>5. 0 \in 0..Len(chunks) /\ 1..0 = {}
      BY <2>3
    <2>6. CollectionSound'
      BY <1>1, <2>1, <2>3, <2>4, <2>5 DEF CollectionSound
    <2> QED BY <1>1, <2>1, <2>6 DEF Kept, Typed, FetchSound, PagesSound, ChunksSound, Idle
  <1>3. CASE ~MayCreate
    <2>1. phase' = "dead" /\ collection' = collection
      BY <1>3 DEF Create
    <2> QED BY <1>1, <2>1
            DEF Kept, Typed, FetchSound, PagesSound, ChunksSound, CollectionSound, Idle
  <1> QED BY <1>2, <1>3

LEMMA AddBatchKeeps == ASSUME Kept, AddBatch PROVE Kept'
  <1>1. /\ phase = "add"
        /\ UNCHANGED <<notion, edits, run, stack, fetch, visited, pages, text, chunks, gaps,
                       stirred>>
    BY DEF AddBatch
  <1>2. /\ collection.run = run /\ collection.total = Len(chunks)
        /\ DOMAIN collection.held = 1..added
        /\ \A i \in 1..added : collection.held[i] = chunks[i]
    BY <1>1 DEF Kept, CollectionSound
  <1>3. Len(chunks) \in Nat /\ DOMAIN chunks = 1..Len(chunks) /\ added \in 0..Len(chunks)
    BY LenProperties DEF Kept, ChunksSound
  <1>4. CASE added = Len(chunks)
    <2>1. phase' = "done" /\ UNCHANGED <<added, collection>>
      BY <1>4 DEF AddBatch
    <2>2. CollectionSound'
      BY <1>1, <1>2, <1>4, <2>1 DEF Kept, CollectionSound
    <2>3. ChunksSound'
      BY <1>1, <2>1 DEF Kept, ChunksSound
    <2> QED BY <1>1, <2>1, <2>2, <2>3 DEF Kept, Typed, FetchSound, PagesSound, Idle
  <1>5. CASE added # Len(chunks)
    <2> DEFINE to == Upto(added)
               before == collection.held
               after == [i \in DOMAIN before \cup (added + 1 .. to) |->
                            IF i \in DOMAIN before THEN before[i] ELSE chunks[i]]
    <2>1. added' = to /\ collection' = [collection EXCEPT !.held = after] /\ phase' = phase
      BY <1>5 DEF AddBatch
    <2>2. to \in 0..Len(chunks) /\ added <= to
      BY <1>3, BoundsAssumption DEF Upto
    <2> HIDE DEF to
    <2>3. DOMAIN before \cup (added + 1 .. to) = 1..to
      BY <1>2, <1>3, <2>2
    <2>4. DOMAIN after = 1..to /\ \A i \in 1..to : after[i] = chunks[i]
      BY <1>2, <1>3, <2>2, <2>3
    <2> HIDE DEF after
    <2>5. /\ collection'.run = run /\ collection'.total = Len(chunks) /\ collection'.held = after
          /\ collection' \in [run : 0..run, total : Nat, held : {after}]
      <3> DEFINE c == collection
      <3>1. c = [run |-> c.run, total |-> c.total, held |-> c.held] /\ c.run \in 0..run
        BY DEF Kept, CollectionSound
      <3>2. collection' = [run |-> c.run, total |-> c.total, held |-> after]
        BY <2>1, <3>1
      <3> QED BY <1>2, <1>3, <3>1, <3>2
    <2>6. CollectionSound'
      <3>1. \A i \in 1..to : i \in DOMAIN chunks
        BY <1>3, <2>2
      <3>2. \A i \in DOMAIN after : after[i].run = run /\ after[i].page \in Boundary
        BY <2>4, <3>1 DEF Kept, ChunksSound
      <3>3. \A i, j \in DOMAIN after :
               after[i].page = after[j].page /\ after[i].index = after[j].index => i = j
        BY <2>4, <3>1 DEF Kept, ChunksSound
      <3> QED BY <1>1, <2>1, <2>2, <2>4, <2>5, <3>2, <3>3 DEF CollectionSound
    <2>7. ChunksSound'
      BY <1>1, <2>1, <2>2 DEF Kept, ChunksSound
    <2> QED BY <1>1, <2>1, <2>6, <2>7 DEF Kept, Typed, FetchSound, PagesSound
  <1> QED BY <1>4, <1>5

-----------------------------------------------------------------------------
(* Starts, kills and edits. *)

\* Nothing of a sync outlives it but the collection.
LEMMA ForgetsKeeps ==
    ASSUME Kept, Forgets, run' \in 0..MaxRuns, phase' \in {"crawl", "dead"},
           stack' \in Seq(Seq(Blocks)), gaps' \in BOOLEAN, stirred' \in BOOLEAN,
           run' \in Nat, run <= run', UNCHANGED <<notion, edits, collection>>
    PROVE  Kept'
  <1>1. /\ fetch' = NoFetch /\ visited' = {} /\ pages' = <<>> /\ text' = <<>>
        /\ chunks' = <<>> /\ added' = 0
    BY DEF Forgets
  <1>2. /\ <<>> \in Seq(Page) /\ <<>> \in Seq(Paragraph) /\ <<>> \in Seq(Range(<<>>))
        /\ Len(<<>>) = 0 /\ DOMAIN <<>> = {}
    BY EmptySeq
  <1>3. Typed'
    BY <1>1, <1>2 DEF Kept, Typed, Idle
  <1>4. FetchSound' /\ PagesSound' /\ ChunksSound'
    <2>1. DOMAIN pages' = {} /\ DOMAIN chunks' = {} /\ 0 \in 0..Len(chunks')
      BY <1>1, <1>2
    <2>2. chunks' \in Seq(Range(chunks'))
      BY <1>1, <1>2
    <2> QED BY <1>1, <2>1, <2>2 DEF FetchSound, PagesSound, ChunksSound
  <1>5. CollectionSound'
    <2>1. collection' \in [run : 0..run', total : Nat, held : {collection'.held}]
      <3> DEFINE c == collection
      <3>1. c = [run |-> c.run, total |-> c.total, held |-> c.held] /\ c.run \in 0..run
            /\ c.total \in Nat
        BY DEF Kept, CollectionSound
      <3>2. run \in Int
        BY DEF Kept, Typed
      <3>3. c.run \in 0..run'
        BY <3>1, <3>2
      <3>4. collection' = [run |-> c.run, total |-> c.total, held |-> c.held]
            /\ collection'.held = c.held
        BY <3>1
      <3> HIDE DEF c
      <3> QED BY <3>1, <3>3, <3>4
    <2> QED BY <2>1 DEF Kept, CollectionSound
  <1> QED BY <1>3, <1>4, <1>5 DEF Kept

LEMMA StartSyncKeeps == ASSUME Kept, StartSync PROVE Kept'
  <1> DEFINE root == [id |-> Root, kind |-> "child_page"]
  <1>1. /\ phase' = "crawl" /\ run' = run + 1 /\ run < MaxRuns /\ Forgets
        /\ stack' = <<<<root>>>> /\ gaps' = FALSE /\ stirred' = FALSE
        /\ UNCHANGED <<notion, edits, collection>>
    BY DEF StartSync
  <1>2. run \in Nat /\ run' \in 0..MaxRuns
    BY <1>1, BoundsAssumption DEF Kept, Typed
  <1>3. root \in Blocks
    BY RootAssumption DEF Blocks, Kinds
  <1> HIDE DEF root
  <1>4. stack' \in Seq(Seq(Blocks))
    <2>1. <<root>> = Append(<<>>, root) /\ <<<<root>>>> = Append(<<>>, <<root>>)
      OBVIOUS
    <2>2. <<root>> \in Seq(Blocks)
      BY <1>3, <2>1, AppendProperties, EmptySeq
    <2>3. <<<<root>>>> \in Seq(Seq(Blocks))
      BY <2>1, <2>2, AppendProperties, EmptySeq
    <2> QED BY <1>1, <2>3
  <1>5. run' \in Nat /\ run <= run'
    BY <1>1, <1>2
  <1>6. gaps' \in BOOLEAN /\ stirred' \in BOOLEAN /\ phase' \in {"crawl", "dead"}
    BY <1>1
  <1> QED BY <1>1, <1>2, <1>4, <1>5, <1>6, ForgetsKeeps

LEMMA KilledKeeps == ASSUME Kept, Killed PROVE Kept'
  <1>1. /\ phase' = "dead" /\ stack' = <<>> /\ Forgets
        /\ UNCHANGED <<notion, edits, run, collection, gaps, stirred>>
    BY DEF Killed
  <1>2. stack' \in Seq(Seq(Blocks))
    BY <1>1, EmptySeq
  <1>3. run' = run /\ run \in 0..MaxRuns /\ run \in Nat /\ gaps' \in BOOLEAN /\ stirred' \in BOOLEAN
    BY <1>1, BoundsAssumption DEF Kept, Typed
  <1> QED BY <1>1, <1>2, <1>3, ForgetsKeeps

LEMMA EditedKeeps == ASSUME Kept, Edited PROVE Kept'
  <1>1. /\ edits < MaxEdits /\ edits' = edits + 1 /\ notion' \in Notions /\ stirred' = TRUE
        /\ UNCHANGED <<process, collection, gaps>>
    BY DEF Edited
  <1>2. edits' \in 0..MaxEdits
    BY <1>1, BoundsAssumption DEF Kept, Typed
  <1> QED BY <1>1, <1>2
          DEF process, Kept, Typed, FetchSound, PagesSound, ChunksSound, CollectionSound

-----------------------------------------------------------------------------

LEMMA InitKeeps == Init => Kept
  <1> SUFFICES ASSUME Init PROVE Kept
    OBVIOUS
  <1>1. /\ <<>> \in Seq(Page) /\ <<>> \in Seq(Paragraph) /\ <<>> \in Seq(Range(<<>>))
        /\ <<>> \in Seq(Seq(Blocks)) /\ Len(<<>>) = 0 /\ DOMAIN <<>> = {}
    BY EmptySeq
  <1>2. 0 \in 0..MaxRuns /\ 0 \in 0..MaxEdits /\ 0 \in 0..0
    BY BoundsAssumption
  <1>3. Typed
    BY <1>1, <1>2 DEF Init, Typed, Idle
  <1>4. FetchSound /\ PagesSound /\ ChunksSound
    BY <1>1, <1>2 DEF Init, FetchSound, PagesSound, ChunksSound
  <1>5. CollectionSound
    <2>1. run \in Nat /\ \E m \in 0..0 : {} = 1..m
      BY NoCollectionIsSound DEF Init
    <2> QED BY <2>1, NoCollectionIsSound DEF Init, CollectionSound
  <1> QED BY <1>3, <1>4, <1>5 DEF Kept

LEMMA NextKeeps == ASSUME Kept, [Next]_vars PROVE Kept'
  <1>1. CASE UNCHANGED vars
    BY <1>1 DEF vars, process, Kept, Typed, FetchSound, PagesSound, ChunksSound, CollectionSound
  <1> QED BY <1>1, AnsweredKeeps, ToBeRetriedKeeps, GivesUpKeeps, EndOfListKeeps,
             CrawlBlockKeeps, CrawlDatabaseKeeps, CrawlEndsKeeps, ParsePageKeeps,
             ParseBlockKeeps, DropOldKeeps, CreateKeeps, AddBatchKeeps, StartSyncKeeps,
             KilledKeeps, EditedKeeps DEF Next, Step

LEMMA AlwaysKept == Spec => []Kept
  BY InitKeeps, NextKeeps, PTL DEF Spec

-----------------------------------------------------------------------------
(* Induction, by the least counterexample. *)

LEMMA LeastExists ==
    ASSUME NEW T, T \subseteq Nat, T # {}
    PROVE  \E x \in T : \A y \in T : x <= y
  <1>1. PICK x \in T : \A y \in T : <<y, x>> \notin OpToRel(<, Nat)
    BY NatLessThanWellFounded, WFMin
  <1>2. \A y \in T : <<y, x>> \in Nat \X Nat
    OBVIOUS
  <1>3. \A y \in T : ~(y < x)
    BY <1>1, <1>2 DEF OpToRel
  <1> QED BY <1>3

\* What holds at m, and with every number at the next, holds up to n.
LEMMA Inductive ==
    ASSUME NEW m \in Nat, NEW n \in Nat, NEW S,
           m \in S, \A i \in m..n - 1 : i \in S => i + 1 \in S
    PROVE  m..n \subseteq S
  <1> DEFINE T == {i \in m..n : i \notin S}
  <1> SUFFICES ASSUME T # {} PROVE FALSE
    OBVIOUS
  <1>0. T \subseteq Nat
    OBVIOUS
  <1>1. PICK x \in T : \A y \in T : x <= y
    <2> HIDE DEF T
    <2> QED BY <1>0, LeastExists
  <1>2. x \in T
    BY <1>1
  <1>5. x \in m..n /\ x \notin S /\ x # m
    BY <1>2
  <1>3. x - 1 \in m..n - 1 /\ x - 1 \in m..n /\ x - 1 + 1 = x
    BY <1>5
  <1>4. x - 1 \in S
    BY <1>1, <1>3
  <1> QED BY <1>3, <1>4, <1>5

\* g is the function on m..n that starts with c and continues with f.
Continues(g, c, f, m, n) ==
    g = [i \in m..n |-> IF i = m THEN c ELSE f[<<i, g[i - 1]>>]]

\* A function defined by recursion over an interval exists.
LEMMA RecursionExists ==
    ASSUME NEW X, NEW c \in X, NEW m \in Nat, NEW n \in Nat, NEW f \in [Nat \X X -> X]
    PROVE  \E g \in [m..n -> X] : Continues(g, c, f, m, n)
  <1> DEFINE Defines(g, k) == g = [i \in m..k |-> IF i = m THEN c ELSE f[<<i, g[i - 1]>>]]
             S == {k \in Nat : \E g \in [m..k -> X] : Defines(g, k)}
  <1>1. m \in S
    <2> DEFINE g == [i \in m..m |-> c]
    <2>1. g \in [m..m -> X] /\ Defines(g, m)
      OBVIOUS
    <2> QED BY <2>1
  <1>2. ASSUME NEW k \in m..n - 1, k \in S PROVE k + 1 \in S
    <2>1. PICK g \in [m..k -> X] : Defines(g, k)
      BY <1>2
    <2> DEFINE h == [i \in m..k + 1 |-> IF i = k + 1 THEN f[<<k + 1, g[k]>>] ELSE g[i]]
    <2>2. k \in Nat /\ k + 1 \in Nat /\ k \in m..k /\ m..k \subseteq m..k + 1
          /\ \A i \in m..k + 1 : i = k + 1 \/ i \in m..k
      OBVIOUS
    <2>3. g[k] \in X /\ f[<<k + 1, g[k]>>] \in X
      BY <2>2
    <2>4. h \in [m..k + 1 -> X]
      BY <2>2, <2>3
    <2>5. ASSUME NEW i \in m..k + 1
          PROVE  h[i] = IF i = m THEN c ELSE f[<<i, h[i - 1]>>]
      <3>1. CASE i = k + 1
        <4>1. i # m /\ i - 1 = k /\ k \in m..k + 1 /\ k # k + 1
          BY <3>1, <2>2
        <4>2. h[k] = g[k]
          BY <4>1
        <4> QED BY <3>1, <4>1, <4>2
      <3>2. CASE i # k + 1
        <4>1. i \in m..k /\ h[i] = g[i]
          BY <3>2, <2>2
        <4>2. g[i] = IF i = m THEN c ELSE f[<<i, g[i - 1]>>]
          BY <2>1, <4>1
        <4>3. i # m => h[i - 1] = g[i - 1]
          BY <4>1
        <4> QED BY <4>1, <4>2, <4>3
      <3> QED BY <3>1, <3>2
    <2>6. Defines(h, k + 1)
      BY <2>4, <2>5
    <2> QED BY <2>2, <2>4, <2>6
  <1>3. CASE m <= n
    <2>1. n \in m..n
      BY <1>3
    <2> HIDE DEF S
    <2>2. n \in S
      BY <1>1, <1>2, <2>1, Inductive
    <2> QED BY <2>2 DEF S, Continues
  <1>4. CASE ~(m <= n)
    <2> DEFINE g == [i \in m..n |-> c]
    <2>1. m..n = {} /\ g \in [m..n -> X]
      BY <1>4
    <2>2. g = [i \in m..n |-> IF i = m THEN c ELSE f[<<i, g[i - 1]>>]]
      BY <2>1
    <2> QED BY <2>1, <2>2 DEF Continues
  <1> QED BY <1>3, <1>4

-----------------------------------------------------------------------------
(* The text of a page, level by level and block by block. *)

LEMMA ChildrenFacts ==
    ASSUME NEW n \in Notions, NEW i \in Ids
    PROVE  /\ n[i] \in Seq(Seq(Blocks)) /\ n[i] # <<>> /\ Len(n[i]) \in Nat \ {0}
           /\ \A k \in DOMAIN n[i] : n[i][k] \in Seq(Blocks) /\ Range(n[i][k]) \subseteq Blocks
           /\ ChildrenIn(n, i) \subseteq Blocks
  <1>1. n[i] \in Seq(Seq(Blocks)) /\ n[i] # <<>>
    BY NotionAssumption
  <1>2. Len(n[i]) \in Nat \ {0} /\ DOMAIN n[i] = 1..Len(n[i])
    BY <1>1, EmptySeq, LenProperties
  <1>3. ASSUME NEW s \in Seq(Blocks) PROVE Range(s) \subseteq Blocks
    BY ElementOfSeq, LenProperties DEF Range
  <1>4. \A k \in DOMAIN n[i] : n[i][k] \in Seq(Blocks)
    BY <1>1, <1>2, ElementOfSeq
  <1>5. ChildrenIn(n, i) \subseteq Blocks
    BY <1>3, <1>4 DEF ChildrenIn, Range
  <1> QED BY <1>1, <1>2, <1>3, <1>4, <1>5

LEMMA LevelsFacts ==
    ASSUME NEW n \in Notions, NEW p \in Ids
    PROVE  /\ Levels(n, p) \in [0..MaxNesting -> SUBSET Blocks]
           /\ Levels(n, p) = [d \in 0..MaxNesting |->
                 IF d = 0 THEN ChildrenIn(n, p)
                 ELSE UNION {ChildrenIn(n, b.id) : b \in {c \in Levels(n, p)[d - 1] : c.kind = "group"}}]
  <1> DEFINE X == SUBSET Blocks
             Inside(B) == UNION {ChildrenIn(n, b.id) : b \in {c \in B : c.kind = "group"}}
             f == [x \in Nat \X X |-> Inside(x[2])]
             Is(g) == g = [d \in 0..MaxNesting |->
                             IF d = 0 THEN ChildrenIn(n, p) ELSE Inside(g[d - 1])]
  <1>1. MaxNesting \in Nat /\ ChildrenIn(n, p) \in X
    BY BoundsAssumption, ChildrenFacts
  <1>2. \A B \in X : Inside(B) \in X
    BY ChildrenFacts DEF Blocks
  <1>3. f \in [Nat \X X -> X]
    BY <1>2
  <1>4. \A d \in Nat, B \in X : f[<<d, B>>] = Inside(B)
    OBVIOUS
  <1> HIDE DEF Inside, f
  <1>5. PICK g \in [0..MaxNesting -> X] :
           g = [d \in 0..MaxNesting |-> IF d = 0 THEN ChildrenIn(n, p) ELSE f[<<d, g[d - 1]>>]]
    <2> DEFINE c == ChildrenIn(n, p)
    <2>1. 0 \in Nat /\ c \in X
      BY <1>1
    <2> HIDE DEF X, c
    <2>2. \E g \in [0..MaxNesting -> X] : Continues(g, c, f, 0, MaxNesting)
      BY <1>1, <1>3, <2>1, RecursionExists
    <2> QED BY <2>2 DEF c, Continues
  <1>6. ASSUME NEW d \in 0..MaxNesting, d # 0
        PROVE  f[<<d, g[d - 1]>>] = Inside(g[d - 1])
    <2>1. d \in Nat /\ d - 1 \in 0..MaxNesting
      BY <1>1, <1>6
    <2>2. g[d - 1] \in X
      BY <1>5, <2>1
    <2> QED BY <1>4, <2>1, <2>2
  <1>7. Is(g)
    BY <1>5, <1>6
  <1>8. Levels(n, p) = CHOOSE h : Is(h)
    BY DEF Levels, Inside
  <1>9. Is(Levels(n, p))
    BY <1>7, <1>8
  <1>10. \A d \in 0..MaxNesting : Levels(n, p)[d] \in X
    <2> DEFINE h == Levels(n, p)
               S == {d \in Nat : d \in 0..MaxNesting => h[d] \in X}
    <2> HIDE DEF h
    <2>1. h = [d \in 0..MaxNesting |-> IF d = 0 THEN ChildrenIn(n, p) ELSE Inside(h[d - 1])]
      BY <1>9 DEF h
    <2>2. 0 \in S
      BY <1>1, <2>1
    <2>3. ASSUME NEW d \in 0..MaxNesting - 1, d \in S PROVE d + 1 \in S
      <3>1. d + 1 \in 0..MaxNesting /\ d \in 0..MaxNesting /\ d + 1 # 0 /\ (d + 1) - 1 = d
        BY <1>1
      <3>2. h[d + 1] = Inside(h[d])
        BY <2>1, <3>1
      <3> QED BY <2>3, <3>1, <3>2, <1>2
    <2>4. 0..MaxNesting \subseteq S
      <3> HIDE DEF S
      <3> QED BY <1>1, <2>2, <2>3, Inductive
    <2> QED BY <2>4 DEF h
  <1>11. Levels(n, p) \in [0..MaxNesting -> X]
    BY <1>9, <1>10
  <1> QED BY <1>9, <1>11 DEF Inside

LEMMA OwnTextFacts ==
    ASSUME NEW n \in Notions, NEW b \in Blocks
    PROVE  OwnText(n, b) \subseteq Ids /\ b.id \in Ids
  <1>1. b.id \in Ids
    BY DEF Blocks
  <1>2. \A c \in ChildrenIn(n, b.id) : c.id \in Ids
    BY <1>1, ChildrenFacts DEF Blocks
  <1> QED BY <1>1, <1>2 DEF OwnText

LEMMA DeeperFacts ==
    ASSUME NEW n \in Notions, NEW g \in [Blocks -> SUBSET Ids]
    PROVE  Deeper(n, g) \in [Blocks -> SUBSET Ids]
  <1>1. ASSUME NEW b \in Blocks
        PROVE  /\ OwnText(n, b) \subseteq Ids
               /\ UNION {g[c] : c \in {d \in ChildrenIn(n, b.id) : b.kind = "group"}} \subseteq Ids
    <2>1. ChildrenIn(n, b.id) \subseteq Blocks
      BY ChildrenFacts, OwnTextFacts
    <2>2. \A c \in Blocks : g[c] \subseteq Ids
      OBVIOUS
    <2> QED BY <2>1, <2>2, OwnTextFacts
  <1> QED BY <1>1 DEF Deeper

LEMMA BelowFacts ==
    ASSUME NEW n \in Notions
    PROVE  /\ Below(n) \in [0..MaxNesting -> [Blocks -> SUBSET Ids]]
           /\ Below(n)[0] = [b \in Blocks |-> OwnText(n, b)]
           /\ \A j \in 1..MaxNesting : Below(n)[j] = Deeper(n, Below(n)[j - 1])
  <1> DEFINE X == [Blocks -> SUBSET Ids]
             c == [b \in Blocks |-> OwnText(n, b)]
             f == [x \in Nat \X X |-> Deeper(n, x[2])]
             Is(g) == g = [j \in 0..MaxNesting |-> IF j = 0 THEN c ELSE Deeper(n, g[j - 1])]
  <1>1. MaxNesting \in Nat /\ c \in X /\ 0 \in Nat
    BY BoundsAssumption, OwnTextFacts
  <1>2. \A g \in X : Deeper(n, g) \in X
    BY DeeperFacts
  <1>3. f \in [Nat \X X -> X]
    BY <1>2
  <1>4. \A j \in Nat, g \in X : f[<<j, g>>] = Deeper(n, g)
    OBVIOUS
  <1>5. Below(n) = CHOOSE h : Is(h)
    BY DEF Below
  <1> HIDE DEF X, c, f
  <1>6. PICK g \in [0..MaxNesting -> X] : Continues(g, c, f, 0, MaxNesting)
    BY <1>1, <1>3, RecursionExists
  <1>7. ASSUME NEW j \in 0..MaxNesting, j # 0
        PROVE  f[<<j, g[j - 1]>>] = Deeper(n, g[j - 1])
    <2>1. j \in Nat /\ j - 1 \in 0..MaxNesting
      BY <1>1, <1>7
    <2>2. g[j - 1] \in X
      BY <1>6, <2>1
    <2> QED BY <1>4, <2>1, <2>2
  <1>8. Is(g)
    BY <1>6, <1>7 DEF Continues
  <1>9. Is(Below(n))
    BY <1>5, <1>8
  <1>10. \A j \in 0..MaxNesting : Below(n)[j] \in X
    <2> DEFINE h == Below(n)
               S == {j \in Nat : j \in 0..MaxNesting => h[j] \in X}
    <2> HIDE DEF h
    <2>1. h = [j \in 0..MaxNesting |-> IF j = 0 THEN c ELSE Deeper(n, h[j - 1])]
      BY <1>9 DEF h
    <2>2. 0 \in S
      BY <1>1, <2>1
    <2>3. ASSUME NEW j \in 0..MaxNesting - 1, j \in S PROVE j + 1 \in S
      <3>1. j + 1 \in 0..MaxNesting /\ j \in 0..MaxNesting /\ j + 1 # 0 /\ (j + 1) - 1 = j
        BY <1>1
      <3>2. h[j + 1] = Deeper(n, h[j])
        BY <2>1, <3>1
      <3> QED BY <2>3, <3>1, <3>2, <1>2
    <2>4. 0..MaxNesting \subseteq S
      <3> HIDE DEF S
      <3> QED BY <1>1, <2>2, <2>3, Inductive
    <2> QED BY <2>4 DEF h
  <1>11. Below(n) \in [0..MaxNesting -> X]
    BY <1>9, <1>10
  <1>12. Below(n)[0] = c
    BY <1>1, <1>9
  <1>13. ASSUME NEW j \in 1..MaxNesting PROVE Below(n)[j] = Deeper(n, Below(n)[j - 1])
    BY <1>1, <1>9
  <1> QED BY <1>11, <1>12, <1>13 DEF X, c

\* What a list yields: what its blocks do by themselves, and what its groups hold.
LEMMA YieldsFacts ==
    ASSUME NEW n \in Notions, NEW j \in 0..MaxNesting, NEW B, B \subseteq Blocks
    PROVE  Yields(n, j, B) =
              (UNION {OwnText(n, b) : b \in B})
              \cup UNION {Yields(n, j - 1, ChildrenIn(n, b.id)) :
                            b \in {c \in B : c.kind = "group" /\ j # 0}}
  <1>1. CASE j = 0
    <2>1. \A b \in B : Below(n)[j][b] = OwnText(n, b)
      BY <1>1, BelowFacts
    <2> QED BY <1>1, <2>1 DEF Yields
  <1>2. CASE j # 0
    <2>1. j \in 1..MaxNesting
      BY <1>2, BoundsAssumption
    <2>2. Below(n)[j] = Deeper(n, Below(n)[j - 1])
      BY <2>1, BelowFacts
    <2>3. \A b \in B : Below(n)[j][b] = OwnText(n, b) \cup
             UNION {Below(n)[j - 1][c] : c \in {d \in ChildrenIn(n, b.id) : b.kind = "group"}}
      BY <2>2 DEF Deeper
    <2>4. \A b \in B : Below(n)[j][b] = OwnText(n, b) \cup
             UNION {Yields(n, j - 1, ChildrenIn(n, c.id)) : c \in {d \in {b} : d.kind = "group"}}
      BY <2>3 DEF Yields
    <2> QED BY <1>2, <2>4 DEF Yields
  <1> QED BY <1>1, <1>2

\* The text of a page is what the walk over it yields.
LEMMA TextIsYielded ==
    ASSUME NEW n \in Notions, NEW p \in Ids
    PROVE  TextOf(n, p) = Yields(n, MaxNesting, ChildrenIn(n, p))
  <1> DEFINE at == Levels(n, p)
             Above(d) == UNION {UNION {OwnText(n, b) : b \in at[e]} : e \in 0..d}
             Under(d) == UNION {Yields(n, MaxNesting - d - 1, ChildrenIn(n, b.id)) :
                                  b \in {c \in at[d] : c.kind = "group" /\ d # MaxNesting}}
             whole == Yields(n, MaxNesting, ChildrenIn(n, p))
             S == {d \in Nat : Above(d) \cup Under(d) = whole}
  <1>1. /\ MaxNesting \in Nat /\ at \in [0..MaxNesting -> SUBSET Blocks]
        /\ at[0] = ChildrenIn(n, p)
        /\ \A d \in 1..MaxNesting :
              at[d] = UNION {ChildrenIn(n, b.id) : b \in {c \in at[d - 1] : c.kind = "group"}}
    BY BoundsAssumption, LevelsFacts
  <1> HIDE DEF at
  <1>2. ASSUME NEW d \in 0..MaxNesting
        PROVE  Yields(n, MaxNesting - d, at[d]) = Under(d) \cup UNION {OwnText(n, b) : b \in at[d]}
    <2>1. MaxNesting - d \in 0..MaxNesting /\ at[d] \subseteq Blocks /\ (MaxNesting - d = 0 <=> d = MaxNesting)
      BY <1>1
    <2> QED BY <2>1, YieldsFacts
  <1>3. 0 \in S
    <2>1. 0 \in 0..MaxNesting /\ MaxNesting - 0 = MaxNesting /\ 0..0 = {0}
      BY <1>1
    <2>2. Above(0) = UNION {OwnText(n, b) : b \in at[0]}
      BY <2>1
    <2>3. whole = Under(0) \cup UNION {OwnText(n, b) : b \in at[0]}
      <3> HIDE DEF Under
      <3> QED BY <1>1, <1>2, <2>1
    <2> QED BY <2>2, <2>3
  <1>4. ASSUME NEW d \in 0..MaxNesting - 1, d \in S PROVE d + 1 \in S
    <2>1. d \in 0..MaxNesting /\ d + 1 \in 1..MaxNesting /\ d + 1 \in 0..MaxNesting /\ d # MaxNesting
          /\ (d + 1) - 1 = d /\ MaxNesting - d - 1 = MaxNesting - (d + 1) /\ d + 1 \in Nat
          /\ 0..d + 1 = 0..d \cup {d + 1}
      BY <1>1
    <2>2. Above(d + 1) = Above(d) \cup UNION {OwnText(n, b) : b \in at[d + 1]}
      BY <2>1
    <2>3. Under(d) = Yields(n, MaxNesting - (d + 1), at[d + 1])
      <3>1. at[d + 1] = UNION {ChildrenIn(n, b.id) : b \in {c \in at[d] : c.kind = "group"}}
        BY <1>1, <2>1
      <3> QED BY <2>1, <3>1 DEF Yields
    <2>4. Under(d) = Under(d + 1) \cup UNION {OwnText(n, b) : b \in at[d + 1]}
      <3> HIDE DEF Under
      <3> QED BY <1>2, <2>1, <2>3
    <2>5. Above(d) \cup Under(d) = whole
      BY <1>4
    <2> HIDE DEF Above, Under, whole
    <2>6. Above(d + 1) \cup Under(d + 1) = whole
      BY <2>2, <2>4, <2>5
    <2> QED BY <2>1, <2>6
  <1>5. MaxNesting \in S
    <2>1. 0..MaxNesting \subseteq S /\ 0 \in Nat
      <3> HIDE DEF S
      <3> QED BY <1>1, <1>3, <1>4, Inductive
    <2> QED BY <1>1, <2>1
  <1>6. whole = Above(MaxNesting)
    <2>1. Under(MaxNesting) = {}
      OBVIOUS
    <2>2. Above(MaxNesting) \cup Under(MaxNesting) = whole
      BY <1>5
    <2> HIDE DEF Above, Under, whole
    <2> QED BY <2>1, <2>2
  <1>7. TextOf(n, p) = Above(MaxNesting)
    BY DEF TextOf, OwnText, at
  <1> HIDE DEF Above
  <1> QED BY <1>6, <1>7

-----------------------------------------------------------------------------
(* The chunks of a page. *)

LEMMA BeginsFacts ==
    ASSUME NEW t \in Seq(Paragraph)
    PROVE  /\ \A i \in 1..Len(t) : Begins(t)[i] \in 1..i
           /\ \A i \in 1..Len(t) - 1 :
                 ~EndsChunk(t, Begins(t)[i], i) => Begins(t)[i + 1] = Begins(t)[i]
  <1> DEFINE Anew(i, b) == IF Fits(SubSeq(t, b, i)) THEN b
                           ELSE IF Size[t[i - 1].id] <= ChunkOverlapChars THEN i - 1 ELSE i
             f == [x \in Nat \X Int |-> IF t[x[1]].opens THEN x[1] ELSE Anew(x[1], x[2])]
             Is(g) == g = [i \in 1..Len(t) |->
                             IF i = 1 \/ t[i].opens THEN i ELSE Anew(i, g[i - 1])]
  <1>1. Len(t) \in Nat /\ 1 \in Nat /\ 1 \in Int
    BY LenProperties
  <1>2. \A i \in Nat, b \in Int : Anew(i, b) \in Int /\ Anew(i, b) \in {b, i - 1, i}
    OBVIOUS
  <1>3. Begins(t) = CHOOSE h : Is(h)
    BY DEF Begins
  <1> HIDE DEF Anew
  <1>4. f \in [Nat \X Int -> Int]
    BY <1>2
  <1>5. \A i \in Nat, b \in Int : f[<<i, b>>] = IF t[i].opens THEN i ELSE Anew(i, b)
    OBVIOUS
  <1> HIDE DEF f
  <1>6. PICK g \in [1..Len(t) -> Int] : Continues(g, 1, f, 1, Len(t))
    BY <1>1, <1>4, RecursionExists
  <1>7. ASSUME NEW i \in 1..Len(t)
        PROVE  g[i] = IF i = 1 \/ t[i].opens THEN i ELSE Anew(i, g[i - 1])
    <2>1. g[i] = IF i = 1 THEN 1 ELSE f[<<i, g[i - 1]>>]
      BY <1>6 DEF Continues
    <2>2. ASSUME i # 1 PROVE f[<<i, g[i - 1]>>] = IF t[i].opens THEN i ELSE Anew(i, g[i - 1])
      <3>1. i \in Nat /\ i - 1 \in 1..Len(t)
        BY <1>1, <2>2
      <3>2. g[i - 1] \in Int
        BY <1>6, <3>1
      <3> QED BY <1>5, <3>1, <3>2
    <2> QED BY <2>1, <2>2
  <1>8. Is(g)
    BY <1>6, <1>7
  <1>9. Is(Begins(t))
    BY <1>3, <1>8
  <1> DEFINE h == Begins(t)
  <1> HIDE DEF h
  <1>10. \A i \in 1..Len(t) : h[i] = IF i = 1 \/ t[i].opens THEN i ELSE Anew(i, h[i - 1])
    BY <1>9 DEF h
  <1>11. \A i \in 1..Len(t) : h[i] \in 1..i
    <2> DEFINE S == {i \in Nat : i \in 1..Len(t) => h[i] \in 1..i}
    <2>1. 1 \in S
      BY <1>10
    <2>2. ASSUME NEW i \in 1..Len(t) - 1, i \in S PROVE i + 1 \in S
      <3>1. i \in 1..Len(t) /\ i + 1 \in 1..Len(t) /\ i + 1 \in Nat /\ (i + 1) - 1 = i
        BY <1>1
      <3>2. h[i] \in 1..i /\ h[i] \in Int
        BY <2>2, <3>1
      <3>3. Anew(i + 1, h[i]) \in {h[i], i, i + 1}
        BY <1>2, <3>1, <3>2
      <3>4. h[i + 1] \in {h[i], i, i + 1}
        BY <1>10, <3>1, <3>3
      <3> QED BY <3>1, <3>2, <3>4
    <2>3. 1..Len(t) \subseteq S
      <3> HIDE DEF S
      <3> QED BY <1>1, <2>1, <2>2, Inductive
    <2> QED BY <2>3
  <1>12. ASSUME NEW i \in 1..Len(t) - 1, ~EndsChunk(t, h[i], i)
         PROVE  h[i + 1] = h[i]
    <2>1. i + 1 \in 1..Len(t) /\ i + 1 # 1 /\ (i + 1) - 1 = i
      BY <1>1
    <2>2. ~t[i + 1].opens /\ Fits(SubSeq(t, h[i], i + 1))
      BY <1>12 DEF EndsChunk
    <2>3. h[i + 1] = Anew(i + 1, h[i])
      BY <1>10, <2>1, <2>2
    <2> QED BY <2>2, <2>3 DEF Anew
  <1> QED BY <1>11, <1>12 DEF h

\* Counting the members of a set of numbers up to each of them numbers them.
LEMMA Ranked ==
    ASSUME NEW m \in Nat, NEW E, E \subseteq 1..m
    PROVE  /\ Cardinality(E) \in Nat
           /\ \A i \in E : Cardinality({j \in E : j <= i}) \in 1..Cardinality(E)
           /\ \A i, k \in E : Cardinality({j \in E : j <= i}) = Cardinality({j \in E : j <= k})
                             => i = k
           /\ \A k \in 1..Cardinality(E) : \E i \in E : Cardinality({j \in E : j <= i}) = k
  <1> DEFINE UpTo(i) == {j \in E : j <= i}
             f == [i \in E |-> Cardinality(UpTo(i))]
             c == Cardinality(E)
  <1>1. IsFiniteSet(E) /\ c \in Nat
    <2>1. IsFiniteSet(1..m)
      BY FS_Interval
    <2> QED BY <2>1, FS_Subset, FS_CardinalityType
  <1>2. ASSUME NEW i \in E
        PROVE  IsFiniteSet(UpTo(i)) /\ Cardinality(UpTo(i)) \in 1..c
    <2>1. UpTo(i) \in SUBSET E /\ i \in UpTo(i)
      OBVIOUS
    <2> HIDE DEF UpTo
    <2>2. IsFiniteSet(UpTo(i)) /\ Cardinality(UpTo(i)) <= c
      BY <1>1, <2>1, FS_Subset
    <2>3. Cardinality(UpTo(i)) \in Nat /\ Cardinality(UpTo(i)) # 0
      BY <2>1, <2>2, FS_CardinalityType, FS_EmptySet
    <2> QED BY <1>1, <2>2, <2>3
  <1>3. ASSUME NEW i \in E, NEW k \in E, i < k
        PROVE  Cardinality(UpTo(i)) # Cardinality(UpTo(k))
    <2>1. i \in Int /\ k \in Int /\ \A j \in E : j \in Int
      OBVIOUS
    <2>4. \A j \in E : j <= i => j <= k
      BY <1>3, <2>1
    <2>5. k <= k /\ ~(k <= i)
      BY <1>3, <2>1
    <2>2. UpTo(i) \in SUBSET UpTo(k) /\ k \in UpTo(k) /\ k \notin UpTo(i)
      BY <2>4, <2>5
    <2>3. IsFiniteSet(UpTo(k))
      BY <1>2
    <2> HIDE DEF UpTo
    <2> QED BY <2>2, <2>3, FS_Subset
  <1>4. ASSUME NEW i \in E, NEW k \in E, Cardinality(UpTo(i)) = Cardinality(UpTo(k))
        PROVE  i = k
    <2>1. i < k \/ k < i \/ i = k
      OBVIOUS
    <2> QED BY <1>3, <1>4, <2>1
  <1> HIDE DEF UpTo, c
  <1>5. f \in Injection(E, 1..c)
    BY <1>2, <1>4 DEF Injection, IsInjective
  <1>6. IsFiniteSet(1..c) /\ Cardinality(1..c) = c
    BY <1>1, FS_Interval
  <1>7. f \in Surjection(E, 1..c)
    BY <1>5, <1>6, FS_Injection DEF c
  <1>8. \A k \in 1..c : \E i \in E : Cardinality(UpTo(i)) = k
    BY <1>7 DEF Surjection
  <1> QED BY <1>1, <1>2, <1>4, <1>8 DEF UpTo, c

\* The chunks of a page cover its text, wherever the text was split, and a page
\* without text has none.
THEOREM ChunksCover ==
    ASSUME NEW page, NEW t \in Seq(Paragraph)
    PROVE  /\ UNION {{b.id : b \in Range(c.parts)} : c \in Range(Chunked(page, t))}
                  = {b.id : b \in Range(t)}
           /\ t = <<>> => Chunked(page, t) = <<>>
  <1> DEFINE begin == Begins(t)
             ends == {i \in DOMAIN t : EndsChunk(t, begin[i], i)}
             rank(i) == Cardinality({j \in ends : j <= i})
             end(k) == CHOOSE i \in ends : rank(i) = k
             n == Cardinality(ends)
             parts(k) == SubSeq(t, begin[end(k)], end(k))
             chunk(k) == [run |-> run, page |-> page, index |-> k, of |-> n, parts |-> parts(k)]
  <1>1. Chunked(page, t) = [k \in 1..n |-> chunk(k)]
    BY DEF Chunked
  <1>2. Len(t) \in Nat /\ DOMAIN t = 1..Len(t) /\ ends \subseteq 1..Len(t)
    BY LenProperties
  <1>3. /\ \A i \in 1..Len(t) : begin[i] \in 1..i
        /\ \A i \in 1..Len(t) - 1 : i \notin ends => begin[i + 1] = begin[i]
        /\ Len(t) \in ends \/ Len(t) = 0
    <2>1. \A i \in 1..Len(t) : begin[i] \in 1..i
      BY BeginsFacts
    <2>2. ASSUME NEW i \in 1..Len(t) - 1, i \notin ends PROVE begin[i + 1] = begin[i]
      <3>1. i \in DOMAIN t
        BY <1>2
      <3>2. ~EndsChunk(t, begin[i], i)
        BY <2>2, <3>1
      <3> QED BY <3>2, BeginsFacts
    <2>3. ASSUME Len(t) # 0 PROVE Len(t) \in ends
      <3>1. Len(t) \in DOMAIN t
        BY <1>2, <2>3
      <3> QED BY <3>1 DEF EndsChunk
    <2> HIDE DEF begin, ends
    <2> QED BY <2>1, <2>2, <2>3
  <1> HIDE DEF begin, ends
  <1>4. /\ n \in Nat
        /\ \A i \in ends : rank(i) \in 1..n
        /\ \A i, k \in ends : rank(i) = rank(k) => i = k
        /\ \A k \in 1..n : \E i \in ends : rank(i) = k
    BY <1>2, Ranked
  <1> HIDE DEF rank, n
  <1>5. \A k \in 1..n : end(k) \in ends /\ rank(end(k)) = k
    BY <1>4
  <1>6. \A i \in ends : rank(i) \in 1..n /\ end(rank(i)) = i
    BY <1>4, <1>5
  <1> HIDE DEF end
  <1>7. ASSUME NEW i \in 1..Len(t), NEW j \in i..Len(t)
        PROVE  Range(SubSeq(t, i, j)) = {t[k] : k \in i..j}
    <2>1. SubSeq(t, i, j) = [k \in 1..(j - i + 1) |-> t[i + k - 1]]
      BY <1>2
    <2>2. \A k \in i..j : k - i + 1 \in 1..(j - i + 1) /\ i + (k - i + 1) - 1 = k
      BY <1>2
    <2>3. \A k \in 1..(j - i + 1) : i + k - 1 \in i..j
      BY <1>2
    <2> DEFINE s == SubSeq(t, i, j)
    <2>4. \A k \in i..j : s[k - i + 1] = t[k] /\ k - i + 1 \in DOMAIN s
      BY <2>1, <2>2
    <2>5. \A k \in DOMAIN s : i + k - 1 \in i..j /\ s[k] = t[i + k - 1]
      BY <2>1, <2>3
    <2> HIDE DEF s
    <2>7. \A k \in DOMAIN s : s[k] \in {t[x] : x \in i..j}
      BY <2>5
    <2>8. \A x \in i..j : t[x] \in {s[k] : k \in DOMAIN s}
      <3> TAKE x \in i..j
      <3> DEFINE y == x - i + 1
      <3>1. s[y] = t[x] /\ y \in DOMAIN s
        BY <2>4
      <3> HIDE DEF y
      <3> QED BY <3>1
    <2>6. Range(s) = {t[k] : k \in i..j}
      BY <2>7, <2>8 DEF Range
    <2> QED BY <2>6 DEF s
  <1>8. \A k \in 1..n : /\ Range(parts(k)) = {t[i] : i \in begin[end(k)]..end(k)}
                       /\ Range(parts(k)) \subseteq Range(t)
    <2> TAKE k \in 1..n
    <2> DEFINE e == end(k)
               b == begin[e]
    <2>1. e \in 1..Len(t) /\ b \in 1..e
      BY <1>2, <1>3, <1>5
    <2> HIDE DEF e, b
    <2>2. b \in 1..Len(t) /\ e \in b..Len(t) /\ b..e \subseteq 1..Len(t)
      BY <1>2, <2>1
    <2>3. Range(SubSeq(t, b, e)) = {t[i] : i \in b..e}
      BY <1>7, <2>2
    <2>4. {t[i] : i \in b..e} \subseteq Range(t)
      BY <1>2, <2>2 DEF Range
    <2> QED BY <2>3, <2>4 DEF b, e
  <1>9. ASSUME NEW i \in 1..Len(t)
        PROVE  \E e \in ends : i \in begin[e]..e
    <2> DEFINE T == {e \in ends : i <= e}
    <2>0. Len(t) # 0 /\ i <= Len(t)
      BY <1>2
    <2>8. Len(t) \in ends
      BY <1>3, <2>0
    <2>9. \A x \in 1..Len(t) : x \in Nat
      BY <1>2
    <2>1. T \subseteq Nat /\ Len(t) \in T
      BY <1>2, <2>0, <2>8, <2>9
    <2>2. PICK e \in T : \A x \in T : e <= x
      <3> HIDE DEF T
      <3> QED BY <2>1, LeastExists
    <2>3. e \in ends /\ e \in i..Len(t)
      BY <1>2, <2>2
    <2> DEFINE S == {j \in Nat : begin[j] \in 1..i}
    <2>4. i \in S
      BY <1>2, <1>3
    <2>5. ASSUME NEW j \in i..e - 1, j \in S PROVE j + 1 \in S
      <3>1. j \in 1..Len(t) - 1 /\ j + 1 \in Nat /\ i <= j /\ ~(e <= j)
        BY <1>2, <2>3
      <3>2. j \notin ends
        BY <2>2, <3>1
      <3> QED BY <1>3, <2>5, <3>1, <3>2
    <2>6. i..e \subseteq S
      <3>1. i \in Nat /\ e \in Nat
        BY <1>2, <2>3
      <3> HIDE DEF S
      <3> QED BY <2>4, <2>5, <3>1, Inductive
    <2>7. begin[e] \in 1..i
      BY <1>2, <2>3, <2>6
    <2> QED BY <1>2, <2>3, <2>7
  <1> HIDE DEF parts
  <1>10. \A k \in 1..n : chunk(k).parts = parts(k)
    OBVIOUS
  <1>11. Range(Chunked(page, t)) = {chunk(k) : k \in 1..n}
    BY <1>1 DEF Range
  <1> HIDE DEF chunk
  <1>12. ASSUME NEW x \in Range(t)
         PROVE  \E k \in 1..n : x \in Range(parts(k))
    <2>1. PICK i \in 1..Len(t) : x = t[i]
      BY <1>2 DEF Range
    <2>2. PICK e \in ends : i \in begin[e]..e
      BY <1>9
    <2>3. rank(e) \in 1..n /\ end(rank(e)) = e
      BY <1>6
    <2> QED BY <1>8, <2>1, <2>2, <2>3
  <1>13. UNION {{b.id : b \in Range(c.parts)} : c \in Range(Chunked(page, t))}
           = {b.id : b \in Range(t)}
    <2>1. ASSUME NEW k \in 1..n, NEW b \in Range(chunk(k).parts) PROVE b \in Range(t)
      BY <1>8, <1>10
    <2>2. ASSUME NEW b \in Range(t) PROVE \E k \in 1..n : b \in Range(chunk(k).parts)
      BY <1>10, <1>12
    <2> QED BY <1>11, <2>1, <2>2
  <1>14. ASSUME t = <<>> PROVE Chunked(page, t) = <<>>
    <2>1. Len(t) = 0 /\ ends = {}
      BY <1>2, <1>14, EmptySeq
    <2>2. n = 0
      BY <2>1, FS_EmptySet DEF n
    <2> QED BY <1>1, <2>2
  <1> QED BY <1>13, <1>14

-----------------------------------------------------------------------------
(* What is to be found, and what a list leads to. *)

LEMMA FindableFacts ==
    ASSUME NEW n
    PROVE  /\ Findable(n) \subseteq Boundary
           /\ Closed(n, Findable(n))
           /\ \A S \in SUBSET Boundary : Closed(n, S) => Findable(n) \subseteq S
  <1>1. Root \in Findable(n)
    BY RootAssumption DEF Findable, Closed
  <1>2. ASSUME NEW p \in Findable(n), NEW q \in Boundary \cap LeadsTo(n, ChildrenIn(n, p))
        PROVE  q \in Findable(n)
    <2>1. ASSUME NEW S \in SUBSET Boundary, Closed(n, S) PROVE q \in S
      <3>1. p \in S
        BY <2>1 DEF Findable
      <3> QED BY <2>1, <3>1 DEF Closed
    <2> QED BY <2>1 DEF Findable
  <1> QED BY <1>1, <1>2 DEF Findable, Closed

LEMMA LeadsToParts ==
    ASSUME NEW n, NEW A, NEW B
    PROVE  LeadsTo(n, A \cup B) = LeadsTo(n, A) \cup LeadsTo(n, B)
  BY DEF LeadsTo

LEMMA LeadsToOne ==
    ASSUME NEW n, NEW b
    PROVE  /\ b.kind = "child_page" => LeadsTo(n, {b}) = {b.id}
           /\ b.kind = "child_database" => LeadsTo(n, {b}) = {row.id : row \in Range(n[b.id][1])}
           /\ b.kind \notin {"child_page", "child_database"} => LeadsTo(n, {b}) = {}
  BY DEF LeadsTo

LEMMA PagesLeadToThemselves ==
    ASSUME NEW n, NEW B, \A b \in B : b.kind = "child_page"
    PROVE  LeadsTo(n, B) = {b.id : b \in B}
  BY DEF LeadsTo

LEMMA YieldsParts ==
    ASSUME NEW n, NEW j, NEW A, NEW B
    PROVE  Yields(n, j, A \cup B) = Yields(n, j, A) \cup Yields(n, j, B)
  BY DEF Yields

LEMMA RangeFacts ==
    ASSUME NEW S, NEW s \in Seq(S)
    PROVE  /\ Range(s) \subseteq S
           /\ s = <<>> => Range(s) = {}
           /\ s # <<>> => Range(s) = {Head(s)} \cup Range(Tail(s))
           /\ \A x \in S : Range(Append(s, x)) = Range(s) \cup {x}
           /\ \A t \in Seq(S) : Range(s \o t) = Range(s) \cup Range(t)
  <1>1. Len(s) \in Nat /\ DOMAIN s = 1..Len(s)
    BY LenProperties
  <1>2. Range(s) \subseteq S
    BY <1>1, ElementOfSeq DEF Range
  <1>3. ASSUME s = <<>> PROVE Range(s) = {}
    BY <1>1, <1>3, EmptySeq DEF Range
  <1>4. ASSUME s # <<>> PROVE Range(s) = {Head(s)} \cup Range(Tail(s))
    <2>1. /\ Len(Tail(s)) = Len(s) - 1 /\ Tail(s) \in Seq(S) /\ Len(s) # 0 /\ Head(s) = s[1]
          /\ \A i \in 1..Len(s) - 1 : Tail(s)[i] = s[i + 1]
      BY <1>1, <1>4, HeadTailProperties, EmptySeq
    <2>2. DOMAIN Tail(s) = 1..Len(s) - 1
      BY <2>1, LenProperties
    <2>3. \A i \in 1..Len(s) : i = 1 \/ (i - 1 \in 1..Len(s) - 1 /\ s[i] = Tail(s)[i - 1])
      BY <1>1, <2>1
    <2>4. \A i \in 1..Len(s) - 1 : i + 1 \in 1..Len(s)
      BY <1>1
    <2>5. ASSUME NEW x \in Range(s) PROVE x = Head(s) \/ x \in Range(Tail(s))
      <3>1. PICK i \in 1..Len(s) : x = s[i]
        BY <1>1 DEF Range
      <3>2. i = 1 \/ (i - 1 \in DOMAIN Tail(s) /\ x = Tail(s)[i - 1])
        BY <2>2, <2>3, <3>1
      <3> QED BY <2>1, <3>1, <3>2 DEF Range
    <2>6. \A x \in Range(Tail(s)) : x \in Range(s)
      BY <1>1, <2>1, <2>2, <2>4 DEF Range
    <2>7. Head(s) \in Range(s)
      BY <1>1, <2>1 DEF Range
    <2> QED BY <2>5, <2>6, <2>7
  <1>5. ASSUME NEW x \in S PROVE Range(Append(s, x)) = Range(s) \cup {x}
    <2> DEFINE a == Append(s, x)
    <2>1. /\ DOMAIN a = 1..Len(s) + 1 /\ a[Len(s) + 1] = x
          /\ \A i \in 1..Len(s) : a[i] = s[i]
      BY <1>1, AppendProperties, LenProperties
    <2> HIDE DEF a
    <2>2. 1..Len(s) + 1 = 1..Len(s) \cup {Len(s) + 1}
      BY <1>1
    <2>3. Range(a) = Range(s) \cup {x}
      BY <1>1, <2>1, <2>2 DEF Range
    <2> QED BY <2>3 DEF a
  <1>6. ASSUME NEW t \in Seq(S) PROVE Range(s \o t) = Range(s) \cup Range(t)
    <2> DEFINE a == s \o t
    <2>1. /\ Len(t) \in Nat /\ DOMAIN t = 1..Len(t)
          /\ DOMAIN a = 1..Len(s) + Len(t)
          /\ \A i \in 1..Len(s) + Len(t) : a[i] = IF i <= Len(s) THEN s[i] ELSE t[i - Len(s)]
      BY <1>1, ConcatProperties, LenProperties
    <2> HIDE DEF a
    <2>2. \A i \in 1..Len(s) + Len(t) : i \in 1..Len(s) \/ (~(i <= Len(s)) /\ i - Len(s) \in 1..Len(t))
      BY <1>1, <2>1
    <2>3. \A i \in 1..Len(s) : i \in 1..Len(s) + Len(t) /\ a[i] = s[i]
      BY <1>1, <2>1
    <2>4. \A i \in 1..Len(t) : i + Len(s) \in 1..Len(s) + Len(t) /\ a[i + Len(s)] = t[i]
      BY <1>1, <2>1
    <2>5. \A y \in Range(a) : y \in Range(s) \cup Range(t)
      BY <1>1, <2>1, <2>2 DEF Range
    <2>6. \A y \in Range(s) : y \in Range(a)
      BY <1>1, <2>1, <2>3 DEF Range
    <2>7. \A y \in Range(t) : y \in Range(a)
      BY <1>1, <2>1, <2>4 DEF Range
    <2>8. Range(a) = Range(s) \cup Range(t)
      BY <2>5, <2>6, <2>7
    <2> QED BY <2>8 DEF a
  <1> QED BY <1>2, <1>3, <1>4, <1>5, <1>6

\* The rows of a table are text.
LEMMA RowsFacts ==
    ASSUME NEW t \in Seq(Paragraph), NEW blocks \in Seq(Blocks), NEW rows,
           rows = [i \in 1..Len(blocks) |-> [id |-> blocks[i].id, opens |-> FALSE]]
    PROVE  {b.id : b \in Range(t \o rows)} = {b.id : b \in Range(t)} \cup {b.id : b \in Range(blocks)}
  <1>1. Len(blocks) \in Nat /\ DOMAIN blocks = 1..Len(blocks)
    BY LenProperties
  <1>2. \A i \in 1..Len(blocks) : rows[i].id = blocks[i].id /\ rows[i] \in Paragraph
    <2>1. \A i \in 1..Len(blocks) : blocks[i] \in Blocks
      BY ElementOfSeq
    <2>2. \A i \in 1..Len(blocks) : blocks[i].id \in Ids
      BY <2>1 DEF Blocks
    <2> QED BY <2>2 DEF Paragraph
  <1>3. rows \in [1..Len(blocks) -> Paragraph]
    BY <1>2
  <1>4. rows \in Seq(Paragraph) /\ DOMAIN rows = 1..Len(blocks)
    BY <1>1, <1>3, SeqDef
  <1>5. {b.id : b \in Range(rows)} = {b.id : b \in Range(blocks)}
    BY <1>1, <1>2, <1>4 DEF Range
  <1>6. \A r \in Seq(Paragraph) : Range(t \o r) = Range(t) \cup Range(r)
    BY RangeFacts
  <1>7. Range(t \o rows) = Range(t) \cup Range(rows)
    BY ONLY <1>4, <1>6
  <1> QED BY ONLY <1>5, <1>7

\* One more list on the stack is listed too, and owes what is left of the nesting.
LEMMA PushFacts ==
    ASSUME NEW n, NEW s \in Seq(Seq(Blocks)), NEW l \in Seq(Blocks)
    PROVE  /\ Listed(Append(s, l)) = Listed(s) \cup Range(l)
           /\ Owes(n, Append(s, l)) = Owes(n, s) \cup Yields(n, MaxNesting - Len(s), Range(l))
  <1> DEFINE a == Append(s, l)
  <1>1. /\ Len(s) \in Nat /\ DOMAIN s = 1..Len(s) /\ MaxNesting \in Nat
        /\ DOMAIN a = 1..Len(s) + 1 /\ a[Len(s) + 1] = l
        /\ \A i \in 1..Len(s) : a[i] = s[i]
    BY AppendProperties, LenProperties, BoundsAssumption
  <1>2. 1..Len(s) + 1 = 1..Len(s) \cup {Len(s) + 1} /\ MaxNesting + 1 - (Len(s) + 1) = MaxNesting - Len(s)
    BY <1>1
  <1> HIDE DEF a
  <1>3. Listed(a) = Listed(s) \cup Range(l)
    BY <1>1, <1>2 DEF Listed
  <1>4. Owes(n, a) = Owes(n, s) \cup Yields(n, MaxNesting - Len(s), Range(l))
    BY <1>1, <1>2 DEF Owes
  <1> QED BY <1>3, <1>4 DEF a

LEMMA FrontThenLast ==
    ASSUME NEW S, NEW s \in Seq(S), s # <<>>
    PROVE  s = Append(Front(s), Last(s))
  <1> DEFINE a == Append(Front(s), Last(s))
  <1>1. /\ Len(s) \in Nat \ {0} /\ DOMAIN s = 1..Len(s)
        /\ Front(s) \in Seq(S) /\ Len(Front(s)) = Len(s) - 1 /\ Last(s) \in S
    BY LastAndFront, LenProperties
  <1>2. \A i \in 1..Len(s) - 1 : Front(s)[i] = s[i]
    <2>1. Front(s) = SubSeq(s, 1, Len(s) - 1)
      BY DEF Front
    <2> QED BY <1>1, <2>1
  <1>3. /\ a \in Seq(S) /\ Len(a) = Len(s)
        /\ \A i \in 1..Len(s) - 1 : a[i] = Front(s)[i]
        /\ a[Len(s)] = Last(s)
    <2> DEFINE f == Front(s)
               l == Last(s)
    <2>1. f \in Seq(S) /\ l \in S /\ Len(f) = Len(s) - 1 /\ Len(f) + 1 = Len(s)
      BY <1>1
    <2> HIDE DEF f, l
    <2>2. /\ Append(f, l) \in Seq(S) /\ Len(Append(f, l)) = Len(f) + 1
          /\ \A i \in 1..Len(f) : Append(f, l)[i] = f[i]
          /\ Append(f, l)[Len(f) + 1] = l
      BY <2>1, AppendProperties
    <2> QED BY <2>1, <2>2 DEF f, l
  <1>4. \A i \in 1..Len(s) : a[i] = s[i]
    BY <1>1, <1>2, <1>3 DEF Last
  <1>5. DOMAIN a = DOMAIN s /\ a = [i \in DOMAIN a |-> a[i]] /\ s = [i \in DOMAIN s |-> s[i]]
    <2> HIDE DEF a
    <2> QED BY <1>1, <1>3, LenProperties, SeqDef
  <1> HIDE DEF a
  <1>6. a = s
    BY <1>1, <1>4, <1>5
  <1> QED BY <1>6 DEF a

\* The innermost list, apart from the others; and its next block, apart from the rest.
LEMMA PopFacts ==
    ASSUME NEW n, stack \in Seq(Seq(Blocks)), stack # <<>>
    PROVE  /\ Pending = Listed(Front(stack)) \cup Range(Last(stack))
           /\ Owes(n, stack) = Owes(n, Front(stack))
                               \cup Yields(n, MaxNesting + 1 - Len(stack), Range(Last(stack)))
           /\ Last(stack) # <<>> =>
                 /\ Pending = Listed(Advanced) \cup {Here}
                 /\ Owes(n, stack) = Owes(n, Advanced)
                                     \cup Yields(n, MaxNesting + 1 - Len(stack), {Here})
  <1>1. /\ stack = Append(Front(stack), Last(stack)) /\ Front(stack) \in Seq(Seq(Blocks))
        /\ Last(stack) \in Seq(Blocks) /\ Len(Front(stack)) = Len(stack) - 1
        /\ Len(stack) \in Nat /\ MaxNesting \in Nat
    BY FrontThenLast, LastAndFront, BoundsAssumption
  <1>2. MaxNesting - Len(Front(stack)) = MaxNesting + 1 - Len(stack)
    BY <1>1
  <1> DEFINE f == Front(stack)
             l == Last(stack)
  <1>3. /\ f \in Seq(Seq(Blocks)) /\ l \in Seq(Blocks) /\ Append(f, l) = stack
        /\ MaxNesting - Len(f) = MaxNesting + 1 - Len(stack)
    BY <1>1, <1>2
  <1>5. Advanced = Append(f, Tail(l)) /\ Here = Head(l)
    BY DEF Advanced, Here
  <1> HIDE DEF f, l
  <1>6. /\ Listed(stack) = Listed(f) \cup Range(l)
        /\ Owes(n, stack) = Owes(n, f) \cup Yields(n, MaxNesting + 1 - Len(stack), Range(l))
    <2>1. f \in Seq(Seq(Blocks)) /\ l \in Seq(Blocks)
      BY <1>3
    <2>2. /\ Listed(Append(f, l)) = Listed(f) \cup Range(l)
          /\ Owes(n, Append(f, l)) = Owes(n, f) \cup Yields(n, MaxNesting - Len(f), Range(l))
      BY <2>1, PushFacts
    <2> QED BY <1>3, <2>2
  <1>4. ASSUME l # <<>>
        PROVE  /\ Listed(stack) = Listed(Advanced) \cup {Here}
               /\ Owes(n, stack) = Owes(n, Advanced)
                                   \cup Yields(n, MaxNesting + 1 - Len(stack), {Here})
    <2> DEFINE t == Tail(l)
    <2>1. t \in Seq(Blocks) /\ Advanced = Append(f, t)
      BY <1>3, <1>4, <1>5, HeadTailProperties
    <2>3. Range(l) = {Here} \cup Range(t)
      BY <1>3, <1>4, <1>5, RangeFacts
    <2> HIDE DEF t
    <2>2. /\ Listed(Append(f, t)) = Listed(f) \cup Range(t)
          /\ Owes(n, Append(f, t)) = Owes(n, f) \cup Yields(n, MaxNesting + 1 - Len(stack), Range(t))
      BY <1>3, <2>1, PushFacts
    <2>4. Yields(n, MaxNesting + 1 - Len(stack), Range(l))
            = Yields(n, MaxNesting + 1 - Len(stack), {Here})
              \cup Yields(n, MaxNesting + 1 - Len(stack), Range(t))
      BY <2>3, YieldsParts
    <2> QED BY <1>6, <2>1, <2>2, <2>3, <2>4
  <1> QED BY <1>4, <1>6 DEF Pending, f, l

-----------------------------------------------------------------------------
(* Reading a list in a quiet sync. *)

LEMMA IndexedSame ==
    ASSUME UNCHANGED <<notion, chunks>>
    PROVE  \A p : Indexed(p)' <=> Indexed(p)
  BY DEF Indexed, ChunksOf

LEMMA NotionFacts ==
    ASSUME Typed, NEW i \in Ids
    PROVE  /\ ChildrenIn(notion, i) \subseteq Blocks
           /\ \A d \in ChildrenIn(notion, i) : d.kind = "child_database" =>
                 \A row \in Range(notion[d.id][1]) : row.kind = "child_page"
  BY NotionAssumption, ChildrenFacts DEF Typed

\* A page that was read whole brings what it lists ahead.
LEMMA DeliverPageQuiet ==
    ASSUME Kept, QuietSound, Quiet, fetch # NoFetch, fetch.kind = "child_page",
           NEW blocks \in Seq(Blocks), Deliver(blocks),
           Range(blocks) = ChildrenIn(notion, fetch.of),
           UNCHANGED <<notion, phase, visited, chunks>>
    PROVE  QuietSound'
  <1> DEFINE page == [page |-> fetch.of, blocks |-> blocks]
             listed == ChildrenIn(notion, fetch.of)
  <1>1. /\ fetch \in Fetch /\ fetch.of \in Ids /\ fetch' = NoFetch /\ Typed
        /\ pages' = Append(pages, page) /\ stack' = Append(stack, blocks) /\ text' = text
        /\ stack \in Seq(Seq(Blocks)) /\ pages \in Seq(Page)
    BY DEF Kept, Typed, FetchSound, Fetch, Deliver
  <1>2. /\ phase = "crawl" /\ CrawlExact /\ PagesWhole
        /\ fetch.of \in visited \cap Boundary
    BY <1>1 DEF Kept, FetchSound, QuietSound
  <1>3. page \in Page /\ page.page = fetch.of /\ Range(page.blocks) = listed
    BY <1>1 DEF Page
  <1> HIDE DEF page
  <1>4. /\ DOMAIN pages' = 1..Len(pages) + 1
        /\ DOMAIN pages = 1..Len(pages) /\ Len(pages) \in Nat
        /\ \A i \in 1..Len(pages) : pages'[i] = pages[i]
        /\ pages'[Len(pages) + 1] = page
    BY <1>1, <1>3, AppendProperties, LenProperties
  <1>5. 1..Len(pages) + 1 = 1..Len(pages) \cup {Len(pages) + 1}
    BY <1>4
  <1>6. PagesWhole'
    BY <1>2, <1>3, <1>4, <1>5 DEF PagesWhole
  <1>7. Crawled' = Crawled \cup {fetch.of}
    BY <1>3, <1>4, <1>5 DEF Crawled
  <1>8. Pending' = Pending \cup listed
    <2>1. Listed(stack') = Listed(stack) \cup Range(blocks)
      BY <1>1, PushFacts
    <2> QED BY <2>1 DEF Pending
  <1>9. LeadsTo(notion, Pending') = LeadsTo(notion, Pending) \cup LeadsTo(notion, listed)
    BY <1>8, LeadsToParts
  <1>10. Ahead' = Ahead \cup LeadsTo(notion, listed)
    BY <1>9 DEF Ahead
  <1>11. Boundary \cap LeadsTo(notion, listed) \subseteq Findable(notion)
    BY <1>2, FindableFacts DEF CrawlExact, Closed
  <1>12. \A d \in Pending' : d.kind = "child_database" =>
            \A row \in Range(notion[d.id][1]) : row.kind = "child_page"
    BY <1>1, <1>2, <1>8, NotionFacts DEF CrawlExact
  <1> HIDE DEF listed
  <1>13. \A p \in Crawled' : Boundary \cap LeadsTo(notion, ChildrenIn(notion, p)) \subseteq Ahead'
    BY <1>2, <1>7, <1>10 DEF CrawlExact, listed
  <1>14. CrawlExact'
    <2>1. visited' \cap Boundary = Crawled' \cup {p \in {fetch'.of} : fetch' # NoFetch}
      BY <1>1, <1>2, <1>7 DEF CrawlExact
    <2>2. visited' \cap Boundary \subseteq Findable(notion) /\ Root \in Ahead' /\ text' = <<>>
      BY <1>1, <1>2, <1>10 DEF CrawlExact
    <2>3. Boundary \cap LeadsTo(notion, Pending') \subseteq Findable(notion)
      BY <1>2, <1>9, <1>11 DEF CrawlExact
    <2> QED BY <2>1, <2>2, <2>3, <1>12, <1>13 DEF CrawlExact
  <1>15. ReadSoFar'
    BY <1>1 DEF ReadSoFar
  <1> QED BY <1>2, <1>6, <1>14, <1>15 DEF QuietSound

\* A list in a page that was read whole is no longer asked for, but owed or written.
LEMMA DeliverListQuiet ==
    ASSUME Kept, QuietSound, Quiet, fetch # NoFetch, fetch.kind # "child_page",
           NEW blocks \in Seq(Blocks), Deliver(blocks),
           Range(blocks) = ChildrenIn(notion, fetch.of),
           UNCHANGED <<notion, phase, visited, chunks>>
    PROVE  QuietSound'
  <1> DEFINE listed == ChildrenIn(notion, fetch.of)
             page == Head(pages).page
  <1>1. /\ fetch \in Fetch /\ fetch' = NoFetch
        /\ stack \in Seq(Seq(Blocks)) /\ text \in Seq(Paragraph)
        /\ fetch.kind \in {"table", "group"} /\ pages' = pages
    BY DEF Kept, Typed, FetchSound, Fetch, Deliver
  <1>2. /\ phase = "parse" /\ stack # <<>> /\ ParseExact /\ PagesWhole
    BY <1>1 DEF Kept, FetchSound, QuietSound
  <1>3. TextOf(notion, page) = {b.id : b \in Range(text)} \cup Owes(notion, stack) \cup Requested
    BY <1>2 DEF ParseExact
  <1>4. Requested' = {}
    BY <1>1 DEF Requested
  <1>5. CASE fetch.kind = "table"
    <2>1. PICK rows : rows = [i \in 1..Len(blocks) |-> [id |-> blocks[i].id, opens |-> FALSE]]
      OBVIOUS
    <2>2. text' = text \o rows /\ stack' = stack
      BY <1>5, <2>1 DEF Deliver
    <2>3. {b.id : b \in Range(text \o rows)}
            = {b.id : b \in Range(text)} \cup {b.id : b \in Range(blocks)}
      BY <1>1, <2>1, RowsFacts
    <2>4. Requested = {b.id : b \in Range(blocks)}
      BY <1>5 DEF Requested
    <2> HIDE DEF listed, page
    <2>5. TextOf(notion, page) = {b.id : b \in Range(text')} \cup Owes(notion, stack)
      BY <1>3, <2>2, <2>3, <2>4
    <2> QED BY <1>1, <1>2, <1>4, <2>2, <2>5, IndexedSame
            DEF QuietSound, ReadSoFar, PagesWhole, ParseExact, Crawled, page
  <1>6. CASE fetch.kind = "group"
    <2>1. stack' = Append(stack, blocks) /\ text' = text
      BY <1>6 DEF Deliver
    <2>2. Owes(notion, stack') = Owes(notion, stack) \cup Yields(notion, MaxNesting - Len(stack), listed)
      BY <1>1, <2>1, PushFacts
    <2>3. Requested = Yields(notion, MaxNesting - Len(stack), listed)
      BY <1>6 DEF Requested
    <2>4. stack' # <<>>
      BY <1>1, <2>1, AppendProperties
    <2> HIDE DEF listed, page
    <2>5. TextOf(notion, page) = {b.id : b \in Range(text')} \cup Owes(notion, stack')
      BY <1>3, <2>1, <2>2, <2>3
    <2> QED BY <1>1, <1>2, <1>4, <2>4, <2>5, IndexedSame
            DEF QuietSound, ReadSoFar, PagesWhole, ParseExact, Crawled, page
  <1> QED BY <1>1, <1>5, <1>6

\* The same request, with more of its listing read or tried again.
LEMMA SameRequestQuiet ==
    ASSUME Kept, QuietSound, Quiet, fetch # NoFetch,
           fetch' \in Fetch, fetch'.of = fetch.of, fetch'.kind = fetch.kind, ReadSoFar',
           UNCHANGED <<notion, phase, stack, visited, pages, text, chunks>>
    PROVE  QuietSound'
  <1>1. fetch' # NoFetch /\ phase \in {"crawl", "parse"}
    BY DEF Kept, FetchSound, Fetch, NoFetch
  <1>2. PagesWhole'
    BY DEF QuietSound, PagesWhole
  <1>3. ASSUME phase = "crawl" PROVE CrawlExact'
    BY <1>1, <1>3 DEF QuietSound, CrawlExact, Crawled, Pending, Listed, Ahead
  <1>4. ASSUME phase = "parse" PROVE ParseExact'
    <2>1. Requested' = Requested
      BY <1>1 DEF Requested
    <2> QED BY <1>4, <2>1, IndexedSame DEF QuietSound, ParseExact, Crawled
  <1> QED BY <1>1, <1>2, <1>3, <1>4 DEF QuietSound

LEMMA AnsweredQuiet == ASSUME Kept, QuietSound, Answered PROVE QuietSound'
  <1> SUFFICES ASSUME Quiet' PROVE QuietSound'
    BY DEF QuietSound
  <1> DEFINE list == Listing(fetch.of, fetch.at)
             got == fetch.got \o list
  <1>1. /\ fetch \in Fetch /\ fetch # NoFetch /\ fetch.of \in Ids /\ fetch.at \in Nat
        /\ fetch.got \in Seq(Blocks)
        /\ UNCHANGED <<notion, edits, phase, run, visited, chunks, added, collection, gaps, stirred>>
    BY DEF Kept, FetchSound, Answered, Fetch
  <1>2. Quiet /\ ReadSoFar /\ Typed
    BY <1>1 DEF Quiet, QuietSound, Kept
  <1>3. /\ fetch.at \in DOMAIN notion[fetch.of]
        /\ Range(fetch.got) = UNION {Range(notion[fetch.of][k]) : k \in 1..fetch.at - 1}
    BY <1>1, <1>2 DEF ReadSoFar
  <1>4. /\ Len(notion[fetch.of]) \in Nat /\ DOMAIN notion[fetch.of] = 1..Len(notion[fetch.of])
        /\ list \in Seq(Blocks)
    BY <1>1, <1>2, ChildrenFacts, LenProperties, ListingFacts DEF Typed
  <1>5. got \in Seq(Blocks) /\ Range(got) = Range(fetch.got) \cup Range(list)
    BY <1>1, <1>4, RangeFacts, ConcatProperties
  <1>6. list = notion[fetch.of][fetch.at]
    BY <1>3 DEF Listing
  <1>7. \/ HasMore(fetch.of, fetch.at)
           /\ fetch' = [fetch EXCEPT !.got = got, !.at = @ + 1, !.attempt = 1]
           /\ UNCHANGED <<pages, stack, text>>
        \/ ~HasMore(fetch.of, fetch.at) /\ Deliver(got)
    BY DEF Answered
  <1> HIDE DEF got, list
  <1>8. Range(got) = UNION {Range(notion[fetch.of][k]) : k \in 1..fetch.at}
    <2>1. 1..fetch.at = 1..fetch.at - 1 \cup {fetch.at}
      BY <1>3, <1>4
    <2> QED BY <1>3, <1>5, <1>6, <2>1
  <1>9. CASE /\ HasMore(fetch.of, fetch.at)
             /\ fetch' = [fetch EXCEPT !.got = got, !.at = @ + 1, !.attempt = 1]
             /\ UNCHANGED <<pages, stack, text>>
    <2> DEFINE next == fetch.at + 1
    <2>1. /\ next \in Nat /\ 1 \in 1..Retries
          /\ fetch' = [fetch EXCEPT !.got = got, !.at = next, !.attempt = 1]
      BY <1>1, <1>9, BoundsAssumption
    <2>2. next \in DOMAIN notion[fetch.of] /\ next - 1 = fetch.at
      BY <1>1, <1>3, <1>4, <1>9 DEF HasMore
    <2> HIDE DEF next
    <2>3. fetch' \in Fetch /\ fetch'.of = fetch.of /\ fetch'.kind = fetch.kind
      BY <1>1, <1>5, <2>1, Renewed DEF Fetch
    <2>4. fetch'.at = next /\ fetch'.got = got
      BY <1>1, <2>1 DEF Fetch
    <2>5. ReadSoFar'
      BY <1>1, <1>8, <2>2, <2>3, <2>4 DEF ReadSoFar
    <2> QED BY <1>1, <1>2, <1>9, <2>3, <2>5, SameRequestQuiet
  <1>10. CASE ~HasMore(fetch.of, fetch.at) /\ Deliver(got)
    <2>1. fetch.at = Len(notion[fetch.of])
      BY <1>1, <1>3, <1>4, <1>10 DEF HasMore
    <2>2. Range(got) = ChildrenIn(notion, fetch.of)
      <3> DEFINE s == notion[fetch.of]
      <3>1. Range(got) = UNION {Range(s[k]) : k \in DOMAIN s} /\ Range(s) = {s[k] : k \in DOMAIN s}
        BY <1>4, <1>8, <2>1 DEF Range
      <3>2. ChildrenIn(notion, fetch.of) = UNION {Range(l) : l \in Range(s)}
        BY DEF ChildrenIn
      <3> HIDE DEF s
      <3> QED BY <3>1, <3>2
    <2>3. CASE fetch.kind = "child_page"
      BY <1>1, <1>2, <1>5, <1>10, <2>2, <2>3, DeliverPageQuiet
    <2>4. CASE fetch.kind # "child_page"
      BY <1>1, <1>2, <1>5, <1>10, <2>2, <2>4, DeliverListQuiet
    <2> QED BY <2>3, <2>4
  <1> QED BY <1>7, <1>9, <1>10

LEMMA ToBeRetriedQuiet == ASSUME Kept, QuietSound, ToBeRetried PROVE QuietSound'
  <1> SUFFICES ASSUME Quiet' PROVE QuietSound'
    BY DEF QuietSound
  <1>1. /\ fetch # NoFetch /\ fetch \in Fetch /\ fetch.attempt < Retries
        /\ fetch' = [fetch EXCEPT !.attempt = NextAttempt(@)]
        /\ UNCHANGED <<notion, edits, phase, run, stack, visited, pages, text, chunks, added,
                       collection, gaps, stirred>>
    BY DEF Kept, FetchSound, ToBeRetried
  <1>2. Quiet /\ ReadSoFar
    BY <1>1 DEF Quiet, QuietSound
  <1> DEFINE next == NextAttempt(fetch.attempt)
  <1>3. next \in 1..Retries /\ fetch' = [fetch EXCEPT !.attempt = next]
    BY <1>1, BoundsAssumption DEF Fetch, NextAttempt
  <1> HIDE DEF next
  <1>4. fetch' \in Fetch /\ fetch'.of = fetch.of /\ fetch'.kind = fetch.kind
    BY <1>1, <1>3, Retried DEF Fetch
  <1>5. fetch'.at = fetch.at /\ fetch'.got = fetch.got
    BY <1>1, <1>3 DEF Fetch
  <1>6. ReadSoFar'
    BY <1>1, <1>2, <1>4, <1>5 DEF ReadSoFar
  <1> QED BY <1>1, <1>2, <1>4, <1>6, SameRequestQuiet

\* A sync that gave up on a list is quiet no more.
LEMMA GivesUpQuiet == ASSUME GivesUp PROVE QuietSound'
  BY DEF GivesUp, QuietSound, Quiet

-----------------------------------------------------------------------------
(* The crawl and the parse of a quiet sync. *)

LEMMA EmptyFacts ==
    ASSUME NEW n, NEW j
    PROVE  Yields(n, j, {}) = {} /\ LeadsTo(n, {}) = {} /\ Listed(<<>>) = {} /\ Owes(n, <<>>) = {}
  BY DEF Yields, LeadsTo, Listed, Owes

\* A page that has been parsed leaves the pages; its chunks, which are those of
\* its text, join the chunks of the others.
LEMMA PageIsCut ==
    ASSUME Kept, phase = "parse", stack # <<>>, Len(stack) = 1, stack' = Front(stack),
           chunks' = chunks \o Chunked(Head(pages).page, text), pages' = Tail(pages)
    PROVE  \E page, new :
              /\ page = Head(pages).page
              /\ stack' = <<>>
              /\ page \in visited \cap Boundary
              /\ Crawled = {page} \cup Crawled'
              /\ \A i \in DOMAIN pages' : i + 1 \in DOMAIN pages /\ pages'[i] = pages[i + 1]
              /\ Range(chunks') = Range(chunks) \cup new
              /\ \A c \in Range(chunks) : c.page # page
              /\ \A c \in new : c.page = page
              /\ UNION {{b.id : b \in Range(c.parts)} : c \in new} = {b.id : b \in Range(text)}
              /\ {b.id : b \in Range(text)} = {} => new = {}
  <1>0. PICK page, new : page = Head(pages).page /\ new = Range(Chunked(page, text))
    OBVIOUS
  <1> DEFINE cut == Chunked(page, text)
             S == Range(chunks) \cup Range(cut)
  <1>1. /\ pages \in Seq(Page) /\ pages # <<>> /\ text \in Seq(Paragraph)
        /\ chunks \in Seq(Range(chunks)) /\ stack \in Seq(Seq(Blocks))
    BY DEF Kept, Typed, PagesSound, ChunksSound
  <1>2. /\ Head(pages) = pages[1] /\ Range(pages) = {Head(pages)} \cup Range(pages')
        /\ DOMAIN pages' = 1..Len(pages) - 1 /\ DOMAIN pages = 1..Len(pages)
        /\ Len(pages) \in Nat \ {0} /\ 1 \in DOMAIN pages
        /\ \A i \in 1..Len(pages) - 1 : pages'[i] = pages[i + 1]
    <2>1. Len(pages) \in Nat \ {0}
      BY <1>1, EmptySeq
    <2>2. /\ Tail(pages) \in Seq(Page) /\ Len(Tail(pages)) = Len(pages) - 1
          /\ \A i \in 1..Len(Tail(pages)) : Tail(pages)[i] = pages[i + 1]
      BY <1>1, HeadTailProperties
    <2>3. Range(pages) = {Head(pages)} \cup Range(pages')
      BY <1>1, RangeFacts
    <2> QED BY <1>1, <2>1, <2>2, <2>3, LenProperties
  <1>3. Crawled = {page} \cup Crawled'
    <2>1. Crawled = {q.page : q \in Range(pages)}
      BY DEF Crawled, Range
    <2>2. Crawled' = {q.page : q \in Range(pages')}
      BY DEF Crawled, Range
    <2> QED BY <1>0, <1>2, <2>1, <2>2
  <1>4. \A i \in DOMAIN pages' : i + 1 \in DOMAIN pages /\ pages'[i] = pages[i + 1]
    BY <1>2
  <1>5. stack' = <<>>
    <2>1. stack' \in Seq(Seq(Blocks)) /\ Len(stack') = 0
      BY <1>1, StackFacts
    <2> QED BY <2>1, EmptySeq
  <1>6. page \in visited \cap Boundary
    BY <1>0, <1>2 DEF Kept, PagesSound
  <1>7. cut \in Seq(Range(cut)) /\ \A k \in DOMAIN cut : cut[k].page = page
    BY <1>1, ChunkedFacts
  <1>8. \A c \in Range(cut) : c.page = page
    <2> HIDE DEF cut
    <2> QED BY <1>7 DEF Range
  <1>9. \A c \in Range(chunks) : c.page # page
    BY <1>0, <1>2 DEF Kept, ChunksSound, Range
  <1>10. UNION {{b.id : b \in Range(c.parts)} : c \in Range(cut)} = {b.id : b \in Range(text)}
    BY <1>1, ChunksCover
  <1>11. ASSUME {b.id : b \in Range(text)} = {} PROVE Range(cut) = {}
    <2>1. text # <<>> => Range(text) = {Head(text)} \cup Range(Tail(text))
      BY <1>1, RangeFacts
    <2>2. text = <<>>
      BY <1>11, <2>1
    <2>3. cut = <<>>
      BY <1>1, <2>2, ChunksCover
    <2>4. cut \in Seq({})
      BY <2>3, EmptySeq
    <2> HIDE DEF cut
    <2> QED BY <2>3, <2>4, RangeFacts
  <1>12. Range(chunks') = Range(chunks) \cup Range(cut)
    <2>1. chunks \in Seq(S) /\ cut \in Seq(S)
      BY <1>1, <1>7, SeqMonotonic
    <2> HIDE DEF S
    <2>2. Range(chunks \o cut) = Range(chunks) \cup Range(cut)
      BY <2>1, RangeFacts
    <2> QED BY <1>0, <2>2
  <1> HIDE DEF cut, S
  <1>13. new = Range(cut)
    BY <1>0 DEF cut
  <1>14. Range(chunks') = Range(chunks) \cup new
    BY ONLY <1>12, <1>13
  <1>15. \A c \in new : c.page = page
    BY ONLY <1>8, <1>13
  <1>16. UNION {{b.id : b \in Range(c.parts)} : c \in new} = {b.id : b \in Range(text)}
    BY ONLY <1>10, <1>13
  <1>17. {b.id : b \in Range(text)} = {} => new = {}
    BY ONLY <1>11, <1>13
  <1> QED BY ONLY <1>0, <1>3, <1>4, <1>5, <1>6, <1>9, <1>14, <1>15, <1>16, <1>17

\* A page that has been parsed has its text in its chunks.
LEMMA PageDoneQuiet ==
    ASSUME Kept, QuietSound, Quiet, phase = "parse", fetch = NoFetch, stack # <<>>,
           Len(stack) = 1, Last(stack) = <<>>, stack' = Front(stack),
           chunks' = chunks \o Chunked(Head(pages).page, text),
           pages' = Tail(pages), text' = <<>>,
           UNCHANGED <<notion, phase, fetch, visited>>
    PROVE  QuietSound'
  <1>1. ParseExact /\ PagesWhole /\ stack \in Seq(Seq(Blocks))
    BY DEF QuietSound, Kept, Typed
  <1>2. PICK page, new :
              /\ page = Head(pages).page
              /\ stack' = <<>>
              /\ page \in visited \cap Boundary
              /\ Crawled = {page} \cup Crawled'
              /\ \A i \in DOMAIN pages' : i + 1 \in DOMAIN pages /\ pages'[i] = pages[i + 1]
              /\ Range(chunks') = Range(chunks) \cup new
              /\ \A c \in Range(chunks) : c.page # page
              /\ \A c \in new : c.page = page
              /\ UNION {{b.id : b \in Range(c.parts)} : c \in new} = {b.id : b \in Range(text)}
              /\ {b.id : b \in Range(text)} = {} => new = {}
    BY PageIsCut
  <1>3. PagesWhole'
    BY <1>1, <1>2 DEF PagesWhole
  <1>4. TextOf(notion, page) = {b.id : b \in Range(text)}
    <2>1. Range(Last(stack)) = {}
      <3>1. <<>> \in Seq(Blocks)
        BY EmptySeq
      <3> QED BY <3>1, RangeFacts
    <2>2. Owes(notion, stack) = Owes(notion, <<>>) \cup Yields(notion, MaxNesting + 1 - Len(stack), {})
      BY <1>1, <1>2, <2>1, PopFacts
    <2>3. Owes(notion, stack) = {} /\ Requested = {}
      BY <2>2, EmptyFacts DEF Requested
    <2>4. TextOf(notion, page) = {b.id : b \in Range(text)} \cup Owes(notion, stack) \cup Requested
      BY <1>1, <1>2 DEF ParseExact
    <2> QED BY <2>3, <2>4
  <1>5. page \in Findable(notion) /\ Crawled' \subseteq Findable(notion)
    BY <1>1, <1>2 DEF ParseExact
  <1>6. \A c \in Range(chunks') : c.page \in Findable(notion)
    BY <1>1, <1>2, <1>5 DEF ParseExact, Range
  <1>7. Indexed(page)'
    <2>1. ChunksOf(page)' = new
      BY <1>2 DEF ChunksOf
    <2> QED BY <1>2, <1>4, <2>1 DEF Indexed
  <1>8. ASSUME NEW p, p # page, Indexed(p) PROVE Indexed(p)'
    <2>1. ChunksOf(p)' = ChunksOf(p)
      BY <1>2, <1>8 DEF ChunksOf
    <2> QED BY <1>8, <2>1 DEF Indexed
  <1>9. \A p \in Findable(notion) \ Crawled' : Indexed(p)'
    BY <1>1, <1>2, <1>7, <1>8 DEF ParseExact
  <1>10. ParseExact'
    BY <1>2, <1>5, <1>6, <1>9 DEF ParseExact, Range
  <1> QED BY <1>3, <1>10 DEF QuietSound, ReadSoFar

LEMMA EndOfListQuiet == ASSUME Kept, QuietSound, EndOfList PROVE QuietSound'
  <1> SUFFICES ASSUME Quiet' PROVE QuietSound'
    BY DEF QuietSound
  <1>1. /\ phase \in {"crawl", "parse"} /\ fetch = NoFetch /\ stack # <<>> /\ Last(stack) = <<>>
        /\ stack' = Front(stack)
        /\ UNCHANGED <<notion, edits, phase, run, fetch, visited, added, collection, gaps, stirred>>
    BY DEF EndOfList
  <1>2. Quiet /\ stack \in Seq(Seq(Blocks))
    BY <1>1 DEF Quiet, Kept, Typed
  <1>3. Range(Last(stack)) = {}
    <2>1. <<>> \in Seq(Blocks)
      BY EmptySeq
    <2> QED BY <1>1, <2>1, RangeFacts
  <1>4. CASE phase = "parse" /\ Len(stack) = 1
    <2>1. /\ chunks' = chunks \o Chunked(Head(pages).page, text)
          /\ pages' = Tail(pages) /\ text' = <<>>
      BY <1>4 DEF EndOfList
    <2> QED BY <1>1, <1>2, <1>4, <2>1, PageDoneQuiet
  <1>5. CASE ~(phase = "parse" /\ Len(stack) = 1)
    <2>1. UNCHANGED <<chunks, pages, text>>
      BY <1>5 DEF EndOfList
    <2>2. ReadSoFar' /\ PagesWhole'
      BY <1>1, <1>2, <2>1 DEF QuietSound, ReadSoFar, PagesWhole
    <2>3. ASSUME phase = "crawl" PROVE CrawlExact'
      <3>1. Pending = Listed(stack') \cup {}
        BY <1>1, <1>2, <1>3, PopFacts
      <3>2. Pending' = Pending
        BY <3>1 DEF Pending
      <3> QED BY <1>1, <1>2, <2>1, <2>3, <3>2 DEF QuietSound, CrawlExact, Crawled, Ahead
    <2>4. ASSUME phase = "parse" PROVE ParseExact'
      <3>1. Owes(notion, stack) = Owes(notion, stack') \cup Yields(notion, MaxNesting + 1 - Len(stack), {})
        BY <1>1, <1>2, <1>3, PopFacts
      <3>2. Owes(notion, stack) = Owes(notion, stack')
        BY <3>1, EmptyFacts
      <3>3. stack' # <<>>
        <4>1. Len(stack') = Len(stack) - 1 /\ Len(stack) \in Nat \ {0} /\ Len(stack) # 1
          BY <1>1, <1>2, <1>5, <2>4, StackFacts
        <4> QED BY <4>1, EmptySeq
      <3>4. Requested' = Requested
        BY <1>1 DEF Requested
      <3> QED BY <1>1, <1>2, <2>1, <2>4, <3>2, <3>3, <3>4, IndexedSame
              DEF QuietSound, ParseExact, Crawled
    <2> QED BY <1>1, <2>2, <2>3, <2>4 DEF QuietSound
  <1> QED BY <1>4, <1>5

\* A page is marked when it is met, and asked for if it is within the boundary.
LEMMA CrawlBlockQuiet == ASSUME Kept, QuietSound, CrawlBlock PROVE QuietSound'
  <1> SUFFICES ASSUME Quiet' PROVE QuietSound'
    BY DEF QuietSound
  <1>1. /\ phase = "crawl" /\ fetch = NoFetch /\ stack # <<>> /\ Last(stack) # <<>>
        /\ Here.kind # "child_database"
        /\ stack' = Advanced
        /\ UNCHANGED <<notion, edits, phase, run, pages, text, chunks, added, collection, gaps,
                       stirred>>
    BY DEF CrawlBlock, Walks
  <1>2. /\ Quiet /\ stack \in Seq(Seq(Blocks)) /\ CrawlExact /\ PagesWhole /\ Typed
    BY <1>1 DEF Quiet, QuietSound, Kept, Typed
  <1>3. Here \in Blocks /\ Here.id \in Ids
    BY <1>1, <1>2, StackFacts DEF Blocks
  <1>4. Pending = Pending' \cup {Here}
    BY <1>1, <1>2, PopFacts DEF Pending
  <1>5. LeadsTo(notion, Pending) = LeadsTo(notion, Pending') \cup LeadsTo(notion, {Here})
    BY <1>4, LeadsToParts
  <1>6. PagesWhole' /\ Crawled' = Crawled
    BY <1>1, <1>2 DEF PagesWhole, Crawled
  <1>7. CASE Here.kind = "child_page" /\ Here.id \notin visited
    <2>1. /\ visited' = visited \cup {Here.id}
          /\ fetch' = IF Here.id \in Boundary THEN Start(Here) ELSE NoFetch
      BY <1>7 DEF CrawlBlock
    <2>2. /\ Start(Here).of = Here.id /\ Start(Here).kind = "child_page"
          /\ Start(Here).at = 1 /\ Start(Here).got = <<>>
      BY <1>7 DEF Start
    <2>3. Start(Here) # NoFetch
      BY <2>2 DEF NoFetch
    <2>4. LeadsTo(notion, {Here}) = {Here.id}
      BY <1>7, LeadsToOne
    <2>5. Ahead' = Ahead
      BY <1>1, <1>5, <2>1, <2>4 DEF Ahead
    <2>6. visited' \cap Boundary = Crawled' \cup {p \in {fetch'.of} : fetch' # NoFetch}
      <3>1. visited \cap Boundary = Crawled
        BY <1>1, <1>2 DEF CrawlExact
      <3> QED BY <1>6, <2>1, <2>2, <2>3, <3>1
    <2>7. visited' \cap Boundary \subseteq Findable(notion)
      BY <1>2, <1>5, <2>1, <2>4 DEF CrawlExact
    <2>8. CrawlExact'
      BY <1>1, <1>2, <1>4, <1>5, <1>6, <2>5, <2>6, <2>7 DEF CrawlExact
    <2>9. ReadSoFar'
      <3>1. /\ 1 \in DOMAIN notion[Here.id] /\ 1..1 - 1 = {}
        <4>1. Len(notion[Here.id]) \in Nat \ {0} /\ DOMAIN notion[Here.id] = 1..Len(notion[Here.id])
          BY <1>2, <1>3, ChildrenFacts, LenProperties DEF Typed
        <4> QED BY <4>1
      <3>2. Range(<<>>) = {}
        BY EmptySeq, RangeFacts
      <3> QED BY <1>1, <2>1, <2>2, <3>1, <3>2 DEF ReadSoFar
    <2> QED BY <1>1, <1>6, <2>8, <2>9 DEF QuietSound
  <1>8. CASE ~(Here.kind = "child_page" /\ Here.id \notin visited)
    <2>1. UNCHANGED <<visited, fetch>>
      BY <1>8 DEF CrawlBlock
    <2>2. LeadsTo(notion, {Here}) \subseteq visited
      BY <1>1, <1>8, LeadsToOne
    <2>3. Ahead' = Ahead
      BY <1>1, <1>5, <2>1, <2>2 DEF Ahead
    <2>4. CrawlExact'
      BY <1>1, <1>2, <1>4, <1>5, <1>6, <2>1, <2>3 DEF CrawlExact
    <2> QED BY <1>1, <1>2, <1>6, <2>1, <2>4 DEF QuietSound, ReadSoFar
  <1> QED BY <1>7, <1>8

\* The rows of a database stand for it in what is ahead.
LEMMA CrawlDatabaseQuiet == ASSUME Kept, QuietSound, CrawlDatabase PROVE QuietSound'
  <1> SUFFICES ASSUME Quiet' PROVE QuietSound'
    BY DEF QuietSound
  <1> DEFINE rows == Listing(Here.id, 1)
  <1>1. /\ phase = "crawl" /\ fetch = NoFetch /\ stack # <<>> /\ Last(stack) # <<>>
        /\ Here.kind = "child_database"
        /\ stack' = Append(Advanced, rows)
        /\ UNCHANGED <<notion, edits, phase, run, fetch, visited, pages, text, chunks, added,
                       collection, stirred, gaps>>
    BY DEF CrawlDatabase, Walks, Quiet
  <1>2. /\ Quiet /\ stack \in Seq(Seq(Blocks)) /\ CrawlExact /\ PagesWhole /\ Typed
    BY <1>1 DEF Quiet, QuietSound, Kept, Typed
  <1>3. Here \in Blocks /\ Here.id \in Ids /\ Advanced \in Seq(Seq(Blocks))
    BY <1>1, <1>2, StackFacts DEF Blocks
  <1>4. rows \in Seq(Blocks) /\ rows = notion[Here.id][1]
    <2>1. Len(notion[Here.id]) \in Nat \ {0} /\ DOMAIN notion[Here.id] = 1..Len(notion[Here.id])
      BY <1>2, <1>3, ChildrenFacts, LenProperties DEF Typed
    <2>2. 1 \in DOMAIN notion[Here.id]
      BY <2>1
    <2> QED BY <1>2, <1>3, <2>2, ListingFacts DEF Listing
  <1> HIDE DEF rows
  <1>5. Pending = Listed(Advanced) \cup {Here}
    BY <1>1, <1>2, PopFacts
  <1>6. Pending' = Listed(Advanced) \cup Range(rows)
    <2>1. Listed(stack') = Listed(Advanced) \cup Range(rows)
      BY <1>1, <1>3, <1>4, PushFacts
    <2> QED BY <2>1 DEF Pending
  <1>7. \A row \in Range(rows) : row.kind = "child_page"
    BY <1>1, <1>2, <1>4, <1>5 DEF CrawlExact
  <1>8. LeadsTo(notion, Range(rows)) = LeadsTo(notion, {Here})
    <2>1. LeadsTo(notion, Range(rows)) = {row.id : row \in Range(rows)}
      BY <1>7, PagesLeadToThemselves
    <2>2. LeadsTo(notion, {Here}) = {row.id : row \in Range(notion[Here.id][1])}
      BY <1>1, LeadsToOne
    <2> QED BY <1>4, <2>1, <2>2
  <1>9. LeadsTo(notion, Pending') = LeadsTo(notion, Pending)
    <2>1. LeadsTo(notion, Pending) = LeadsTo(notion, Listed(Advanced)) \cup LeadsTo(notion, {Here})
      BY <1>5, LeadsToParts
    <2>2. LeadsTo(notion, Pending')
            = LeadsTo(notion, Listed(Advanced)) \cup LeadsTo(notion, Range(rows))
      BY <1>6, LeadsToParts
    <2> QED BY <1>8, <2>1, <2>2
  <1>10. Ahead' = Ahead
    BY <1>1, <1>9 DEF Ahead
  <1>11. \A d \in Pending' : d.kind = "child_database" =>
            \A row \in Range(notion[d.id][1]) : row.kind = "child_page"
    BY <1>2, <1>5, <1>6, <1>7 DEF CrawlExact
  <1>12. CrawlExact'
    BY <1>1, <1>2, <1>9, <1>10, <1>11 DEF CrawlExact, Crawled
  <1> QED BY <1>1, <1>2, <1>12 DEF QuietSound, ReadSoFar, PagesWhole

\* When nothing is ahead, what was crawled is what was to be found.
LEMMA CrawlEndsQuiet == ASSUME Kept, QuietSound, CrawlEnds PROVE QuietSound'
  <1> SUFFICES ASSUME Quiet' PROVE QuietSound'
    BY DEF QuietSound
  <1>1. /\ phase = "crawl" /\ phase' = "parse" /\ fetch = NoFetch /\ stack = <<>>
        /\ UNCHANGED <<notion, edits, run, stack, fetch, visited, pages, text, chunks, added,
                       collection, gaps, stirred>>
    BY DEF CrawlEnds
  <1>2. Quiet /\ CrawlExact /\ PagesWhole /\ chunks = <<>>
    BY <1>1 DEF Quiet, QuietSound, Kept, ChunksSound
  <1>3. LeadsTo(notion, Pending) = {}
    BY <1>1, EmptyFacts DEF Pending
  <1>4. Ahead = visited /\ Crawled = visited \cap Boundary
    BY <1>1, <1>2, <1>3 DEF Ahead, CrawlExact
  <1>5. Closed(notion, Crawled)
    BY <1>2, <1>4, RootAssumption DEF CrawlExact, Closed
  <1>6. Crawled = Findable(notion)
    BY <1>2, <1>4, <1>5, FindableFacts DEF CrawlExact
  <1>7. Crawled' = Crawled /\ text' = <<>> /\ DOMAIN chunks' = {}
    BY <1>1, <1>2 DEF Crawled, CrawlExact
  <1>8. ParseExact'
    BY <1>1, <1>6, <1>7 DEF ParseExact
  <1> QED BY <1>1, <1>2, <1>8 DEF QuietSound, ReadSoFar, PagesWhole

\* The page in hand is owed all of its text; without one left, all is indexed.
LEMMA ParsePageQuiet == ASSUME Kept, QuietSound, ParsePage PROVE QuietSound'
  <1> SUFFICES ASSUME Quiet' PROVE QuietSound'
    BY DEF QuietSound
  <1>1. /\ phase = "parse" /\ fetch = NoFetch /\ stack = <<>>
        /\ UNCHANGED <<notion, edits, run, fetch, visited, pages, text, chunks, added,
                       collection, gaps, stirred>>
    BY DEF ParsePage
  <1>2. Quiet /\ ParseExact /\ PagesWhole /\ Typed /\ text = <<>>
    BY <1>1 DEF Quiet, QuietSound, Kept, ParseExact
  <1>3. PagesWhole' /\ ReadSoFar' /\ Crawled' = Crawled
    BY <1>1, <1>2 DEF PagesWhole, ReadSoFar, Crawled
  <1>4. CASE pages = <<>>
    <2>1. phase' = "drop" /\ Crawled = {}
      BY <1>4 DEF ParsePage, Crawled
    <2>2. IndexExact'
      BY <1>1, <1>2, <2>1, IndexedSame DEF ParseExact, IndexExact
    <2> QED BY <1>3, <2>1, <2>2 DEF QuietSound
  <1>5. CASE pages # <<>>
    <2>0. PICK page, blocks : page = Head(pages).page /\ blocks = Head(pages).blocks
      OBVIOUS
    <2>1. stack' = <<blocks>> /\ phase' = phase
      BY <1>5, <2>0 DEF ParsePage
    <2>2. page \in Ids /\ blocks \in Seq(Blocks) /\ Head(pages) = pages[1] /\ 1 \in DOMAIN pages
      <3>1. Head(pages) \in Page /\ Head(pages) = pages[1]
        BY <1>2, <1>5, HeadTailProperties DEF Typed
      <3>2. Len(pages) \in Nat \ {0} /\ DOMAIN pages = 1..Len(pages)
        BY <1>2, <1>5, EmptySeq, LenProperties DEF Typed
      <3> QED BY <2>0, <3>1, <3>2 DEF Page
    <2>3. Range(blocks) = ChildrenIn(notion, page)
      BY <1>2, <2>0, <2>2 DEF PagesWhole
    <2>4. TextOf(notion, page) = Yields(notion, MaxNesting, ChildrenIn(notion, page))
      BY <1>2, <2>2, TextIsYielded DEF Typed
    <2>5. Owes(notion, stack') = Yields(notion, MaxNesting, Range(blocks)) /\ stack' # <<>>
      <3>1. /\ <<blocks>> = Append(<<>>, blocks) /\ <<>> \in Seq(Seq(Blocks))
            /\ Len(<<>>) = 0 /\ MaxNesting \in Nat /\ MaxNesting - 0 = MaxNesting
        BY EmptySeq, BoundsAssumption
      <3>2. Owes(notion, Append(<<>>, blocks))
              = Owes(notion, <<>>) \cup Yields(notion, MaxNesting - Len(<<>>), Range(blocks))
        BY <2>2, <3>1, PushFacts
      <3> QED BY <2>1, <3>1, <3>2, EmptyFacts
    <2>6. Requested' = {} /\ {b.id : b \in Range(text')} = {}
      <3>1. Range(<<>>) = {}
        BY EmptySeq, RangeFacts
      <3> QED BY <1>1, <1>2, <3>1 DEF Requested
    <2>7. TextOf(notion', Head(pages').page)
            = {b.id : b \in Range(text')} \cup Owes(notion', stack') \cup Requested'
      BY <1>1, <2>0, <2>3, <2>4, <2>5, <2>6
    <2>8. ParseExact'
      BY <1>1, <1>2, <1>3, <2>5, <2>7, IndexedSame DEF ParseExact
    <2> QED BY <1>1, <1>3, <2>1, <2>8 DEF QuietSound
  <1> QED BY <1>4, <1>5

\* What a block yields is written, or asked for.
LEMMA BlockIsWritten ==
    ASSUME Kept, ParseBlock
    PROVE  /\ {x.id : x \in Range(text')} \cup Requested'
                = {x.id : x \in Range(text)} \cup Yields(notion, MaxNesting + 1 - Len(stack), {Here})
           /\ ReadSoFar' /\ ReadWithin'
  <1>1. /\ phase = "parse" /\ fetch = NoFetch /\ stack # <<>> /\ Last(stack) # <<>>
        /\ stack' = Advanced /\ notion' = notion
        /\ Typed /\ stack \in Seq(Seq(Blocks)) /\ text \in Seq(Paragraph)
        /\ Len(stack) <= MaxNesting + 1
    BY DEF ParseBlock, Walks, Kept, Typed, PagesSound
  <1>2. PICK j, b : j = MaxNesting + 1 - Len(stack) /\ b = Here
    OBVIOUS
  <1> DEFINE listed == ChildrenIn(notion, b.id)
  <1>3. /\ b \in Blocks /\ b.id \in Ids /\ Len(stack') = Len(stack)
        /\ Len(stack) \in Nat \ {0} /\ MaxNesting \in Nat
    BY <1>1, <1>2, StackFacts, BoundsAssumption DEF Blocks
  <1>4. j \in 0..MaxNesting /\ j - 1 = MaxNesting - Len(stack')
        /\ (j # 0 <=> Len(stack) <= MaxNesting)
    BY <1>1, <1>2, <1>3
  <1>5. Yields(notion, j, {b}) = OwnText(notion, b)
          \cup UNION {Yields(notion, j - 1, ChildrenIn(notion, c.id)) :
                        c \in {d \in {b} : d.kind = "group" /\ j # 0}}
    <2>0. notion \in Notions /\ {b} \subseteq Blocks
      BY <1>1, <1>3 DEF Typed
    <2>1. Yields(notion, j, {b}) = (UNION {OwnText(notion, c) : c \in {b}})
            \cup UNION {Yields(notion, j - 1, ChildrenIn(notion, c.id)) :
                          c \in {d \in {b} : d.kind = "group" /\ j # 0}}
      BY ONLY <1>4, <2>0, YieldsFacts
    <2>2. UNION {OwnText(notion, c) : c \in {b}} = OwnText(notion, b)
      OBVIOUS
    <2> QED BY <2>1, <2>2
  <1>6. /\ ~(b.kind = "group" /\ j # 0) => Yields(notion, j, {b}) = OwnText(notion, b)
        /\ b.kind = "group" /\ j # 0 =>
              Yields(notion, j, {b}) = OwnText(notion, b) \cup Yields(notion, j - 1, listed)
    BY <1>5
  <1>7. OwnText(notion, b) = {x \in {b.id} : b.kind \notin {"child_page", "child_database"}}
                             \cup {x \in {c.id : c \in listed} : b.kind = "table"}
    BY DEF OwnText
  <1> HIDE DEF listed
  <1>8. CASE b.kind \in {"child_page", "child_database"}
    <2>1. UNCHANGED <<text, fetch>>
      BY <1>2, <1>8 DEF ParseBlock
    <2>2. Requested' = {} /\ ReadSoFar' /\ ReadWithin' /\ Yields(notion, j, {b}) = {}
      BY <1>1, <1>6, <1>7, <1>8, <2>1 DEF Requested, ReadSoFar, ReadWithin
    <2> QED BY <1>2, <2>1, <2>2
  <1>9. CASE b.kind \notin {"child_page", "child_database"}
    <2> DEFINE para == [id |-> b.id, opens |-> b.kind = "heading" /\ Len(stack) = 1]
    <2>1. /\ text' = Append(text, para)
          /\ fetch' = IF Descends(b) THEN Start(b) ELSE NoFetch
      BY <1>2, <1>9 DEF ParseBlock
    <2>2. para \in Paragraph /\ para.id = b.id
      <3>1. (b.kind = "heading" /\ Len(stack) = 1) \in BOOLEAN
        OBVIOUS
      <3> QED BY <1>3, <3>1 DEF Paragraph
    <2> HIDE DEF para
    <2>3. Range(text') = Range(text) \cup {para}
      BY <1>1, <2>1, <2>2, RangeFacts
    <2>4. {x.id : x \in Range(text')} = {x.id : x \in Range(text)} \cup {b.id}
      BY <2>2, <2>3
    <2>5. CASE Descends(b)
      <3>1. b.kind = "table" \/ (b.kind = "group" /\ j # 0)
        BY <1>4, <2>5 DEF Descends
      <3>2. /\ Start(b) # NoFetch /\ Start(b).of = b.id /\ Start(b).kind = b.kind
            /\ Start(b).at = 1 /\ Start(b).got = <<>>
        BY <3>1 DEF Start, NoFetch
      <3>3. ReadSoFar' /\ ReadWithin'
        <4>1. 1 \in DOMAIN notion[b.id] /\ 1..1 - 1 = {}
          <5>1. Len(notion[b.id]) \in Nat \ {0} /\ DOMAIN notion[b.id] = 1..Len(notion[b.id])
            BY <1>1, <1>3, ChildrenFacts, LenProperties DEF Typed
          <5> QED BY <5>1
        <4>2. Range(<<>>) = {}
          BY EmptySeq, RangeFacts
        <4> QED BY <1>1, <2>1, <2>5, <3>2, <4>1, <4>2 DEF ReadSoFar, ReadWithin
      <3>4. CASE b.kind = "table"
        <4>1. Requested' = {c.id : c \in listed}
          BY <1>1, <2>1, <2>5, <3>2, <3>4 DEF Requested, listed
        <4>2. Yields(notion, j, {b}) = {b.id} \cup {c.id : c \in listed}
          BY <1>6, <1>7, <3>4
        <4> QED BY <1>2, <2>4, <3>3, <4>1, <4>2
      <3>5. CASE b.kind = "group" /\ j # 0
        <4>1. Requested' = Yields(notion, j - 1, listed)
          BY <1>1, <1>4, <2>1, <2>5, <3>2, <3>5 DEF Requested, listed
        <4>2. Yields(notion, j, {b}) = {b.id} \cup Yields(notion, j - 1, listed)
          BY <1>6, <1>7, <3>5
        <4> QED BY <1>2, <2>4, <3>3, <4>1, <4>2
      <3> QED BY <3>1, <3>4, <3>5
    <2>6. CASE ~Descends(b)
      <3>1. b.kind # "table" /\ ~(b.kind = "group" /\ j # 0)
        BY <1>4, <2>6 DEF Descends
      <3>2. Yields(notion, j, {b}) = {b.id}
        BY <1>6, <1>7, <1>9, <3>1
      <3>3. Requested' = {} /\ ReadSoFar' /\ ReadWithin'
        BY <2>1, <2>6 DEF Requested, ReadSoFar, ReadWithin
      <3> QED BY <1>2, <2>4, <3>2, <3>3
    <2> QED BY <2>5, <2>6
  <1> QED BY <1>8, <1>9

LEMMA ParseBlockQuiet == ASSUME Kept, QuietSound, ParseBlock PROVE QuietSound'
  <1> SUFFICES ASSUME Quiet' PROVE QuietSound'
    BY DEF QuietSound
  <1>1. /\ phase = "parse" /\ fetch = NoFetch /\ stack # <<>> /\ Last(stack) # <<>>
        /\ stack' = Advanced
        /\ UNCHANGED <<notion, edits, phase, run, visited, pages, chunks, added, collection, gaps,
                       stirred>>
    BY DEF ParseBlock, Walks
  <1>2. ParseExact /\ PagesWhole /\ stack \in Seq(Seq(Blocks))
    BY <1>1 DEF Quiet, QuietSound, Kept, Typed
  <1>3. stack' # <<>> /\ PagesWhole' /\ Crawled' = Crawled
    BY <1>1, <1>2, StackFacts DEF PagesWhole, Crawled
  <1>4. PICK page, owed : page = Head(pages).page
          /\ owed = Yields(notion, MaxNesting + 1 - Len(stack), {Here})
    OBVIOUS
  <1>5. TextOf(notion, page) = {x.id : x \in Range(text)} \cup Owes(notion, stack') \cup owed
    <2>1. Owes(notion, stack) = Owes(notion, stack') \cup owed
      BY <1>1, <1>2, <1>4, PopFacts
    <2>2. TextOf(notion, page) = {x.id : x \in Range(text)} \cup Owes(notion, stack) \cup {}
      BY <1>1, <1>2, <1>4 DEF ParseExact, Requested
    <2> QED BY <2>1, <2>2
  <1>6. /\ {x.id : x \in Range(text')} \cup Requested' = {x.id : x \in Range(text)} \cup owed
        /\ ReadSoFar'
    BY <1>4, BlockIsWritten
  <1>7. TextOf(notion, page) = {x.id : x \in Range(text')} \cup Owes(notion, stack') \cup Requested'
    BY <1>5, <1>6
  <1>8. ParseExact'
    BY <1>1, <1>2, <1>3, <1>4, <1>7, IndexedSame DEF ParseExact
  <1> QED BY <1>1, <1>3, <1>6, <1>8 DEF QuietSound

-----------------------------------------------------------------------------
(* The collection of a quiet sync. *)

\* Chunks that are made stay as they are while the collection is replaced.
LEMMA IndexQuiet ==
    ASSUME Kept, QuietSound, Quiet, phase \in {"drop", "create", "add"},
           phase' \in {"create", "add", "done", "dead"},
           phase' = "done" => Held' = Range(chunks),
           UNCHANGED <<notion, fetch, pages, chunks>>
    PROVE  QuietSound'
  <1>1. IndexExact /\ ReadSoFar /\ PagesWhole
    BY DEF QuietSound
  <1>2. IndexExact'
    BY <1>1, IndexedSame DEF IndexExact
  <1> QED BY <1>1, <1>2 DEF QuietSound, ReadSoFar, PagesWhole

LEMMA DropOldQuiet == ASSUME Kept, QuietSound, DropOld PROVE QuietSound'
  BY IndexQuiet DEF DropOld, QuietSound, Quiet

LEMMA CreateQuiet == ASSUME Kept, QuietSound, Create PROVE QuietSound'
  BY IndexQuiet DEF Create, QuietSound, Quiet

LEMMA AddBatchQuiet == ASSUME Kept, QuietSound, AddBatch PROVE QuietSound'
  <1>1. /\ phase = "add" /\ phase' \in {"add", "done"}
        /\ UNCHANGED <<notion, fetch, pages, chunks, gaps, stirred>>
    BY DEF AddBatch
  <1>2. ASSUME phase' = "done" PROVE Held' = Range(chunks)
    <2>1. added = Len(chunks) /\ collection' = collection
      BY <1>1, <1>2 DEF AddBatch
    <2>2. /\ DOMAIN chunks = 1..added /\ DOMAIN collection.held = 1..added
          /\ \A i \in 1..added : collection.held[i] = chunks[i]
      BY <1>1, <2>1, LenProperties DEF Kept, CollectionSound, ChunksSound
    <2> QED BY <2>1, <2>2 DEF Held, Range
  <1> QED BY <1>1, <1>2, IndexQuiet DEF QuietSound, Quiet

-----------------------------------------------------------------------------
(* Starts, kills and edits of a quiet sync. *)

LEMMA OneListed ==
    ASSUME NEW b
    PROVE  Listed(<<<<b>>>>) = {b}
  <1>1. /\ DOMAIN <<b>> = {1} /\ <<b>>[1] = b /\ DOMAIN <<<<b>>>> = {1}
        /\ <<<<b>>>>[1] = <<b>>
    OBVIOUS
  <1>2. Range(<<b>>) = {b}
    BY <1>1 DEF Range
  <1> QED BY <1>1, <1>2 DEF Listed

\* A new sync has its root ahead and nothing behind.
LEMMA StartSyncQuiet == ASSUME Kept, StartSync PROVE QuietSound'
  <1>1. PICK root : root = [id |-> Root, kind |-> "child_page"]
    OBVIOUS
  <1>2. /\ phase' = "crawl" /\ stack' = <<<<root>>>> /\ fetch' = NoFetch
        /\ visited' = {} /\ pages' = <<>> /\ text' = <<>> /\ notion' = notion
    BY <1>1 DEF StartSync, Forgets
  <1>3. root.kind = "child_page" /\ root.id = Root
    BY <1>1
  <1>4. Pending' = {root}
    BY <1>2, OneListed DEF Pending
  <1>5. LeadsTo(notion', Pending') = {Root}
    BY <1>3, <1>4, LeadsToOne
  <1>6. Root \in Findable(notion')
    BY FindableFacts DEF Closed
  <1>7. Crawled' = {} /\ PagesWhole' /\ ReadSoFar'
    BY <1>2 DEF Crawled, PagesWhole, ReadSoFar
  <1>8. CrawlExact'
    BY <1>2, <1>3, <1>4, <1>5, <1>6, <1>7 DEF CrawlExact, Ahead
  <1> QED BY <1>2, <1>7, <1>8 DEF QuietSound

LEMMA KilledQuiet == ASSUME Killed PROVE QuietSound'
  BY DEF Killed, Forgets, QuietSound, ReadSoFar, PagesWhole

\* A Notion that is edited is quiet no more.
LEMMA EditedQuiet == ASSUME Edited PROVE QuietSound'
  BY DEF Edited, QuietSound, Quiet

-----------------------------------------------------------------------------

LEMMA InitQuiet == Init => QuietSound
  BY DEF Init, QuietSound, ReadSoFar, PagesWhole

LEMMA NextQuiet == ASSUME Kept, QuietSound, [Next]_vars PROVE QuietSound'
  <1>1. CASE UNCHANGED vars
    BY <1>1 DEF vars, process, QuietSound, Quiet, ReadSoFar, PagesWhole, CrawlExact, ParseExact,
                IndexExact, Crawled, Ahead, Pending, Listed, Indexed, ChunksOf, Owes, Requested, Held
  <1> QED BY <1>1, AnsweredQuiet, ToBeRetriedQuiet, GivesUpQuiet, EndOfListQuiet,
             CrawlBlockQuiet, CrawlDatabaseQuiet, CrawlEndsQuiet, ParsePageQuiet,
             ParseBlockQuiet, DropOldQuiet, CreateQuiet, AddBatchQuiet, StartSyncQuiet,
             KilledQuiet, EditedQuiet DEF Next, Step

LEMMA AlwaysQuiet == Spec => [](Kept /\ QuietSound)
  BY InitKeeps, NextKeeps, InitQuiet, NextQuiet, PTL DEF Spec

-----------------------------------------------------------------------------
(* Lists that may be short. *)

LEMMA LargerLists ==
    ASSUME NEW n, NEW j, NEW A, NEW B, A \subseteq B
    PROVE  LeadsTo(n, A) \subseteq LeadsTo(n, B) /\ Yields(n, j, A) \subseteq Yields(n, j, B)
  <1>1. A \cup B = B
    OBVIOUS
  <1> QED BY <1>1, LeadsToParts, YieldsParts

LEMMA IndexSame ==
    ASSUME IndexWithin, UNCHANGED <<notion, visited, chunks, collection, run>>
    PROVE  IndexWithin'
  BY DEF IndexWithin, OfItsPage, Held

\* What is returned of a list, all of it or not, is of the block it was asked for.
LEMMA DeliverWithin ==
    ASSUME Kept, WithinSound, ~stirred, fetch # NoFetch,
           NEW blocks \in Seq(Blocks), Deliver(blocks),
           Range(blocks) \subseteq ChildrenIn(notion, fetch.of),
           UNCHANGED <<notion, phase, run, visited, chunks, collection>>
    PROVE  WithinSound'
  <1> DEFINE listed == ChildrenIn(notion, fetch.of)
  <1>1. /\ fetch \in Fetch /\ fetch.of \in Ids /\ fetch' = NoFetch /\ Typed
        /\ stack \in Seq(Seq(Blocks)) /\ pages \in Seq(Page) /\ text \in Seq(Paragraph)
        /\ PagesWithin /\ IndexWithin /\ Range(blocks) \subseteq listed
    BY DEF Kept, Typed, FetchSound, Fetch, Deliver, WithinSound
  <1>2. ReadWithin' /\ IndexWithin' /\ Requested' = {}
    BY <1>1, IndexSame DEF ReadWithin, Requested
  <1>3. CASE fetch.kind = "child_page"
    <2> DEFINE page == [page |-> fetch.of, blocks |-> blocks]
    <2>1. /\ pages' = Append(pages, page) /\ stack' = Append(stack, blocks) /\ text' = text
      BY <1>3 DEF Deliver
    <2>2. phase = "crawl" /\ CrawlWithin /\ fetch.of \in visited \cap Boundary
      BY <1>1, <1>3 DEF Kept, FetchSound, WithinSound
    <2>3. page \in Page /\ page.page = fetch.of /\ page.blocks = blocks
      BY <1>1 DEF Page
    <2> HIDE DEF page
    <2>4. /\ DOMAIN pages' = 1..Len(pages) + 1
          /\ DOMAIN pages = 1..Len(pages) /\ Len(pages) \in Nat
          /\ \A i \in 1..Len(pages) : pages'[i] = pages[i]
          /\ pages'[Len(pages) + 1] = page
      BY <1>1, <2>1, <2>3, AppendProperties, LenProperties
    <2>5. 1..Len(pages) + 1 = 1..Len(pages) \cup {Len(pages) + 1}
      BY <2>4
    <2>6. PagesWithin'
      BY <1>1, <2>3, <2>4, <2>5 DEF PagesWithin
    <2>7. Pending' = Pending \cup Range(blocks)
      <3>1. Listed(stack') = Listed(stack) \cup Range(blocks)
        BY <1>1, <2>1, PushFacts
      <3> QED BY <3>1 DEF Pending
    <2>8. LeadsTo(notion, Pending') \subseteq LeadsTo(notion, Pending) \cup LeadsTo(notion, listed)
      <3>1. LeadsTo(notion, Pending') = LeadsTo(notion, Pending) \cup LeadsTo(notion, Range(blocks))
        BY <2>7, LeadsToParts
      <3>2. LeadsTo(notion, Range(blocks)) \subseteq LeadsTo(notion, listed)
        BY <1>1, LargerLists
      <3> QED BY <3>1, <3>2
    <2>9. Boundary \cap LeadsTo(notion, listed) \subseteq Findable(notion)
      <3>1. fetch.of \in Findable(notion)
        BY <1>1, <2>2 DEF IndexWithin
      <3> QED BY <3>1, FindableFacts DEF Closed
    <2>10. \A d \in Pending' : d.kind = "child_database" =>
              \A row \in Range(notion[d.id][1]) : row.kind = "child_page"
      BY <1>1, <2>2, <2>7, NotionFacts DEF CrawlWithin
    <2> HIDE DEF listed
    <2>11. CrawlWithin'
      BY <2>1, <2>2, <2>8, <2>9, <2>10 DEF CrawlWithin
    <2> QED BY <1>2, <2>2, <2>6, <2>11 DEF WithinSound
  <1>4. ASSUME fetch.kind # "child_page" PROVE WithinSound'
    <2> DEFINE page == Head(pages).page
    <2>1. phase = "parse" /\ stack # <<>> /\ ParseWithin /\ pages' = pages
          /\ fetch.kind \in {"table", "group"}
      BY <1>1, <1>4 DEF Kept, FetchSound, Fetch, Deliver, WithinSound
    <2>2. {b.id : b \in Range(text)} \cup Owes(notion, stack) \cup Requested \subseteq TextOf(notion, page)
      BY <2>1 DEF ParseWithin
    <2>3. PagesWithin'
      BY <1>1, <2>1 DEF PagesWithin
    <2>4. ASSUME stack' # <<>>,
                 {b.id : b \in Range(text')} \cup Owes(notion, stack')
                   \subseteq {b.id : b \in Range(text)} \cup Owes(notion, stack) \cup Requested
          PROVE  WithinSound'
      <3>1. ParseWithin'
        BY <1>2, <2>1, <2>2, <2>4 DEF ParseWithin
      <3> QED BY <1>2, <2>1, <2>3, <3>1 DEF WithinSound
    <2> HIDE DEF page
    <2>5. CASE fetch.kind = "table"
      <3>1. /\ text' = text \o [i \in 1..Len(blocks) |-> [id |-> blocks[i].id, opens |-> FALSE]]
            /\ stack' = stack
        BY <2>5 DEF Deliver
      <3>2. {b.id : b \in Range(text')} = {b.id : b \in Range(text)} \cup {b.id : b \in Range(blocks)}
        BY <1>1, <3>1, RowsFacts
      <3>3. Requested = {b.id : b \in listed}
        BY <2>5 DEF Requested
      <3>4. {b.id : b \in Range(text')} \subseteq {b.id : b \in Range(text)} \cup Requested
        BY <1>1, <3>2, <3>3
      <3> QED BY <2>1, <2>4, <3>1, <3>4
    <2>6. CASE fetch.kind = "group"
      <3>1. stack' = Append(stack, blocks) /\ text' = text
        BY <2>6 DEF Deliver
      <3>2. Owes(notion, stack')
              = Owes(notion, stack) \cup Yields(notion, MaxNesting - Len(stack), Range(blocks))
        BY <1>1, <3>1, PushFacts
      <3>3. Requested = Yields(notion, MaxNesting - Len(stack), listed)
        BY <2>6 DEF Requested
      <3>4. Owes(notion, stack') \subseteq Owes(notion, stack) \cup Requested
        BY <1>1, <3>2, <3>3, LargerLists
      <3>5. stack' # <<>>
        BY <1>1, <3>1, AppendProperties
      <3> QED BY <2>4, <3>1, <3>4, <3>5
    <2> QED BY <2>1, <2>5, <2>6
  <1> QED BY <1>3, <1>4

LEMMA SameRequestWithin ==
    ASSUME Kept, WithinSound, ~stirred, fetch # NoFetch,
           fetch' \in Fetch, fetch'.of = fetch.of, fetch'.kind = fetch.kind, ReadWithin',
           UNCHANGED <<notion, phase, run, stack, visited, pages, text, chunks, collection>>
    PROVE  WithinSound'
  <1>1. fetch' # NoFetch
    BY DEF Kept, FetchSound, Fetch, NoFetch
  <1>2. PagesWithin' /\ IndexWithin'
    BY IndexSame DEF WithinSound, PagesWithin
  <1>3. ASSUME phase = "crawl" PROVE CrawlWithin'
    BY <1>3 DEF WithinSound, CrawlWithin, Pending, Listed
  <1>4. ASSUME phase = "parse" PROVE ParseWithin'
    <2>1. Requested' = Requested
      BY <1>1 DEF Requested
    <2> QED BY <1>4, <2>1 DEF WithinSound, ParseWithin
  <1> QED BY <1>2, <1>3, <1>4 DEF WithinSound

LEMMA AnsweredWithin == ASSUME Kept, WithinSound, Answered PROVE WithinSound'
  <1> SUFFICES ASSUME ~stirred' PROVE WithinSound'
    BY DEF WithinSound
  <1> DEFINE list == Listing(fetch.of, fetch.at)
             got == fetch.got \o list
  <1>1. /\ fetch \in Fetch /\ fetch # NoFetch /\ fetch.of \in Ids /\ fetch.at \in Nat
        /\ fetch.got \in Seq(Blocks) /\ Typed
        /\ UNCHANGED <<notion, edits, phase, run, visited, chunks, added, collection, gaps, stirred>>
    BY DEF Kept, FetchSound, Answered, Fetch
  <1>2. ~stirred /\ Range(fetch.got) \subseteq ChildrenIn(notion, fetch.of)
    BY <1>1 DEF WithinSound, ReadWithin
  <1>3. list \in Seq(Blocks) /\ Range(list) \subseteq ChildrenIn(notion, fetch.of)
    <2>1. list \in Seq(Blocks)
      BY <1>1, ListingFacts
    <2>2. CASE fetch.at \in DOMAIN notion[fetch.of]
      <3>1. list \in Range(notion[fetch.of])
        BY <2>2 DEF Listing, Range
      <3> HIDE DEF list
      <3> QED BY <2>1, <3>1 DEF ChildrenIn
    <2>3. CASE fetch.at \notin DOMAIN notion[fetch.of]
      <3>1. list = <<>>
        BY <2>3 DEF Listing
      <3> HIDE DEF list
      <3> QED BY <2>1, <3>1, RangeFacts
    <2> QED BY <2>2, <2>3
  <1> HIDE DEF list
  <1>4. got \in Seq(Blocks) /\ Range(got) \subseteq ChildrenIn(notion, fetch.of)
    <2>1. Range(got) = Range(fetch.got) \cup Range(list)
      BY <1>1, <1>3, RangeFacts
    <2> QED BY <1>1, <1>2, <1>3, <2>1, ConcatProperties
  <1>5. \/ /\ fetch' = [fetch EXCEPT !.got = got, !.at = @ + 1, !.attempt = 1]
           /\ UNCHANGED <<pages, stack, text>>
        \/ Deliver(got)
    BY DEF Answered, list
  <1> HIDE DEF got
  <1>6. CASE /\ fetch' = [fetch EXCEPT !.got = got, !.at = @ + 1, !.attempt = 1]
             /\ UNCHANGED <<pages, stack, text>>
    <2> DEFINE next == fetch.at + 1
    <2>1. /\ next \in Nat /\ 1 \in 1..Retries
          /\ fetch' = [fetch EXCEPT !.got = got, !.at = next, !.attempt = 1]
      BY <1>1, <1>6, BoundsAssumption
    <2> HIDE DEF next
    <2>2. fetch' \in Fetch /\ fetch'.of = fetch.of /\ fetch'.kind = fetch.kind
      BY <1>1, <1>4, <2>1, Renewed DEF Fetch
    <2>3. fetch'.got = got
      BY <1>1, <2>1 DEF Fetch
    <2>4. ReadWithin'
      BY <1>1, <1>4, <2>2, <2>3 DEF ReadWithin
    <2> QED BY <1>1, <1>2, <1>6, <2>2, <2>4, SameRequestWithin
  <1>7. CASE Deliver(got)
    BY <1>1, <1>2, <1>4, <1>7, DeliverWithin
  <1> QED BY <1>5, <1>6, <1>7

LEMMA ToBeRetriedWithin == ASSUME Kept, WithinSound, ToBeRetried PROVE WithinSound'
  <1> SUFFICES ASSUME ~stirred' PROVE WithinSound'
    BY DEF WithinSound
  <1>1. /\ fetch # NoFetch /\ fetch \in Fetch /\ fetch.attempt < Retries
        /\ fetch' = [fetch EXCEPT !.attempt = NextAttempt(@)]
        /\ UNCHANGED <<notion, edits, phase, run, stack, visited, pages, text, chunks, added,
                       collection, gaps, stirred>>
    BY DEF Kept, FetchSound, ToBeRetried
  <1> DEFINE next == NextAttempt(fetch.attempt)
  <1>2. next \in 1..Retries /\ fetch' = [fetch EXCEPT !.attempt = next]
    BY <1>1, BoundsAssumption DEF Fetch, NextAttempt
  <1> HIDE DEF next
  <1>3. /\ fetch' \in Fetch /\ fetch'.of = fetch.of /\ fetch'.kind = fetch.kind
        /\ fetch'.got = fetch.got
    <2>1. fetch' \in Fetch /\ fetch'.of = fetch.of /\ fetch'.kind = fetch.kind
      BY <1>1, <1>2, Retried DEF Fetch
    <2>2. fetch'.got = fetch.got
      BY <1>1, <1>2 DEF Fetch
    <2> QED BY <2>1, <2>2
  <1>4. ReadWithin'
    BY <1>1, <1>3 DEF WithinSound, ReadWithin
  <1> QED BY <1>1, <1>3, <1>4, SameRequestWithin

LEMMA GivesUpWithin == ASSUME Kept, WithinSound, GivesUp PROVE WithinSound'
  <1> SUFFICES ASSUME ~stirred' PROVE WithinSound'
    BY DEF WithinSound
  <1>1. /\ fetch # NoFetch /\ Deliver(fetch.got) /\ fetch.got \in Seq(Blocks)
        /\ UNCHANGED <<notion, phase, run, visited, chunks, collection, stirred>>
    BY DEF GivesUp, Kept, FetchSound, Fetch
  <1>2. Range(fetch.got) \subseteq ChildrenIn(notion, fetch.of)
    BY <1>1 DEF WithinSound, ReadWithin
  <1> QED BY <1>1, <1>2, DeliverWithin

-----------------------------------------------------------------------------
(* The crawl and the parse of a Notion nobody edits. *)

\* The chunks of a page that has been parsed hold no text but its own.
LEMMA PageDoneWithin ==
    ASSUME Kept, WithinSound, ~stirred, phase = "parse", fetch = NoFetch, stack # <<>>,
           Len(stack) = 1, stack' = Front(stack),
           chunks' = chunks \o Chunked(Head(pages).page, text),
           pages' = Tail(pages), text' = <<>>,
           UNCHANGED <<notion, phase, run, fetch, visited, collection>>
    PROVE  WithinSound'
  <1>1. ParseWithin /\ PagesWithin /\ IndexWithin
    BY DEF WithinSound
  <1>2. PICK page, new :
              /\ page = Head(pages).page
              /\ stack' = <<>>
              /\ page \in visited \cap Boundary
              /\ Crawled = {page} \cup Crawled'
              /\ \A i \in DOMAIN pages' : i + 1 \in DOMAIN pages /\ pages'[i] = pages[i + 1]
              /\ Range(chunks') = Range(chunks) \cup new
              /\ \A c \in Range(chunks) : c.page # page
              /\ \A c \in new : c.page = page
              /\ UNION {{b.id : b \in Range(c.parts)} : c \in new} = {b.id : b \in Range(text)}
              /\ {b.id : b \in Range(text)} = {} => new = {}
    BY PageIsCut
  <1>3. PagesWithin'
    BY <1>1, <1>2 DEF PagesWithin
  <1>4. page \in Findable(notion) /\ {b.id : b \in Range(text)} \subseteq TextOf(notion, page)
    BY <1>1, <1>2 DEF IndexWithin, ParseWithin
  <1>5. \A c \in new : OfItsPage(c)
    BY <1>2, <1>4 DEF OfItsPage
  <1>6. IndexWithin'
    BY <1>1, <1>2, <1>5 DEF IndexWithin, OfItsPage, Held
  <1>7. ParseWithin' /\ ReadWithin'
    BY <1>2 DEF ParseWithin, ReadWithin
  <1> QED BY <1>3, <1>6, <1>7 DEF WithinSound

LEMMA EndOfListWithin == ASSUME Kept, WithinSound, EndOfList PROVE WithinSound'
  <1> SUFFICES ASSUME ~stirred' PROVE WithinSound'
    BY DEF WithinSound
  <1>1. /\ phase \in {"crawl", "parse"} /\ fetch = NoFetch /\ stack # <<>> /\ Last(stack) = <<>>
        /\ stack' = Front(stack)
        /\ UNCHANGED <<notion, edits, phase, run, fetch, visited, added, collection, gaps, stirred>>
    BY DEF EndOfList
  <1>2. ~stirred /\ stack \in Seq(Seq(Blocks))
    BY <1>1 DEF Kept, Typed
  <1>3. CASE phase = "parse" /\ Len(stack) = 1
    <2>1. /\ chunks' = chunks \o Chunked(Head(pages).page, text)
          /\ pages' = Tail(pages) /\ text' = <<>>
      BY <1>3 DEF EndOfList
    <2> QED BY <1>1, <1>2, <1>3, <2>1, PageDoneWithin
  <1>4. CASE ~(phase = "parse" /\ Len(stack) = 1)
    <2>1. UNCHANGED <<chunks, pages, text>>
      BY <1>4 DEF EndOfList
    <2>2. ReadWithin' /\ PagesWithin' /\ IndexWithin'
      BY <1>1, <1>2, <2>1, IndexSame DEF WithinSound, ReadWithin, PagesWithin
    <2>3. Pending' \subseteq Pending /\ Owes(notion, stack') \subseteq Owes(notion, stack)
      <3>1. Pending = Listed(stack') \cup Range(Last(stack))
        BY <1>1, <1>2, PopFacts
      <3>2. Owes(notion, stack) = Owes(notion, stack')
                                  \cup Yields(notion, MaxNesting + 1 - Len(stack), Range(Last(stack)))
        BY <1>1, <1>2, PopFacts
      <3> QED BY <3>1, <3>2 DEF Pending
    <2>4. ASSUME phase = "crawl" PROVE CrawlWithin'
      BY <1>1, <1>2, <2>1, <2>3, <2>4, LargerLists DEF WithinSound, CrawlWithin
    <2>5. ASSUME phase = "parse" PROVE ParseWithin'
      <3>1. stack' # <<>>
        <4>1. Len(stack') = Len(stack) - 1 /\ Len(stack) \in Nat \ {0} /\ Len(stack) # 1
          BY <1>1, <1>2, <1>4, <2>5, StackFacts
        <4> QED BY <4>1, EmptySeq
      <3>2. Requested' = Requested
        BY <1>1 DEF Requested
      <3> QED BY <1>1, <1>2, <2>1, <2>3, <2>5, <3>1, <3>2 DEF WithinSound, ParseWithin
    <2> QED BY <1>1, <2>2, <2>4, <2>5 DEF WithinSound
  <1> QED BY <1>3, <1>4

LEMMA CrawlBlockWithin == ASSUME Kept, WithinSound, CrawlBlock PROVE WithinSound'
  <1> SUFFICES ASSUME ~stirred' PROVE WithinSound'
    BY DEF WithinSound
  <1>1. /\ phase = "crawl" /\ fetch = NoFetch /\ stack # <<>> /\ Last(stack) # <<>>
        /\ stack' = Advanced
        /\ UNCHANGED <<notion, edits, phase, run, pages, text, chunks, added, collection, gaps,
                       stirred>>
    BY DEF CrawlBlock, Walks
  <1>2. ~stirred /\ stack \in Seq(Seq(Blocks)) /\ CrawlWithin /\ PagesWithin /\ IndexWithin
    BY <1>1 DEF WithinSound, Kept, Typed
  <1>3. Pending = Pending' \cup {Here}
    BY <1>1, <1>2, PopFacts DEF Pending
  <1>4. /\ LeadsTo(notion, Pending') \subseteq LeadsTo(notion, Pending)
        /\ LeadsTo(notion, {Here}) \subseteq LeadsTo(notion, Pending)
    BY <1>3, LargerLists
  <1>5. CrawlWithin' /\ PagesWithin'
    BY <1>1, <1>2, <1>3, <1>4 DEF CrawlWithin, PagesWithin
  <1>6. CASE Here.kind = "child_page" /\ Here.id \notin visited
    <2>1. /\ visited' = visited \cup {Here.id}
          /\ fetch' = IF Here.id \in Boundary THEN Start(Here) ELSE NoFetch
      BY <1>6 DEF CrawlBlock
    <2>2. LeadsTo(notion, {Here}) = {Here.id}
      BY <1>6, LeadsToOne
    <2>3. visited' \cap Boundary \subseteq Findable(notion)
      BY <1>2, <1>4, <2>1, <2>2 DEF CrawlWithin, IndexWithin
    <2>4. IndexWithin'
      BY <1>1, <1>2, <2>3 DEF IndexWithin, OfItsPage, Held
    <2>5. ReadWithin'
      <3>1. Start(Here).got = <<>> /\ Range(<<>>) = {}
        BY EmptySeq, RangeFacts DEF Start
      <3> QED BY <2>1, <3>1 DEF ReadWithin
    <2> QED BY <1>1, <1>5, <2>4, <2>5 DEF WithinSound
  <1>7. CASE ~(Here.kind = "child_page" /\ Here.id \notin visited)
    <2>1. UNCHANGED <<visited, fetch>>
      BY <1>7 DEF CrawlBlock
    <2> QED BY <1>1, <1>2, <1>5, <2>1, IndexSame DEF WithinSound, ReadWithin
  <1> QED BY <1>6, <1>7

LEMMA CrawlDatabaseWithin == ASSUME Kept, WithinSound, CrawlDatabase PROVE WithinSound'
  <1> SUFFICES ASSUME ~stirred' PROVE WithinSound'
    BY DEF WithinSound
  <1> DEFINE rows == Listing(Here.id, 1)
  <1>1. /\ phase = "crawl" /\ fetch = NoFetch /\ stack # <<>> /\ Last(stack) # <<>>
        /\ Here.kind = "child_database"
        /\ stack' = Append(Advanced, rows) \/ stack' = Advanced
        /\ UNCHANGED <<notion, edits, phase, run, fetch, visited, pages, text, chunks, added,
                       collection, stirred>>
    BY DEF CrawlDatabase, Walks
  <1>2. /\ stack \in Seq(Seq(Blocks)) /\ CrawlWithin /\ PagesWithin /\ IndexWithin /\ Typed
    BY <1>1 DEF WithinSound, Kept, Typed
  <1>3. Here \in Blocks /\ Here.id \in Ids /\ Advanced \in Seq(Seq(Blocks))
    BY <1>1, <1>2, StackFacts DEF Blocks
  <1>4. rows \in Seq(Blocks) /\ rows = notion[Here.id][1]
    <2>1. Len(notion[Here.id]) \in Nat \ {0} /\ DOMAIN notion[Here.id] = 1..Len(notion[Here.id])
      BY <1>2, <1>3, ChildrenFacts, LenProperties DEF Typed
    <2>2. 1 \in DOMAIN notion[Here.id]
      BY <2>1
    <2> QED BY <1>2, <1>3, <2>2, ListingFacts DEF Listing
  <1> HIDE DEF rows
  <1>5. Pending = Listed(Advanced) \cup {Here}
    BY <1>1, <1>2, PopFacts
  <1>6. Pending' \subseteq Listed(Advanced) \cup Range(rows)
    <2>1. Listed(Append(Advanced, rows)) = Listed(Advanced) \cup Range(rows)
      BY <1>3, <1>4, PushFacts
    <2> QED BY <1>1, <2>1 DEF Pending
  <1>7. \A row \in Range(rows) : row.kind = "child_page"
    BY <1>1, <1>2, <1>4, <1>5 DEF CrawlWithin
  <1>8. LeadsTo(notion, Range(rows)) = LeadsTo(notion, {Here})
    <2>1. LeadsTo(notion, Range(rows)) = {row.id : row \in Range(rows)}
      BY <1>7, PagesLeadToThemselves
    <2>2. LeadsTo(notion, {Here}) = {row.id : row \in Range(notion[Here.id][1])}
      BY <1>1, LeadsToOne
    <2> QED BY <1>4, <2>1, <2>2
  <1>9. LeadsTo(notion, Pending') \subseteq LeadsTo(notion, Pending)
    <2>1. LeadsTo(notion, Pending) = LeadsTo(notion, Listed(Advanced)) \cup LeadsTo(notion, {Here})
      BY <1>5, LeadsToParts
    <2>2. LeadsTo(notion, Listed(Advanced) \cup Range(rows))
            = LeadsTo(notion, Listed(Advanced)) \cup LeadsTo(notion, Range(rows))
      BY LeadsToParts
    <2>3. LeadsTo(notion, Pending') \subseteq LeadsTo(notion, Listed(Advanced) \cup Range(rows))
      BY <1>6, LargerLists
    <2> QED BY <1>8, <2>1, <2>2, <2>3
  <1>10. \A d \in Pending' : d.kind = "child_database" =>
            \A row \in Range(notion[d.id][1]) : row.kind = "child_page"
    BY <1>2, <1>5, <1>6, <1>7 DEF CrawlWithin
  <1>11. CrawlWithin'
    BY <1>1, <1>2, <1>9, <1>10 DEF CrawlWithin
  <1> QED BY <1>1, <1>2, <1>11, IndexSame DEF WithinSound, ReadWithin, PagesWithin

LEMMA CrawlEndsWithin == ASSUME WithinSound, CrawlEnds PROVE WithinSound'
  <1>1. /\ phase = "crawl" /\ phase' = "parse" /\ fetch = NoFetch /\ stack = <<>>
        /\ UNCHANGED <<notion, edits, run, stack, fetch, visited, pages, text, chunks, added,
                       collection, gaps, stirred>>
    BY DEF CrawlEnds
  <1> QED BY <1>1, IndexSame DEF WithinSound, ReadWithin, PagesWithin, CrawlWithin, ParseWithin

LEMMA ParsePageWithin == ASSUME Kept, WithinSound, ParsePage PROVE WithinSound'
  <1> SUFFICES ASSUME ~stirred' PROVE WithinSound'
    BY DEF WithinSound
  <1>1. /\ phase = "parse" /\ fetch = NoFetch /\ stack = <<>>
        /\ UNCHANGED <<notion, edits, run, fetch, visited, pages, text, chunks, added,
                       collection, gaps, stirred>>
    BY DEF ParsePage
  <1>2. ParseWithin /\ PagesWithin /\ IndexWithin /\ Typed /\ text = <<>>
    BY <1>1 DEF WithinSound, Kept, ParseWithin
  <1>3. PagesWithin' /\ ReadWithin' /\ IndexWithin'
    BY <1>1, <1>2, IndexSame DEF PagesWithin, ReadWithin
  <1>4. CASE pages = <<>>
    <2>1. phase' = "drop"
      BY <1>4 DEF ParsePage
    <2> QED BY <1>3, <2>1 DEF WithinSound
  <1>5. CASE pages # <<>>
    <2>0. PICK page, blocks : page = Head(pages).page /\ blocks = Head(pages).blocks
      OBVIOUS
    <2>1. stack' = <<blocks>> /\ phase' = phase
      BY <1>5, <2>0 DEF ParsePage
    <2>2. page \in Ids /\ blocks \in Seq(Blocks) /\ Head(pages) = pages[1] /\ 1 \in DOMAIN pages
      <3>1. Head(pages) \in Page /\ Head(pages) = pages[1]
        BY <1>2, <1>5, HeadTailProperties DEF Typed
      <3>2. Len(pages) \in Nat \ {0} /\ DOMAIN pages = 1..Len(pages)
        BY <1>2, <1>5, EmptySeq, LenProperties DEF Typed
      <3> QED BY <2>0, <3>1, <3>2 DEF Page
    <2>3. Range(blocks) \subseteq ChildrenIn(notion, page)
      BY <1>2, <2>0, <2>2 DEF PagesWithin
    <2>4. TextOf(notion, page) = Yields(notion, MaxNesting, ChildrenIn(notion, page))
      BY <1>2, <2>2, TextIsYielded DEF Typed
    <2>5. Owes(notion, stack') = Yields(notion, MaxNesting, Range(blocks)) /\ stack' # <<>>
      <3>1. /\ <<blocks>> = Append(<<>>, blocks) /\ <<>> \in Seq(Seq(Blocks))
            /\ Len(<<>>) = 0 /\ MaxNesting \in Nat /\ MaxNesting - 0 = MaxNesting
        BY EmptySeq, BoundsAssumption
      <3>2. Owes(notion, Append(<<>>, blocks))
              = Owes(notion, <<>>) \cup Yields(notion, MaxNesting - Len(<<>>), Range(blocks))
        BY <2>2, <3>1, PushFacts
      <3> QED BY <2>1, <3>1, <3>2, EmptyFacts
    <2>6. Owes(notion, stack') \subseteq TextOf(notion, page)
      BY <2>3, <2>4, <2>5, LargerLists
    <2>7. Requested' = {} /\ {b.id : b \in Range(text')} = {}
      <3>1. Range(<<>>) = {}
        BY EmptySeq, RangeFacts
      <3> QED BY <1>1, <1>2, <3>1 DEF Requested
    <2>8. ParseWithin'
      BY <1>1, <2>0, <2>5, <2>6, <2>7 DEF ParseWithin
    <2> QED BY <1>1, <1>3, <2>1, <2>8 DEF WithinSound
  <1> QED BY <1>4, <1>5

LEMMA ParseBlockWithin == ASSUME Kept, WithinSound, ParseBlock PROVE WithinSound'
  <1> SUFFICES ASSUME ~stirred' PROVE WithinSound'
    BY DEF WithinSound
  <1>1. /\ phase = "parse" /\ fetch = NoFetch /\ stack # <<>> /\ Last(stack) # <<>>
        /\ stack' = Advanced
        /\ UNCHANGED <<notion, edits, phase, run, visited, pages, chunks, added, collection, gaps,
                       stirred>>
    BY DEF ParseBlock, Walks
  <1>2. ParseWithin /\ PagesWithin /\ IndexWithin /\ stack \in Seq(Seq(Blocks))
    BY <1>1 DEF WithinSound, Kept, Typed
  <1>3. stack' # <<>> /\ PagesWithin' /\ IndexWithin'
    BY <1>1, <1>2, StackFacts, IndexSame DEF PagesWithin
  <1>4. PICK page, owed : page = Head(pages).page
          /\ owed = Yields(notion, MaxNesting + 1 - Len(stack), {Here})
    OBVIOUS
  <1>5. {b.id : b \in Range(text)} \cup Owes(notion, stack') \cup owed \subseteq TextOf(notion, page)
    <2>1. Owes(notion, stack) = Owes(notion, stack') \cup owed
      BY <1>1, <1>2, <1>4, PopFacts
    <2> QED BY <1>1, <1>2, <1>4, <2>1 DEF ParseWithin
  <1>6. ReadWithin' /\ {x.id : x \in Range(text')} \cup Requested'
                          = {x.id : x \in Range(text)} \cup owed
    BY <1>4, BlockIsWritten DEF ParseBlock
  <1>7. ParseWithin'
    BY <1>1, <1>3, <1>4, <1>5, <1>6 DEF ParseWithin
  <1> QED BY <1>1, <1>3, <1>6, <1>7 DEF WithinSound

-----------------------------------------------------------------------------
(* The collection, starts, kills and edits, with lists that may be short. *)

\* After the parse, what the collection gains is a chunk.
LEMMA IndexGrowsWithin ==
    ASSUME WithinSound, fetch = NoFetch, phase' \notin {"crawl", "parse"},
           \A c \in Held' : c \in Held \/ c \in Range(chunks),
           UNCHANGED <<notion, run, fetch, visited, pages, chunks, stirred>>
    PROVE  WithinSound'
  BY DEF WithinSound, ReadWithin, PagesWithin, IndexWithin, OfItsPage

LEMMA DropOldWithin == ASSUME Kept, WithinSound, DropOld PROVE WithinSound'
  <1>1. /\ phase' = "create" /\ collection' \in {NoCollection, collection} /\ fetch = NoFetch
        /\ UNCHANGED <<notion, run, fetch, visited, pages, chunks, stirred>>
    BY DEF DropOld, Kept, FetchSound
  <1>2. Range(NoCollection.held) = {}
    BY EmptySeq, RangeFacts DEF NoCollection
  <1> QED BY <1>1, <1>2, IndexGrowsWithin DEF Held

LEMMA CreateWithin == ASSUME Kept, WithinSound, Create PROVE WithinSound'
  <1>1. /\ phase' \in {"add", "dead"} /\ fetch = NoFetch
        /\ UNCHANGED <<notion, run, fetch, visited, pages, chunks, stirred>>
    BY DEF Create, Kept, FetchSound
  <1>2. collection'.held = collection.held
    BY DEF Create, Kept, CollectionSound
  <1> QED BY <1>1, <1>2, IndexGrowsWithin DEF Held

LEMMA AddBatchWithin == ASSUME Kept, WithinSound, AddBatch PROVE WithinSound'
  <1>1. /\ phase = "add" /\ phase' \in {"add", "done"} /\ fetch = NoFetch
        /\ UNCHANGED <<notion, run, fetch, visited, pages, chunks, stirred>>
    BY DEF AddBatch, Kept, FetchSound
  <1>2. CASE collection' = collection
    BY <1>1, <1>2, IndexGrowsWithin DEF Held
  <1>3. CASE phase' = "add"
    <2>1. /\ DOMAIN collection'.held = 1..added' /\ added' \in 0..Len(chunks)
          /\ \A i \in 1..added' : collection'.held[i] = chunks[i]
      BY <1>1, <1>3, AddBatchKeeps DEF Kept, CollectionSound, ChunksSound
    <2>2. Len(chunks) \in Nat /\ DOMAIN chunks = 1..Len(chunks)
      BY LenProperties DEF Kept, ChunksSound
    <2>3. \A i \in 1..added' : i \in DOMAIN chunks
      BY <2>1, <2>2
    <2> QED BY <1>1, <2>1, <2>3, IndexGrowsWithin DEF Held, Range
  <1> QED BY <1>1, <1>2, <1>3 DEF AddBatch

\* A new sync has its root ahead, and what the collection holds is an earlier one's.
LEMMA StartSyncWithin == ASSUME Kept, StartSync PROVE WithinSound'
  <1>1. PICK root : root = [id |-> Root, kind |-> "child_page"]
    OBVIOUS
  <1>2. /\ phase' = "crawl" /\ stack' = <<<<root>>>> /\ fetch' = NoFetch /\ run' = run + 1
        /\ visited' = {} /\ pages' = <<>> /\ text' = <<>> /\ chunks' = <<>>
        /\ notion' = notion /\ collection' = collection
    BY <1>1 DEF StartSync, Forgets
  <1>3. root.kind = "child_page" /\ root.id = Root
    BY <1>1
  <1>4. Pending' = {root}
    BY <1>2, OneListed DEF Pending
  <1>5. LeadsTo(notion', Pending') = {Root} /\ Root \in Findable(notion')
    BY <1>3, <1>4, LeadsToOne, FindableFacts DEF Closed
  <1>6. CrawlWithin'
    BY <1>2, <1>3, <1>4, <1>5 DEF CrawlWithin
  <1>7. \A c \in Held' : c.run # run'
    <2>1. run \in Nat /\ collection.run \in 0..run
          /\ \A i \in DOMAIN collection.held : collection.held[i].run = collection.run
      BY DEF Kept, Typed, CollectionSound
    <2> QED BY <1>2, <2>1 DEF Held, Range
  <1>8. Range(<<>>) = {}
    BY EmptySeq, RangeFacts
  <1> QED BY <1>2, <1>6, <1>7, <1>8 DEF WithinSound, ReadWithin, PagesWithin, IndexWithin

LEMMA KilledWithin == ASSUME WithinSound, Killed PROVE WithinSound'
  <1>1. /\ phase' = "dead" /\ fetch' = NoFetch /\ visited' = {} /\ pages' = <<>> /\ chunks' = <<>>
        /\ UNCHANGED <<notion, run, collection, stirred>>
    BY DEF Killed, Forgets
  <1>2. Range(<<>>) = {}
    BY EmptySeq, RangeFacts
  <1> QED BY <1>1, <1>2 DEF WithinSound, ReadWithin, PagesWithin, IndexWithin, OfItsPage, Held

LEMMA EditedWithin == ASSUME Edited PROVE WithinSound'
  BY DEF Edited, WithinSound

LEMMA InitWithin == Init => WithinSound
  <1> SUFFICES ASSUME Init PROVE WithinSound
    OBVIOUS
  <1>1. Range(<<>>) = {}
    BY EmptySeq, RangeFacts
  <1>2. collection.held = <<>> /\ chunks = <<>> /\ pages = <<>> /\ visited = {} /\ phase = "idle"
        /\ fetch = NoFetch
    BY DEF Init, NoCollection
  <1>3. Held = {} /\ Range(chunks) = {}
    BY <1>1, <1>2 DEF Held
  <1> QED BY <1>2, <1>3 DEF WithinSound, ReadWithin, PagesWithin, IndexWithin

LEMMA NextWithin == ASSUME Kept, WithinSound, [Next]_vars PROVE WithinSound'
  <1>1. CASE UNCHANGED vars
    <2>1. UNCHANGED <<notion, phase, run, stack, fetch, visited, pages, text, chunks, collection,
                      stirred>>
      BY <1>1 DEF vars, process
    <2>2. Pending' = Pending /\ Requested' = Requested /\ Owes(notion, stack)' = Owes(notion, stack)
      BY <2>1 DEF Pending, Listed, Requested, Owes
    <2>3. CrawlWithin' = CrawlWithin /\ ParseWithin' = ParseWithin
      BY <2>1, <2>2 DEF CrawlWithin, ParseWithin
    <2>4. ReadWithin' = ReadWithin /\ PagesWithin' = PagesWithin
      BY <2>1 DEF ReadWithin, PagesWithin
    <2> QED BY <2>1, <2>3, <2>4, IndexSame DEF WithinSound
  <1>2. CASE Step
    BY <1>2, AnsweredWithin, ToBeRetriedWithin, GivesUpWithin, EndOfListWithin,
       CrawlBlockWithin, CrawlDatabaseWithin, CrawlEndsWithin, ParsePageWithin,
       ParseBlockWithin, DropOldWithin, CreateWithin, AddBatchWithin DEF Step
  <1> QED BY <1>1, <1>2, StartSyncWithin, KilledWithin, EditedWithin DEF Next

LEMMA AlwaysWithin == Spec => [](Kept /\ WithinSound)
  BY InitKeeps, NextKeeps, InitWithin, NextWithin, PTL DEF Spec

-----------------------------------------------------------------------------
(* Theorems. *)

\* The sync keeps its types: no attempt goes past the retries, no list past the
\* nesting, and every page crawled is within the boundary.
THEOREM TypeCorrect == Spec => []TypeOK
  <1>1. Kept => TypeOK
    <2> SUFFICES ASSUME Kept PROVE TypeOK
      OBVIOUS
    <2>1. ASSUME NEW i \in DOMAIN stack PROVE Range(stack[i]) \subseteq Blocks
      <3>1. stack[i] \in Seq(Blocks)
        BY LenProperties, ElementOfSeq DEF Kept, Typed
      <3> QED BY <3>1, RangeOfSeq
    <2>2. Range(text) \subseteq [id : Ids, opens : BOOLEAN]
      BY RangeOfSeq DEF Kept, Typed, Paragraph
    <2>3. fetch = NoFetch \/ fetch.attempt \in 1..Retries
      BY DEF Kept, FetchSound, Fetch
    <2>4. added \in 0..Len(chunks)
      BY DEF Kept, ChunksSound
    <2>5. collection.run \in 0..run
          /\ DOMAIN collection.held \subseteq 1..collection.total
      <3>1. PICK m \in 0..collection.total : DOMAIN collection.held = 1..m
        BY DEF Kept, CollectionSound
      <3>2. collection.total \in Nat /\ collection.run \in 0..run
        BY DEF Kept, CollectionSound
      <3> QED BY <3>1, <3>2
    <2>6. /\ phase = "parse" => Len(stack) <= MaxNesting + 1
          /\ \A i \in DOMAIN pages : pages[i].page \in visited \cap Boundary
      BY DEF Kept, PagesSound
    <2> QED BY <2>1, <2>2, <2>3, <2>4, <2>5, <2>6 DEF Kept, Typed, TypeOK
  <1> QED BY <1>1, AlwaysKept, PTL

\* A collection is of one sync, whole when its sync is done, and indexes no page twice.
THEOREM CollectionIsOfOneSync == Spec => []OneSyncPerCollection
  <1>1. Kept => OneSyncPerCollection
    <2> SUFFICES ASSUME Kept PROVE OneSyncPerCollection
      OBVIOUS
    <2>1. \A c \in Held : c.run = collection.run /\ c.page \in Boundary
      BY DEF Kept, CollectionSound, Held, Range
    <2>2. ASSUME phase = "done"
          PROVE  Cardinality(DOMAIN collection.held) = collection.total
      <3> DEFINE n == collection.total
      <3>1. DOMAIN collection.held = 1..n /\ n \in Nat
        BY <2>2 DEF Kept, CollectionSound
      <3> HIDE DEF n
      <3>2. Cardinality(1..n) = IF 1 > n THEN 0 ELSE n - 1 + 1
        BY <3>1, FS_Interval
      <3>3. Cardinality(1..n) = n
        BY <3>1, <3>2
      <3> QED BY <3>1, <3>3 DEF n
    <2> QED BY <2>1, <2>2 DEF Kept, CollectionSound, OneSyncPerCollection
  <1> QED BY <1>1, AlwaysKept, PTL

\* A sync indexes nothing but pages that were there to find, and files no text
\* under a page it does not belong to, whatever it gave up on.
THEOREM GivingUpAddsNothing == Spec => []NothingElseIsIndexed
  <1>1. WithinSound => NothingElseIsIndexed
    BY DEF WithinSound, IndexWithin, OfItsPage, NothingElseIsIndexed
  <1> QED BY <1>1, AlwaysWithin, PTL

\* A sync that finished without a gap, of a Notion nobody edited, has indexed
\* the pages there were to find, each with every block of its text and no other.
THEOREM QuietSyncFindsAll == Spec => []QuietSyncIsComplete
  <1>1. Kept /\ QuietSound => QuietSyncIsComplete
    <2> SUFFICES ASSUME Kept, QuietSound, phase = "done", ~gaps, ~stirred
                 PROVE  /\ {c.page : c \in Held} = {p \in Findable(notion) : TextOf(notion, p) # {}}
                        /\ \A p \in Findable(notion) :
                              UNION {{b.id : b \in Range(c.parts)} : c \in {d \in Held : d.page = p}}
                                = TextOf(notion, p)
      BY DEF QuietSyncIsComplete
    <2>1. IndexExact /\ Held = Range(chunks)
      BY DEF QuietSound, Quiet, IndexExact
    <2>2. \A p \in Findable(notion) : Indexed(p) /\ ChunksOf(p) = {d \in Held : d.page = p}
      BY <2>1 DEF IndexExact, ChunksOf
    <2>3. ASSUME NEW c \in Held
          PROVE  c.page \in Findable(notion) /\ TextOf(notion, c.page) # {}
      <3>1. c.page \in Findable(notion)
        BY <2>1 DEF IndexExact, Range
      <3>2. c \in ChunksOf(c.page)
        BY <2>1 DEF ChunksOf
      <3> QED BY <2>2, <3>1, <3>2 DEF Indexed
    <2>4. ASSUME NEW p \in Findable(notion), TextOf(notion, p) # {}
          PROVE  \E c \in Held : c.page = p
      <3>1. ChunksOf(p) # {}
        BY <2>2, <2>4 DEF Indexed
      <3> QED BY <2>2, <3>1
    <2>5. \A p \in Findable(notion) :
             UNION {{b.id : b \in Range(c.parts)} : c \in {d \in Held : d.page = p}}
               = TextOf(notion, p)
      BY <2>2 DEF Indexed
    <2> QED BY <2>3, <2>4, <2>5
  <1> QED BY <1>1, AlwaysQuiet, PTL
===============================================================================
