------------------------------- MODULE BrainSync -------------------------------
(***************************************************************************)
(* scripts/sync_notion_brain.py: the Notion tree is crawled depth first,   *)
(* its pages are turned into chunks, and the chunks replace the collection *)
(* in the vector store.  Every request may be throttled, time out or be    *)
(* refused; the process may be killed and run again; Notion may be edited  *)
(* between two requests; the collection outlives the process.              *)
(*                                                                         *)
(* Notion is the list of children of every block, page by page of the      *)
(* listing.  Titles, breadcrumbs and document types are left out, and a    *)
(* block is one paragraph of its section.                                  *)
(***************************************************************************)
EXTENDS Naturals, SequencesExt

CONSTANTS Root,      \* ROOT_PAGE_ID
          Notions,   \* what Notion may hold: block -> Seq(page of its children)
          Boundary,  \* forgemind_boundary.get_boundary_ids
          Size,      \* block -> the length of its text
          MaxChunkChars, ChunkOverlapChars, MaxNesting, Retries, BatchSize,
          MaxRuns, MaxEdits  \* bounds

Kinds == {"text", "heading", "group", "table", "child_page", "child_database"}
Ids == DOMAIN Size
Blocks == [id : Ids, kind : Kinds]

ASSUME RootAssumption == Root \in Boundary /\ Boundary \subseteq Ids

ChildrenIn(n, i) == UNION {Range(list) : list \in Range(n[i])}

\* A listing has at least one page, an empty one if the block has no children;
\* the rows of a database are pages.
ASSUME NotionAssumption ==
    /\ Notions \subseteq [Ids -> Seq(Seq(Blocks)) \ {<<>>}]
    /\ \A n \in Notions, i \in Ids : \A b \in ChildrenIn(n, i) :
          b.kind = "child_database" => \A row \in Range(n[b.id][1]) : row.kind = "child_page"
ASSUME BoundsAssumption ==
    /\ {MaxChunkChars, ChunkOverlapChars, MaxNesting, MaxRuns, MaxEdits} \subseteq Nat
    /\ {Retries, BatchSize} \subseteq Nat \ {0}

VARIABLES notion, edits,
          phase,       \* what the process is doing
          run,         \* which sync this is: synced_at
          stack,       \* the lists being walked, the innermost last
          fetch,       \* the fetch_block_children under way
          visited, pages, text, chunks, added,
          collection,  \* persistent
          gaps,        \* history: this run gave up on some list
          stirred      \* history: Notion was edited during this run

process == <<phase, run, stack, fetch, visited, pages, text, chunks, added>>
vars == <<notion, edits, process, collection, gaps, stirred>>

Idle == {"idle", "done", "dead"}
NoFetch == [of |-> Root, kind |-> "none"]
NoCollection == [run |-> 0, total |-> 0, held |-> <<>>]
Start(b) == [of |-> b.id, kind |-> b.kind, at |-> 1, attempt |-> 1, got |-> <<>>]

-----------------------------------------------------------------------------
(* Text into chunks. *)

Length(paras) == FoldLeft(LAMBDA n, b : n + Size[b.id], 0, paras)
Fits(paras) == Length(paras) <= MaxChunkChars

\* chunk_section_with_overlap: the chunk of a paragraph begins at its section's
\* heading (parse_blocks_to_sections), unless it was overfilled since; a short
\* last paragraph then opens the next chunk too.
Begins(t) ==
    LET begin[i \in 1..Len(t)] ==
          IF i = 1 \/ t[i].opens THEN i
          ELSE LET b == begin[i - 1] IN
                 IF Fits(SubSeq(t, b, i)) THEN b
                 ELSE IF Size[t[i - 1].id] <= ChunkOverlapChars THEN i - 1 ELSE i
    IN  begin

\* Fault for the checks: the last, unfilled chunk of a page is forgotten.
EndsChunk_WhenFull(t, b, i) ==
    i < Len(t) /\ (t[i + 1].opens \/ ~Fits(SubSeq(t, b, i + 1)))

EndsChunk(t, b, i) ==
    \/ i = Len(t)
    \/ t[i + 1].opens
    \/ ~Fits(SubSeq(t, b, i + 1))

Chunked(page, t) ==
    LET begin == Begins(t)
        ends  == {i \in DOMAIN t : EndsChunk(t, begin[i], i)}
        end(k) == CHOOSE i \in ends : Cardinality({j \in ends : j <= i}) = k
    IN  [k \in 1..Cardinality(ends) |->
            [run |-> run, page |-> page, index |-> k, of |-> Cardinality(ends),
             parts |-> SubSeq(t, begin[end(k)], end(k))]]

-----------------------------------------------------------------------------
(* Reading a list of children. *)

\* What the caller of fetch_block_children does with what it returns: a page is
\* kept and its blocks are walked; a table's rows are text; a nested list is walked.
Deliver(blocks) ==
    /\ fetch' = NoFetch
    /\ CASE fetch.kind = "child_page" ->
              /\ pages' = Append(pages, [page |-> fetch.of, blocks |-> blocks])
              /\ stack' = Append(stack, blocks)
              /\ UNCHANGED text
         [] fetch.kind = "table" ->
              /\ text' = text \o [i \in 1..Len(blocks) |-> [id |-> blocks[i].id, opens |-> FALSE]]
              /\ UNCHANGED <<pages, stack>>
         [] fetch.kind = "group" ->
              /\ stack' = Append(stack, blocks)
              /\ UNCHANGED <<pages, text>>

Listing(of, at) == IF at \in DOMAIN notion[of] THEN notion[of][at] ELSE <<>>
HasMore(of, at) == at < Len(notion[of])

Answered ==
    /\ fetch # NoFetch
    /\ LET got == fetch.got \o Listing(fetch.of, fetch.at) IN
         IF HasMore(fetch.of, fetch.at)
         THEN /\ fetch' = [fetch EXCEPT !.got = got, !.at = @ + 1, !.attempt = 1]
              /\ UNCHANGED <<pages, stack, text>>
         ELSE Deliver(got)
    /\ UNCHANGED <<notion, edits, phase, run, visited, chunks, added, collection, gaps, stirred>>

\* Fault for the checks: a throttled request starts the attempts over.
NextAttempt_StartsOver(attempt) == IF attempt = 1 THEN 2 ELSE 1

NextAttempt(attempt) == attempt + 1

\* A 429, a timeout or a broken answer is tried again, at most retries times.
ToBeRetried ==
    /\ fetch # NoFetch
    /\ fetch.attempt < Retries
    /\ fetch' = [fetch EXCEPT !.attempt = NextAttempt(@)]
    /\ UNCHANGED <<notion, edits, phase, run, stack, visited, pages, text, chunks, added,
                   collection, gaps, stirred>>

\* Any other HTTP error, or the last attempt: what was read so far is returned.
GivesUp ==
    /\ fetch # NoFetch
    /\ Deliver(fetch.got)
    /\ gaps' = TRUE
    /\ UNCHANGED <<notion, edits, phase, run, visited, chunks, added, collection, stirred>>

-----------------------------------------------------------------------------
(* The crawl and the parse: both walk the innermost list. *)

Walks(p) == phase = p /\ fetch = NoFetch /\ stack # <<>>
Here == Head(Last(stack))
Advanced == Append(Front(stack), Tail(Last(stack)))

EndOfList ==
    /\ phase \in {"crawl", "parse"} /\ fetch = NoFetch /\ stack # <<>> /\ Last(stack) = <<>>
    /\ stack' = Front(stack)
    /\ IF phase = "parse" /\ Len(stack) = 1
       THEN /\ chunks' = chunks \o Chunked(Head(pages).page, text)
            /\ pages' = Tail(pages)
            /\ text' = <<>>
       ELSE UNCHANGED <<chunks, pages, text>>
    /\ UNCHANGED <<notion, edits, phase, run, fetch, visited, added, collection, gaps, stirred>>

\* crawl_tree
CrawlBlock ==
    /\ Walks("crawl") /\ Last(stack) # <<>>
    /\ Here.kind # "child_database"
    /\ stack' = Advanced
    /\ IF Here.kind = "child_page" /\ Here.id \notin visited
       THEN /\ visited' = visited \cup {Here.id}
            /\ fetch' = IF Here.id \in Boundary THEN Start(Here) ELSE NoFetch
       ELSE UNCHANGED <<visited, fetch>>
    /\ UNCHANGED <<notion, edits, phase, run, pages, text, chunks, added, collection, gaps,
                   stirred>>

\* One request for a database's first 100 rows; an error only skips the database.
CrawlDatabase ==
    /\ Walks("crawl") /\ Last(stack) # <<>>
    /\ Here.kind = "child_database"
    /\ \/ stack' = Append(Advanced, Listing(Here.id, 1)) /\ UNCHANGED gaps
       \/ stack' = Advanced /\ gaps' = TRUE
    /\ UNCHANGED <<notion, edits, phase, run, fetch, visited, pages, text, chunks, added,
                   collection, stirred>>

CrawlEnds ==
    /\ phase = "crawl" /\ fetch = NoFetch /\ stack = <<>>
    /\ phase' = "parse"
    /\ UNCHANGED <<notion, edits, run, stack, fetch, visited, pages, text, chunks, added,
                   collection, gaps, stirred>>

\* Fault for the checks: the limit is tested one level too late.
Descends_TooDeep(b) ==
    CASE b.kind = "table" -> TRUE
      [] b.kind = "group" -> Len(stack) <= MaxNesting + 1
      [] OTHER            -> FALSE

\* block_to_markdown fetches a block's children down to max_nesting.
Descends(b) ==
    CASE b.kind = "table" -> TRUE
      [] b.kind = "group" -> Len(stack) <= MaxNesting
      [] OTHER            -> FALSE

ParseBlock ==
    /\ Walks("parse") /\ Last(stack) # <<>>
    /\ stack' = Advanced
    /\ IF Here.kind \in {"child_page", "child_database"} THEN UNCHANGED <<text, fetch>>
       ELSE /\ text' = Append(text, [id |-> Here.id,
                                     opens |-> Here.kind = "heading" /\ Len(stack) = 1])
            /\ fetch' = IF Descends(Here) THEN Start(Here) ELSE NoFetch
    /\ UNCHANGED <<notion, edits, phase, run, visited, pages, chunks, added, collection, gaps,
                   stirred>>

ParsePage ==
    /\ phase = "parse" /\ fetch = NoFetch /\ stack = <<>>
    /\ IF pages = <<>> THEN phase' = "drop" /\ UNCHANGED stack
       ELSE stack' = <<Head(pages).blocks>> /\ UNCHANGED phase
    /\ UNCHANGED <<notion, edits, run, fetch, visited, pages, text, chunks, added,
                   collection, gaps, stirred>>

-----------------------------------------------------------------------------
(* The collection. *)

\* delete_collection; its failure is ignored.
DropOld ==
    /\ phase = "drop"
    /\ phase' = "create"
    /\ collection' \in {NoCollection, collection}
    /\ UNCHANGED <<notion, edits, run, stack, fetch, visited, pages, text, chunks, added, gaps,
                   stirred>>

\* Fault for the checks: get_or_create_collection, which takes the collection that is there.
MayCreate_Reuses == TRUE

\* Creating over a collection that is still there raises.
MayCreate == collection = NoCollection

Create ==
    /\ phase = "create"
    /\ IF MayCreate
       THEN /\ phase' = "add"
            /\ collection' = [collection EXCEPT !.run = run, !.total = Len(chunks)]
       ELSE phase' = "dead" /\ UNCHANGED collection
    /\ UNCHANGED <<notion, edits, run, stack, fetch, visited, pages, text, chunks, added, gaps,
                   stirred>>

Upto(i) == IF i + BatchSize < Len(chunks) THEN i + BatchSize ELSE Len(chunks)

\* collection.add keeps the document an identifier already has.
AddBatch ==
    /\ phase = "add"
    /\ IF added = Len(chunks) THEN phase' = "done" /\ UNCHANGED <<added, collection>>
       ELSE /\ added' = Upto(added)
            /\ collection' = [collection EXCEPT !.held =
                                  [i \in DOMAIN @ \cup (added + 1 .. Upto(added)) |->
                                      IF i \in DOMAIN @ THEN @[i] ELSE chunks[i]]]
            /\ UNCHANGED phase
    /\ UNCHANGED <<notion, edits, run, stack, fetch, visited, pages, text, chunks, gaps, stirred>>

-----------------------------------------------------------------------------

Forgets ==
    /\ fetch' = NoFetch
    /\ visited' = {} /\ pages' = <<>> /\ text' = <<>> /\ chunks' = <<>> /\ added' = 0

StartSync ==
    /\ phase \in Idle /\ run < MaxRuns
    /\ phase' = "crawl"
    /\ run' = run + 1
    /\ stack' = <<<<[id |-> Root, kind |-> "child_page"]>>>>
    /\ Forgets
    /\ gaps' = FALSE /\ stirred' = FALSE
    /\ UNCHANGED <<notion, edits, collection>>

\* The process is killed, or an exception ends it.
Killed ==
    /\ phase \notin Idle
    /\ phase' = "dead"
    /\ stack' = <<>>
    /\ Forgets
    /\ UNCHANGED <<notion, edits, run, collection, gaps, stirred>>

Edited ==
    /\ edits < MaxEdits
    /\ edits' = edits + 1
    /\ notion' \in Notions \ {notion}
    /\ stirred' = TRUE
    /\ UNCHANGED <<process, collection, gaps>>

Init ==
    /\ notion \in Notions /\ edits = 0
    /\ phase = "idle" /\ run = 0 /\ stack = <<>> /\ fetch = NoFetch
    /\ visited = {} /\ pages = <<>> /\ text = <<>> /\ chunks = <<>> /\ added = 0
    /\ collection = NoCollection
    /\ gaps = FALSE /\ stirred = FALSE

Step ==
    \/ Answered \/ ToBeRetried \/ GivesUp
    \/ EndOfList \/ CrawlBlock \/ CrawlDatabase \/ CrawlEnds \/ ParsePage \/ ParseBlock
    \/ DropOld \/ Create \/ AddBatch

Next == Step \/ StartSync \/ Killed \/ Edited

Spec == Init /\ [][Next]_vars
\* The script runs on until it ends: every request has a timeout and every sleep is finite.
FairSpec == Spec /\ WF_vars(Step)

-----------------------------------------------------------------------------
(* Properties. *)

Held == Range(collection.held)

\* Type correctness.  An attempt never goes past the retries the code allows,
\* and the lists being walked never nest deeper than the pages and their blocks.
TypeOK ==
    /\ notion \in Notions /\ edits \in 0..MaxEdits
    /\ phase \in Idle \cup {"crawl", "parse", "drop", "create", "add"}
    /\ run \in 0..MaxRuns
    /\ \A i \in DOMAIN stack : Range(stack[i]) \subseteq Blocks
    /\ phase = "parse" => Len(stack) <= MaxNesting + 1
    /\ fetch = NoFetch \/ fetch.attempt \in 1..Retries
    /\ visited \subseteq Ids
    /\ \A i \in DOMAIN pages : pages[i].page \in visited \cap Boundary
    /\ Range(text) \subseteq [id : Ids, opens : BOOLEAN]
    /\ added \in 0..Len(chunks)
    /\ collection.run \in 0..run /\ DOMAIN collection.held \subseteq 1..collection.total
    /\ gaps \in BOOLEAN /\ stirred \in BOOLEAN

\* Whatever is killed, retried, edited or fails to be deleted, a collection
\* holds chunks of one sync only, each page of it appears once, and what a
\* sync that finished reports (collection.count) is what it announced in the
\* collection's metadata (delete_collection, create_collection, the identifiers).
OneSyncPerCollection ==
    /\ \A c \in Held : c.run = collection.run /\ c.page \in Boundary
    /\ \A i, j \in DOMAIN collection.held :
         collection.held[i].page = collection.held[j].page
           /\ collection.held[i].index = collection.held[j].index => i = j
    /\ phase = "done" => Cardinality(DOMAIN collection.held) = collection.total

\* The pages a list of blocks leads to: its own, and the first rows of its databases.
LeadsTo(n, blocks) ==
    {b.id : b \in {c \in blocks : c.kind = "child_page"}}
    \cup UNION {{row.id : row \in Range(n[d.id][1])} :
                  d \in {c \in blocks : c.kind = "child_database"}}

\* The pages crawl_tree is to find: the least set that holds the root and, within
\* the boundary, what the pages in it lead to.
Closed(n, S) == Root \in S /\ \A p \in S : Boundary \cap LeadsTo(n, ChildrenIn(n, p)) \subseteq S
Findable(n) == {p \in Boundary : \A S \in SUBSET Boundary : Closed(n, S) => p \in S}

\* The blocks whose text belongs to a page: its own, those under a group down to
\* max_nesting, and the rows of every table among them.
Levels(n, p) ==
    LET at[d \in 0..MaxNesting] ==
          IF d = 0 THEN ChildrenIn(n, p)
          ELSE UNION {ChildrenIn(n, b.id) : b \in {c \in at[d - 1] : c.kind = "group"}}
    IN  at

TextOf(n, p) ==
    LET all  == UNION {Levels(n, p)[d] : d \in 0..MaxNesting}
        rows == UNION {ChildrenIn(n, b.id) : b \in {c \in all : c.kind = "table"}}
    IN  {b.id : b \in {c \in all : c.kind \notin {"child_page", "child_database"}} \cup rows}

\* Whatever a sync gave up on, it indexes less and nothing else: as long as nobody
\* edits Notion, what it put into the collection is of pages that were there to
\* find, and is text of the page it is filed under.
NothingElseIsIndexed ==
    ~stirred =>
        \A c \in Held : c.run = run =>
            /\ c.page \in Findable(notion)
            /\ {b.id : b \in Range(c.parts)} \subseteq TextOf(notion, c.page)

\* A sync that finished without giving up on a list, of a Notion nobody edited
\* meanwhile, has indexed every page it could find and every block of its text,
\* whatever was retried, split at the size limit or batched.
QuietSyncIsComplete ==
    phase = "done" /\ ~gaps /\ ~stirred =>
        /\ {c.page : c \in Held} = {p \in Findable(notion) : TextOf(notion, p) # {}}
        /\ \A p \in Findable(notion) :
             UNION {{b.id : b \in Range(c.parts)} : c \in {d \in Held : d.page = p}} = TextOf(notion, p)

\* A sync that started ends, or is killed, whatever Notion answers: retries are
\* bounded and no page is crawled twice.
SyncEnds == phase \notin Idle ~> phase \in Idle
=============================================================================
