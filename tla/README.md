# ForgeMind in TLA+

ForgeMind takes an engineering event (mostly a GitHub pull request), lets six
deterministic workers look at the evidence, aggregates their findings, and decides
how much autonomy the evidence earned: act alone (`safe_autonomous`), hold for a
human (`human_review`) or `escalate`. This directory holds its TLA+ models, the TLC
configurations that check them on small instances, and TLAPS proofs about them.
Paths below are relative to the package, `src/src/forgemind/`, unless they start
with `src/`.

## The system

| part | state it keeps | operations | speaks to |
|---|---|---|---|
| webhook (`api/adk_routes.py`) | none of its own | `POST /adk/webhook`: enrich, ingest, store, comment, set status | enrichment, ADK pipeline, store, viewer cache, GitHub |
| enrichment (`enrichment.py`, `monitoring_search.py`) | `_PAYLOAD_CACHE` by (repo, sha), five minutes | `enrich_payload`: a thread that asks five sources, in order | GitHub, advisories, GitBook, an incident search by a model |
| acquisition (`acquisition.py`) | none | validate the event, select domains and workers | |
| supervisor (`supervisor.py`) | none | check the plan's constraints, dispatch record | |
| workers (`worker_contexts.py`, `workers.py`) | none | six workers in a thread pool, one shard each | Gemini (`llm/adapter.py`), optional |
| managers (`domain_managers.py`) | none | one finding per domain, in a thread pool | |
| validator (`validator.py`) | none | one ValidatedSituation | verification |
| reducer and gate (`reducer.py`, `action_gate.py`, `m3_proof.py`) | none | class, proposal, gate verdict, terminal outcome, labels | |
| ADK runtime (`adk_runtime.py`, `tools/adk_tools.py`, `agents/root_agent.py`) | `_PENDING_APPROVALS`; a session per runner request | `run_adk_pipeline`, the runner with six agents, `resume_adk_pipeline` | all tiers; reviewers through `api/routes.py` |
| deterministic pipeline (`api/pipeline.py`) | none | `run_pipeline`, without a pause, also for a caller's own shards, contexts and findings | all tiers |
| verification (`verification/`) | a registry of verifiers | ask GitHub whether a claim is so | GitHub, several requests for one claim |
| situation store, viewer cache (`situation_store.py`, `api/situation_cache.py`) | SQLite or a dictionary; a dictionary | save, get, expire, evict | viewer |
| knowledge brain (`src/scripts/sync_notion_brain.py`) | a collection in a vector store, on disk | crawl Notion, cut its text into chunks, replace the collection | Notion |
| memory, LLM adapter, dashboard, agent construction, fixtures | caches and wrappers | | |

Where it is hard:

- One event loop serves everything. A handler is atomic between two awaits, but gives
  way while the enrichment thread or the runner runs, so deliveries, runner requests and
  reviewers interleave over three shared dictionaries.
- The agents of `adk+runner` are only *told* to call their tool once.
- Approvals, caches and whatever is in flight are lost in a restart. The situation store and the
  knowledge brain persist, and meet what an earlier process left behind.
- Sources fail, and a failure must not look like good news.
- The class follows from averages, roundings and three confidence strategies whose
  choice depends on a risk level computed from the same numbers.

What makes each part correct, in one line each: the reducer gives autonomy only for
complete, corroborated, uncontested evidence, and more of it never hurts; the gate's
verdict, the terminal and every label agree; a paused workflow can be answered exactly
once; an agent that misbehaves gains nothing; what the validator emits is what the reducer
was designed for; an outage or a failing build is never green; a commit is marked only for a delivery
of its own, on fresh evidence, and every delivery is answered; no page shows a superseded situation
(unless SQLite comes and goes), and the store stays within its bound; a claim is called verified only if GitHub bore it out; a
caller's evidence is neither trusted nor lost by an accident of the tiers; and a collection of
the brain is of one sync.

## The modules

| module | models | state ↔ code |
|---|---|---|
| `AutonomyPolicy` | reducer, gate, labels, as operators | a situation is the facts the reducer tests; confidence and strength in hundredths, as `round(_, 2)` leaves them |
| `DecisionStage` | one situation through `reduce`, `validate`, publish or pause, and resume | `record`, `action`, `validation`, `terminal` are the artifacts; `stage` is where the function stands; `Pausing` selects `run_adk_pipeline` or `run_pipeline` |
| `AdkRuntime` | one process, many requests, three runtimes | `pending` is the keys of `_PENDING_APPROVALS`; `session` is `tool_context.state`; `agent`, `calls` are the runner's position; `response` is what the client got |
| `ApprovalLedger` | the abstract promise of the approval store | `life` of each token: absent, pending, approved, rejected, lost |
| `EvidenceRules` | which worker works for which domain, and how the validator rounds; it extends `AutonomyPolicy` | operators only |
| `EvidenceFlow` | one webhook event from the sources to the class; it extends `EvidenceRules` | `sources` is what would be answered, `payload` the enrichment's dictionary, `shards` what became of each worker, `situation` the validator's |
| `Webhook` | deliveries, enrichment thread, cache, comment, status, viewer | `handler[d]` is the coroutine of a delivery and its thread, `cache` is `_PAYLOAD_CACHE`, `viewer` the situation cache |
| `EvidenceIntake` | `POST /events` with a caller's shards, contexts and findings, tier by tier; it extends `EvidenceRules` | `plan` is `selected_domains`; `shards` the caller's and the workers'; `findings`, `failed` what the pool of managers has come to |
| `Verification` | the provenance of claims, one request after the other | `github` is the commit as GitHub has it; `status` the claims' `ClaimStatus`; `listed` the loop over deployments |
| `SituationStore` | store and viewer cache on SQLite or in memory | `disk`, `mem` are the table and the dictionary, `use_memory` the fallback, `cache` the viewer's dictionary, `medium` what the file system allows |
| `BoundedMap` | the abstract promise of the store: a map of bounded size whose entries live for a while | `map`; `shelf`, a map that was set aside and may come back; `answer` |
| `BrainSync` | the sync of the knowledge brain, restarted and killed at will | `stack` holds the recursion of `crawl_tree` and of `block_to_markdown`, `fetch` one `fetch_block_children`, `collection` what is on disk |
| `MC…` | bounds, symmetry, and what the repository says and the code does not do | |
| `DecisionProofs`, `AdkRuntimeProofs`, `SituationStoreProofs`, `WebhookProofs`, `EvidenceFlowProofs`, `EvidenceIntakeProofs`, `VerificationProofs`, `BrainSyncProofs` | theorems about the module they are named for (`DecisionProofs`: about `DecisionStage`) | |

`EvidenceFlow` ends where `DecisionStage` begins: its `ValidatorMeetsReducer` says that
every situation the tiers can produce is one `DecisionStage` starts from. `AdkRuntime`
takes the class of an event as given (the set of verdicts its evidence can get) and
`Webhook` the class of a payload; the only thing `Webhook` uses of it, that a failing build or
a failed enrichment is never green, is checked in `EvidenceFlow`. `AdkRuntime`
implements `ApprovalLedger` (`TokensAreLedgered`, by the mapping `TokenLife`). `SituationStore`
implements `BoundedMap` with `map` mapped to the table or the dictionary in use, and `shelf` to the table once the dictionary is; `Webhook`'s
`PutSituation` is its `StoreSituation`. `EvidenceIntake` ends where `DecisionStage` begins, as `EvidenceFlow` does,
and takes from `Verification` only that a claim of one domain may or may not be confirmed.

Abstractions. A changed file is its *kind*: the set of path predicates it satisfies. A claim is
its *wording*: what the phrase lists of managers and validator make of it. The lists differ, and
a claim may be a signal for one and none for the other; the model keeps that. The thread of the
enrichment asks its sources one after the other; `Webhook` keeps the two whose order
matters (files by pull request number, check runs by commit), `EvidenceFlow` has all five
at one instant. In `EvidenceIntake` a claim is one of eight wordings, one for each thing a tier looks for
(plain and its negation, a cause, a verified cause, a risk, a manifest, nothing, unavailable); schemas are a flag.
In `Verification` a claim is the set of marks the keyword lists find in its text. In `BrainSync` a block is a paragraph with a length,
and titles, breadcrumbs and document types are left out. A GitHub write blocks the event loop, so it is part of its handler's
step; it may be refused, and nobody repeats it. Definitions marked "Fault for the checks" stand beside the definition they would
replace; no specification uses them. They show that each property can fail.

## The runs

Passing:

| run | instance | shows |
|---|---|---|
| `decision_adk` | 85 788 situations: 11 confidences and 9 strengths on and beside every threshold, all domains, causalities and flags | `ExecutedIsEarned`, `LabelsMatchExecution`, `AutonomyUpwardClosed`, `AbsenceIsNamed`, `HeldForHuman` |
| `adk_runner` | two requests under `adk+runner`, two tool calls per agent, any reviewers and restarts | `PausedIsAnswerable`, `SkippingNeverUpgrades`, refinement of `ApprovalLedger` |
| `adk_live` | one request, fair model | `EveryRequestAnswered` |
| `evidence_webhook` | 11 changesets, all answers of five sources, up to two alerts and two telemetry signals, six wordings of the model | `ValidatorMeetsReducer`, `MonitoringOutageNeverGreen`, `BadNewsNeverGreen` |
| `webhook` | two pull requests, two commits, two deliveries, a TTL of two ticks, three instants | `SuccessIsItsOwn`, `HitsAreFresh`, `EveryDeliveryAnswered` |
| `situation_store` | three situations, a size of two, four saves, four instants; a medium that works, is read only, is memory, or comes and goes | `BoundedSize`, `PagesShowTheLatest` (all but a table in use on a medium that comes and goes), refinement of `BoundedMap` |
| `verification` | two claims of six wordings, two check runs or deployments, GitHub moving once, every request answering, empty or failing | `WitnessedByGitHub`, `NothingIsVerifiedUnheard`, `EveryClaimAssessed` |
| `intake` | the plans of 12 events; a caller's shard of every wording, state and domain, pairs that deny each other, all pairs of findings, contexts given or derived | `PlanIsDispatchable`, `IntakeMeetsReducer`, `ManagerFailureIsNotSilent`, `TypedDoubtNeverGreen`, `DenialNeverGreen` |
| `brain_sync` | two syncs of a Notion with three pages in scope, one out of it, a listing of two requests, nesting past the limit, a table and a database; one page moved at any time | `OneSyncPerCollection`, `NothingElseIsIndexed`, `QuietSyncIsComplete`, `SyncEnds` |

Each passing run but `adk_live` also checks its module's `TypeOK`.

Why the bounds are enough. The ladder compares with a handful of constants; the chosen
values lie on, below and above each, also before the boost of 0.05, and the theorems drop the
bound. Tokens are drawn per request, so two requests show every interference, and two calls are
a repetition. The changesets satisfy every path predicate alone and in the mixtures
that change a confidence, on both sides of the caps; alerts and telemetry move a confidence
in equal steps, and two is past the step that crosses a threshold. A cache entry has one writer and
one reader; with a TTL of two an entry is fresh, aged and expired within three
instants. The store evicts at two, so three situations evict each other, and a fourth save replaces one in a full store.
One move of GitHub falls between any two requests of a claim, two claims show that they do not share a list.
The bodies of `intake` hold each wording once in each domain, and in pairs where a tier compares two;
the emissions of workers differ where the tiers can tell. The lengths in `brain_sync` make one section overflow, with a
last paragraph short enough to overlap; two syncs meet each other's collection. Handlers do not end in a state from which something must follow, so no run
checks deadlock: all of them model work that comes to rest.

Violated, each a disagreement between the repository's words and its code:

| run | the words | what happens |
|---|---|---|
| `claim_ApprovalPublishesAction` | `src/specs/001-hierarchical-runtime-dag/m3b-plan.md:159` | approving publishes an escalation: the gate's `requires_human` is passed on unchanged |
| `claim_VerifiedMeansConfirmed` | `verification/github_verifiers.py:11` | "build passed with no new CI failures" contains a word of success and one of failure: failed checks verify it |
| `claim_RejectedEvidenceHasNoWeight` | `domain_managers.py:392`, `validator.py:426` | the rejected shards are handed to the validator all the same, and their workers count in the evidence strength |

Seen while modelling and not given a run of their own:

- `adk_runtime.py:110` says that only paused workflows wait. A runner that fails after its gate, or calls
  it twice, leaves an entry no client knows.
- `src/README.md:39` says that action validation is the only publish point. The runner's answer is
  assembled, and can be `safe_autonomous`, although its gate never ran.
- `src/.specify/constitution.md:57` wants uncontactable domains factored into the escalation. An
  unread file list or advisory database can end green.
- `workers.py:912` surfaces failures of workers, and `domain_managers.py` those of managers. Nobody reads
  either; for managers the validator refuses the same shards again (`ManagerFailureIsNotSilent`).
- `reducer.py:98-103` requires domains for each action. `ACTION_REQUIRED_DOMAINS` is never read.
- `api/adk_routes.py:151` comments on the pull request. The cached payload may carry the
  number of another one with the same head.
- `situation_store.py:176` falls back to memory. The save that finds the file system read only returns then, saved
  nowhere (`SaveUnopened`).
- `situation_store.py:96` falls back to memory for the lifetime of the process. Where the file comes and goes, its successor
  reads the rows again that it left, superseded ones too; `BoundedMap` allows it (`ComesBack`), `PagesShowTheLatest` excuses it.
- `domain_managers.py:78` detects contradicting claims of one domain. It finds two negations, never a claim and its
  negation, and no tier reads the result.
- `verification/github_verifiers.py:232` registers its verifiers "at import time". Nothing in the package imports
  it, so in the application every claim is passed over. What it would ask is the first page of check runs; runs that are
  all skipped confirm a success; one successful deployment out of many confirms "deployed".
- `src/scripts/sync_notion_brain.py:4-10` indexes "the entire" knowledge base "across all nested pages
  and databases". A page nested in a toggle or a column is not crawled, a database is read to its first 100 rows, a page below the
  listed ones is out of the static boundary although `forgemind_boundary.py:8` puts every descendant in scope, and a
  listing that fails half way is indexed as far as it came, with a success message.
- A query during a sync answers from a collection that is still being filled; its metadata would tell
  (`total_chunks`), but `query_brain.py` does not look.
- `reducer.py:20` says `safe_autonomous` means confidence >= 0.75. The record may carry 0.70,
  for the ladder compares the boosted, weighted value.
- `reducer.py:534` says contradictory evidence always escalates. Every reason to hold is
  tested first, so it may end in `human_review`.
- `src/docs/decisions/ADR-011-evidence-aware-decisioning.md:99` says that coverage gaps block autonomy. The reducer
  never reads `coverage_gaps`.
- `adk_runtime.py:29` says the path is inert unless `FORGEMIND_RUNTIME=adk`.
  `POST /adk/events` and the webhook run it in every runtime, and what they pause cannot be answered where
  the approval routes reply 404.
- The docstring of `worker_contexts.py` omits workers without a payload key. It never does.
- An alert can raise autonomy: with no build outcome, the delivery domain is counted as
  observed only once there is one.
- A file named like a cause ("docs/triggers.md") makes the validator refuse a pull request of one
  domain, as an uncorroborated causal claim.
- Files are read by pull request number, check runs by commit: a push in between gives a payload
  of two commits. The model has it (`payload.files`).

## Fairness

`AdkRuntime!FairSpec` assumes that the current agent eventually hands over and that a
finished run is assembled (weak fairness of `NextAgent` and `FinishRun`). The code is
a loop over `runner.run_async`; it goes on if the model answers or raises. It has
no timeout of its own, so this is an assumption about the model, and the property
is false without it. Tool calls are not fair: an agent may always skip.

`Webhook!FairSpec` assumes weak fairness of each delivery's handler. The thread's requests to GitHub and
GitBook carry timeouts and end in a value or an exception, which the handler catches; the
event loop resumes what is ready. The incident search and a runner again need a model that answers.

`Verification!FairSpec` assumes that a validation goes on: `GitHubClient` asks with a timeout, and the registry
catches what a verifier raises. `BrainSync!FairSpec` assumes the same of the script, whose requests
have a timeout and whose retries are counted; being killed is an end too.

## The proofs

`DecisionProofs` (any `Confidences`, `Strengths` within 0..100, both runtimes). The inductive
invariant `StagesDetermined` says that each stage determines the artifacts from the
situation: there is no other state to reason about, and each property becomes a fact about the
ladder for one situation. The lemmas carry the arithmetic: outside low risk the ladder's confidence never
reaches the autonomous threshold or the evidence is held; and the weighting is monotone in confidence and
strength. From these: `TypeCorrect`, `ExecutionEarned`, `LabelsAgree`, `AbsenceNamed`,
`HeldUntilAnswered`, `AutonomyNeverShrinks`. Assumptions: `ScaleAssumption`, `PausingAssumption`.

`AdkRuntimeProofs` (any requests, runtime and bound on calls). `SkippingNeverUpgrades` is not
inductive: an answer is read off the session, so the session has to be honest before.
The invariant adds that a session's classes come from its evidence or are `escalate`, that a
published action in it had evidence for it, that its token was stored (`SessionHonest`); that requests at rest
have no session (`AtRest`); that no more tokens are drawn than the gate was called (`DrawsCounted`,
needed for the type of `drawn`); and that undrawn tokens are unknown to the store (`StoreHonest`,
needed so that an issued token is new). From it: `TypeCorrect`, `PausedAnswerable`, `NoUpgrade`,
`StoreIsALedger` (initial states and steps map to the ledger's), and through that refinement
`AnswersAreFinal`. Assumptions: `RuntimeAssumption`, `MaxCallsAssumption`, `NoTokenAssumption`.

`SituationStoreProofs` (any identifiers, lifetime, size and clock). The pages are
not inductive alone: what a page may show after a fallback or a restart depends on what the places out of use still hold. The invariant
adds (`Kept`) that of table and dictionary one is out of use and empty unless the medium comes and goes, and that every entry
in the dictionary, and on a medium that does not come and go every entry in use, carries the latest save. From it `TypeCorrect`, `NothingOutgrows`, `PagesAreLatest`, and
`StoreKeepsItsPromise`, the refinement of `BoundedMap` step by step: a save is a `Put` that makes room, a fallback
`SetAside` (on a medium that comes and goes; elsewhere the table is empty by then), a restart after it `ComesBack`, which
brings back exactly the table set aside.

`WebhookProofs` (any pull requests, commits, lifetime and number of deliveries, with and without a runner). A status
is set from a payload that may have come out of the cache, where another delivery's thread left it; so neither
property is inductive. The invariant (`Sound`) follows the payload: every entry of the cache and every
payload in flight is about the commit it is filed under, was read no earlier than its stamp, and not in the future
(`CacheSound`, `HandlersSound`); deliveries are numbered without gaps, so that a redelivery repeats one that
exists (`Numbered`). A crash keeps it, for the marks already set belong to deliveries that were answered. From it
`TypeCorrect`, `MarksAreEarned` and `ServedFresh`: an age below the lifetime at the lookup is one for the
reading too, since the stamp is taken before it. Assumptions: `RunnerAssumption`, `BoundsAssumption`, `NothingAssumption`.

`EvidenceFlowProofs` (any changesets, of any number of files; any number of signals; any wording of the model). The
invariant (`Kept`) says where each value comes from: the payload is the sources' or that of a failed enrichment
(`Paid`), a shard is what its worker makes of that payload (`WorkersHonest`), and a validated situation meets
the reducer (`Met`). The lemmas carry the arithmetic of `validator.py`: a share rounded half to even is a share
(`HalfEvenBounds`); a failing build or an advisory keeps the average at or below 69 whichever other workers answered
(`BadNewsIsLow`); and no average up to 69 is autonomous, even with the boost (`LowAverageIsHeld`). An outage of monitoring is
claimed by a worker as long as that worker has a shard, or else coverage is short (`OutageIsClaimed`). From these
`TypeCorrect`, `ValidatorServesReducer`, `OutageIsHeld`, `BadNewsIsHeld`. Assumptions: `ChangesetsAssumption` (a changeset
has at least as many files as kinds), `MaxSignalsAssumption`, `WordingAssumption`.

`EvidenceIntakeProofs` (any events, bodies, findings and emissions). Nothing of a caller's is trusted, so
the invariant (`Kept`) keeps only what the tiers make true: the plan is dispatchable once acquired
(`Planned`), each finding is what its manager makes of the shards and each failure has a shard to
blame (`ManagersHonest`), and a situation that passed carries every doubt and denial, its shards all
well formed (`Met`). That last conjunct is what makes an ignored failure harmless. From it `TypeCorrect`,
`PlansAreDispatchable`, `IntakeServesReducer`, `FailuresAreRefused`, `TypedDoubtHolds`, `DenialHolds`. Assumptions:
`EventsAssumption`, `BodiesAssumption`, `EmissionsAssumption`, which only give the shapes of what comes in.

`VerificationProofs` (any wordings, registered verifiers, GitHub states and moves). The two properties support
each other through a third fact (`Walking`): while the loop over deployments is under way its claim is still open and
one of deployment, so a status it sets is a witnessed one. From `Kept`, the conjunction of the type
invariant and these: `TypeCorrect`, `VerifiedIsWitnessed`, `VerifiedIsHeard`. Assumptions: `WordingsAssumption`,
`RegisteredAssumption`, `BoundsAssumption`, `GitHubsAssumption`.

`BrainSyncProofs` (any Notion, boundary, lengths, batch size and limits). That chunks are distinct has to be
traced back to the crawl: the page being fetched is visited and not yet among those to parse (`FetchSound`), those are
distinct, inside the boundary and without chunks (`PagesSound`), the chunks made so far are of this run, each of its own
page and index (`ChunksSound`), and the collection holds the first of them (`CollectionSound`); killed at any point, what is on
disk is still of one run. From it `TypeCorrect` and `CollectionIsOfOneSync`.

`QuietSyncIsComplete` needs a second invariant on top, `QuietSound`, which speaks of a sync that gave up on no list, of a Notion
nobody edited. It is a balance. While a list is fetched, what has been read is exactly the pages of the listing before the one asked for
(`ReadSoFar`), so an answer neither skips nor repeats one. While the tree is crawled (`CrawlExact`), every page visited is one to
find, and every page that a crawled one leads to is visited or ahead, that is, led to by what is left on the stack; when the stack is empty the
crawled pages are therefore closed under what leads on, and being among those to find they are all of them, for `Findable` is the least closed
set. While a page is parsed (`ParseExact`), its text is the paragraphs written, with what the lists on the stack
still owe down to the nesting limit, with what the request under way will bring; the pages done with have theirs in chunks. From then on
(`IndexExact`) nothing is lost, and the collection that is filled in batches ends up with just these chunks.
The lemmas say of the model's recursive functions what this uses: they exist (`RecursionExists`), the level-by-level
text of a page is what the depth-first walk yields (`TextIsYielded`), and the chunks of a page hold its
paragraphs and no others however it is split (`ChunksCover`, listed as a theorem of its own). Each is an induction
over an interval, done with the least counterexample (`LeastExists`, `Inductive`). From it `QuietSyncFindsAll`.

`NothingElseIsIndexed` is for the syncs that did give up on a list, which walk on from what was read as if it were all. `WithinSound`
is `QuietSound` with inclusions for the equations: what was read of a list is of that list (`ReadWithin`), what the stack leads to is
to be found (`CrawlWithin`), and what is written, owed and asked for is of the page being parsed (`ParseWithin`). The balance
no longer closes, so nothing says that the index is complete; but a list on the wrong page or a nesting walked too deep would
break it. Chunks of earlier syncs that survived in the collection carry an earlier run number. From it `GivingUpAddsNothing`. The two invariants
share the lemmas about a page that is cut into chunks (`PageIsCut`) and about a block that is written (`BlockIsWritten`).

Assumptions of the module: `RootAssumption`, `BoundsAssumption`, `NotionAssumption` (a listing has at least one response, an empty one for a
block without children; the rows of a database are pages, as `crawl_tree` takes for granted when it crawls each of them, and
without which a sync would not find what the property asks for).

TLC checked each of these invariants before it was proved, on the instance of the module's run (that
of `intake` on part of its events).

Only model-checked. The liveness properties `EveryRequestAnswered`, `EveryDeliveryAnswered`, `EveryClaimAssessed` and `SyncEnds`:
fairness and ENABLED are out of the prover's reach. Every safety property of the passing runs is a theorem. The counterexamples of the
three violated runs are TLC's.

## Not modelled

Rendering, prompts, agent construction and identifiers; the memory bank and session
manager, which no tier reads; the text the language model returns, beyond the wordings it may contain; JSON schemas, beyond a flag;
a confidence that is no number (NaN passes the schemas' bounds);
lists inside artifacts that no tier reads on (duplicates, conflicts inside a finding, structured claims); more than one process or repository;
`/adk/sessions/…`, whose store nothing fills; pages of more than thirty changed files, which
GitHub's first page cuts off; fixtures, benchmark and diagram under `src/scripts`; the queries of the brain, which only read.

## What comes next

1. Proofs: that `Webhook`'s viewer is `SituationStore`'s cache, step by step.
2. `Webhook` over the runtime: the runner's answers in place of the abstract verdict, and
   approval after a webhook.
