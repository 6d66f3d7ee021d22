-------------------------------- MODULE Webhook --------------------------------
(***************************************************************************)
(* POST /api/v1/adk/webhook: deliveries of GitHub, the enrichment thread,  *)
(* its cache, and what leaves for GitHub and for the viewer.               *)
(*   src/src/forgemind/api/adk_routes.py       adk_github_webhook          *)
(*   src/src/forgemind/enrichment.py           enrich_payload, its cache   *)
(*   src/src/forgemind/api/situation_cache.py  put                         *)
(*   src/src/forgemind/situation_store.py      save                        *)
(*                                                                         *)
(* A delivery is handled by one coroutine.  It gives up the event loop     *)
(* while the enrichment thread reads GitHub, and while the runner runs;    *)
(* everything else between two awaits is one action, the answers to GitHub *)
(* included, for the GitHub client blocks the loop.                        *)
(*                                                                         *)
(* What the pipeline makes of a payload is in EvidenceFlow: here it is any *)
(* verdict the payload can get.                                            *)
(***************************************************************************)
EXTENDS Naturals

CONSTANTS PRs, Shas,
          Runner,         \* TRUE when FORGEMIND_RUNTIME = "adk+runner"
          TTL,            \* _CACHE_TTL_SECONDS, in ticks
          MaxTime,        \* bound on the clock
          MaxDeliveries,  \* bound on the deliveries
          Nothing

Deliveries == 1..MaxDeliveries
Outcomes == {"fail", "other"}  \* of the check runs: pass and unknown read alike here

ASSUME RunnerAssumption == Runner \in BOOLEAN
ASSUME BoundsAssumption == TTL \in Nat /\ MaxTime \in Nat /\ MaxDeliveries \in Nat
ASSUME NothingAssumption == Nothing \notin PRs \cup Shas \cup Nat

VARIABLES head,      \* of each pull request: its head commit
          clock,
          sent,      \* deliveries GitHub has made
          delivery,  \* their contents
          handler,   \* the coroutine of each
          cache,     \* _PAYLOAD_CACHE of the one repository, by commit
          success,   \* commits with a "success" status of context "forgemind"
          comments,  \* comments: the pull request, and the delivery behind it
          viewer     \* the situation the dashboard shows for each pull request

vars == <<head, clock, sent, delivery, handler, cache, success, comments, viewer>>

\* What the enrichment learns: of which commit the files were read, which outcome
\* of the check runs, and when the reading began; "failed" is the payload of an
\* exception.
NoPayload == [pr |-> Nothing, sha |-> Nothing, files |-> Nothing, ci |-> "other",
              readAt |-> 0, failed |-> FALSE]
\* "age" is that of the entry that was served, Nothing for one's own reading.
NewHandler == [phase |-> "idle", now |-> 0, payload |-> NoPayload, age |-> Nothing,
               verdict |-> "none"]

Init ==
    /\ head = [p \in PRs |-> Nothing]
    /\ clock = 0
    /\ sent = 0
    /\ delivery = [d \in Deliveries |-> Nothing]
    /\ handler = [d \in Deliveries |-> NewHandler]
    /\ cache = [s \in Shas |-> Nothing]
    /\ success = {}
    /\ comments = {}
    /\ viewer = [p \in PRs |-> Nothing]

-----------------------------------------------------------------------------
(* GitHub and time. *)

Deliver(p, s) ==
    /\ sent < MaxDeliveries
    /\ sent' = sent + 1
    /\ delivery' = [delivery EXCEPT ![sent + 1] = [pr |-> p, sha |-> s]]

\* "opened" or "synchronize"; two pull requests of one branch share their head.
Push(p, s) ==
    /\ head[p] # s
    /\ head' = [head EXCEPT ![p] = s]
    /\ Deliver(p, s)
    /\ UNCHANGED <<clock, handler, cache, success, comments, viewer>>

\* Somebody asks GitHub to deliver once more.
Redeliver(d) ==
    /\ delivery[d] # Nothing
    /\ Deliver(delivery[d].pr, delivery[d].sha)
    /\ UNCHANGED <<head, clock, handler, cache, success, comments, viewer>>

Tick ==
    /\ clock < MaxTime
    /\ clock' = clock + 1
    /\ UNCHANGED <<head, sent, delivery, handler, cache, success, comments, viewer>>

-----------------------------------------------------------------------------
(* The handler. *)

\* What the pipeline can make of a payload: EvidenceFlow shows that neither a
\* failing build nor an unassessed monitoring source is ever green.
VerdictsFor(p) ==
    {"held", "refused"} \cup (IF p.failed \/ p.ci = "fail" THEN {} ELSE {"green"})

\* put: the viewer shows the situation of the delivered pull request.
PutSituation(d) == viewer' = [viewer EXCEPT ![delivery[d].pr] = d]

\* The comment goes to the pull request the payload names, unless GitHub refuses
\* the write, which the answer reports and nobody repeats ...
PostComment(d, h) == comments' \in {comments, comments \cup {<<h.payload.pr, d>>}}

\* ... and a green one has its commit marked, unless GitHub refuses that.
UpdateStatusCheck(h, v) ==
    success' \in {success} \cup (IF v = "green" THEN {success \cup {h.payload.sha}} ELSE {})

\* What remains of a coroutine: its answer, and what it was about.
Answered(h, v) ==
    [h EXCEPT !.phase = "answered", !.verdict = v, !.now = 0,
              !.payload = [@ EXCEPT !.files = Nothing, !.readAt = 0]]

\* The answer: an error envelope leaves nothing behind, a result is stored and
\* told to GitHub.
Conclude(d, h) ==
    \E v \in VerdictsFor(h.payload) :
        /\ handler' = [handler EXCEPT ![d] = Answered(h, v)]
        /\ IF v = "refused" THEN UNCHANGED <<viewer, comments, success>>
           ELSE PutSituation(d) /\ PostComment(d, h) /\ UpdateStatusCheck(h, v)

\* The enriched payload is there: the runner is awaited, or there is nothing to
\* wait for and the answer leaves at once.
Proceed(d, h) ==
    IF Runner THEN /\ handler' = [handler EXCEPT ![d] = [h EXCEPT !.phase = "running"]]
                   /\ UNCHANGED <<success, comments, viewer>>
    ELSE Conclude(d, h)

Fresh(s) == cache[s] # Nothing /\ clock - cache[s].now < TTL

\* Fault for the checks: any fresh entry of the pull request will do.
CacheKey_OfThePR(d) ==
    LET ofThePR == {s \in Shas : Fresh(s) /\ cache[s].payload.pr = delivery[d].pr}
    IN  IF ofThePR # {} THEN CHOOSE s \in ofThePR : TRUE ELSE delivery[d].sha

CacheKey(d) == delivery[d].sha

Arrived(d) == delivery[d] # Nothing /\ handler[d].phase = "idle"

\* enrich_payload finds a fresh entry: no await, and no look at GitHub.
ReceiveHit(d) ==
    /\ Arrived(d)
    /\ Fresh(CacheKey(d))
    /\ Proceed(d, [handler[d] EXCEPT !.payload = cache[CacheKey(d)].payload,
                                     !.age = clock - cache[CacheKey(d)].payload.readAt])
    /\ UNCHANGED <<head, clock, sent, delivery, cache>>

\* It finds none: the thread is started, the entry is stamped with the time now.
ReceiveMiss(d) ==
    /\ Arrived(d)
    /\ ~Fresh(CacheKey(d))
    /\ handler' = [handler EXCEPT ![d].phase = "files", ![d].now = clock]
    /\ UNCHANGED <<head, clock, sent, delivery, cache, success, comments, viewer>>

ThreadStep(d, h) ==
    /\ handler' = [handler EXCEPT ![d] = h]
    /\ UNCHANGED <<head, clock, sent, delivery, cache, success, comments, viewer>>

\* GitHub lists the files of the pull request as it is when asked.
ReadFiles(d) ==
    /\ handler[d].phase = "files"
    /\ ThreadStep(d, [handler[d] EXCEPT !.phase = "ci",
                         !.payload = [NoPayload EXCEPT !.pr = delivery[d].pr,
                                                       !.sha = delivery[d].sha,
                                                       !.files = head[delivery[d].pr],
                                                       !.readAt = clock]])

\* The check runs are those of the delivered commit, and say anything.
ReadCI(d) ==
    /\ handler[d].phase = "ci"
    /\ \E o \in Outcomes :
          ThreadStep(d, [handler[d] EXCEPT !.phase = "returning", !.payload.ci = o])

\* Fault for the checks: the exception leaves no payload.
FailedPayload_None(d) == Nothing

FailedPayload(d) == [NoPayload EXCEPT !.pr = delivery[d].pr, !.sha = delivery[d].sha,
                                      !.readAt = clock, !.failed = TRUE]

\* The thread raises; what it learned is thrown away.
FailEnrichment(d) ==
    /\ handler[d].phase \in {"files", "ci"}
    /\ ThreadStep(d, [handler[d] EXCEPT !.phase = "returning", !.payload = FailedPayload(d)])

\* Fault for the checks: the entry is stamped when the thread returns.
Stamp_AtReturn(d) == clock

Stamp(d) == handler[d].now

\* Fault for the checks: a thread that raised never comes back.
ReturnEnriched_IfItRead(d) ==
    /\ handler[d].phase = "returning" /\ ~handler[d].payload.failed
    /\ cache' = [cache EXCEPT ![delivery[d].sha] =
                    [now |-> Stamp(d), payload |-> handler[d].payload]]
    /\ Proceed(d, handler[d])
    /\ UNCHANGED <<head, clock, sent, delivery>>

\* Back in the event loop: the payload, failed or not, is cached.
ReturnEnriched(d) ==
    /\ handler[d].phase = "returning"
    /\ cache' = [cache EXCEPT ![delivery[d].sha] =
                    [now |-> Stamp(d), payload |-> handler[d].payload]]
    /\ Proceed(d, handler[d])
    /\ UNCHANGED <<head, clock, sent, delivery>>

\* The runner is done, or fell back.
FinishRunner(d) ==
    /\ handler[d].phase = "running"
    /\ Conclude(d, handler[d])
    /\ UNCHANGED <<head, clock, sent, delivery, cache>>

InFlight(d) == handler[d].phase \in {"files", "ci", "returning", "running"}

\* The process is replaced: its coroutines and its caches go, what it told
\* GitHub stays.
Crash ==
    /\ handler' = [d \in Deliveries |-> IF InFlight(d)
                                        THEN [NewHandler EXCEPT !.phase = "dropped"]
                                        ELSE handler[d]]
    /\ cache' = [s \in Shas |-> Nothing]
    /\ viewer' = [p \in PRs |-> Nothing]
    /\ UNCHANGED <<head, clock, sent, delivery, success, comments>>

Handle(d) ==
    \/ ReceiveHit(d) \/ ReceiveMiss(d) \/ ReadFiles(d) \/ ReadCI(d)
    \/ FailEnrichment(d) \/ ReturnEnriched(d) \/ FinishRunner(d)

Next ==
    \/ \E p \in PRs, s \in Shas : Push(p, s)
    \/ \E d \in Deliveries : Redeliver(d) \/ Handle(d)
    \/ Tick
    \/ Crash

Spec == Init /\ [][Next]_vars

\* The event loop and the thread keep going: every request of the enrichment has
\* a timeout and ends, one way or the other.
FairSpec == Spec /\ \A d \in Deliveries : WF_vars(Handle(d))

-----------------------------------------------------------------------------
(* Properties. *)

Payloads == [pr : PRs \cup {Nothing}, sha : Shas \cup {Nothing}, files : Shas \cup {Nothing},
             ci : Outcomes, readAt : 0..MaxTime, failed : BOOLEAN]

\* Every variable keeps to its type.
TypeOK ==
    /\ head \in [PRs -> Shas \cup {Nothing}]
    /\ clock \in 0..MaxTime
    /\ sent \in 0..MaxDeliveries
    /\ delivery \in [Deliveries -> [pr : PRs, sha : Shas] \cup {Nothing}]
    /\ handler \in [Deliveries ->
          [phase : {"idle", "files", "ci", "returning", "running", "answered", "dropped"},
           now : 0..MaxTime, payload : Payloads, age : 0..MaxTime \cup {Nothing},
           verdict : {"none", "held", "refused", "green"}]]
    /\ cache \in [Shas -> [now : 0..MaxTime, payload : Payloads] \cup {Nothing}]
    /\ success \subseteq Shas
    /\ comments \subseteq PRs \X Deliveries
    /\ viewer \in [PRs -> Deliveries \cup {Nothing}]

\* Whatever is in flight besides, and whoever filled the cache: a commit is marked
\* only for a delivery of that very commit, whose own check runs did not fail and
\* whose enrichment did not break down (enrich_payload, _execute_github_actions).
SuccessIsItsOwn ==
    \A s \in success : \E d \in Deliveries :
        /\ handler[d].phase = "answered" /\ handler[d].verdict = "green"
        /\ delivery[d].sha = s /\ handler[d].payload.sha = s
        /\ handler[d].payload.ci # "fail" /\ ~handler[d].payload.failed

\* "Caches results by (repo, sha) for 5 minutes" (enrich_payload): however long a
\* thread takes and in whatever order threads return, no delivery is served a
\* result that was read a TTL ago.
HitsAreFresh ==
    \A d \in Deliveries : handler[d].age # Nothing => handler[d].age < TTL

\* Every delivery GitHub made is answered, or lost with the process.
EveryDeliveryAnswered ==
    \A d \in Deliveries : delivery[d] # Nothing ~> handler[d].phase \in {"answered", "dropped"}
=============================================================================
