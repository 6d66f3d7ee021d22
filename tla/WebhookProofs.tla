---------------------------- MODULE WebhookProofs -----------------------------
(***************************************************************************)
(* Theorems about Webhook, for any pull requests, commits, lifetime, clock  *)
(* and number of deliveries, with and without the runner.                  *)
(***************************************************************************)
EXTENDS Webhook, TLAPS

Handlers ==
    [phase : {"idle", "files", "ci", "returning", "running", "answered", "dropped"},
     now : 0..MaxTime, payload : Payloads, age : 0..MaxTime \cup {Nothing},
     verdict : {"none", "held", "refused", "green"}]
Entries == [now : 0..MaxTime, payload : Payloads]
Contents == [pr : PRs, sha : Shas]

\* A payload that was read is about commit s, and nobody reads in the future.
About(p, s) == p.sha = s /\ p.pr \in PRs /\ p.readAt <= clock

\* A coroutine that has a payload has the one of its delivery, and its thread
\* began to read after the time its entry will be stamped with.
SoundHandler(d, h) ==
    /\ h.now <= clock
    /\ h.phase # "idle" => delivery[d] # Nothing
    /\ h.phase \in {"ci", "returning", "running", "answered"} => About(h.payload, delivery[d].sha)
    /\ h.phase \in {"ci", "returning"} => h.now <= h.payload.readAt
    /\ h.age # Nothing => h.age < TTL

\* An entry is about the commit it is stored for, and no older than its stamp.
SoundEntry(s) ==
    cache[s] # Nothing => About(cache[s].payload, s) /\ cache[s].now <= cache[s].payload.readAt

\* GitHub numbers its deliveries.
Numbered == \A d \in Deliveries : delivery[d] # Nothing => d <= sent

GitHubTyped ==
    /\ head \in [PRs -> Shas \cup {Nothing}]
    /\ clock \in 0..MaxTime
    /\ sent \in 0..MaxDeliveries
    /\ delivery \in [Deliveries -> Contents \cup {Nothing}]
HandlersSound ==
    /\ handler \in [Deliveries -> Handlers]
    /\ \A d \in Deliveries : SoundHandler(d, handler[d])
CacheSound ==
    /\ cache \in [Shas -> Entries \cup {Nothing}]
    /\ \A s \in Shas : SoundEntry(s)
OutsideTyped ==
    /\ success \subseteq Shas
    /\ comments \subseteq PRs \X Deliveries
    /\ viewer \in [PRs -> Deliveries \cup {Nothing}]

\* The inductive invariant.
Sound ==
    /\ GitHubTyped /\ Numbered
    /\ HandlersSound /\ CacheSound
    /\ OutsideTyped /\ SuccessIsItsOwn

LEMMA SoundIsEnough == Sound => TypeOK /\ HitsAreFresh
  BY DEF Sound, GitHubTyped, HandlersSound, CacheSound, OutsideTyped, TypeOK, HitsAreFresh,
         SoundHandler, Handlers, Entries, Contents

LEMMA TimeBegins == 0 \in 0..MaxTime
  BY BoundsAssumption

LEMMA InitSound == Init => Sound
  <1> SUFFICES ASSUME Init PROVE Sound
    OBVIOUS
  <1> USE BoundsAssumption, NothingAssumption
  <1>1. GitHubTyped /\ Numbered
    BY DEF Init, GitHubTyped, Numbered
  <1>2. HandlersSound
    <2>1. NewHandler \in Handlers
      BY DEF NewHandler, NoPayload, Handlers, Payloads, Outcomes
    <2>2. \A d \in Deliveries : handler[d] = NewHandler
      BY DEF Init
    <2>3. handler \in [Deliveries -> Handlers]
      BY <2>1 DEF Init
    <2>4. clock = 0
      BY DEF Init
    <2> QED BY <2>2, <2>3, <2>4 DEF HandlersSound, SoundHandler, NewHandler, NoPayload
  <1>3. CacheSound
    BY DEF Init, CacheSound, SoundEntry
  <1>4. OutsideTyped /\ SuccessIsItsOwn
    BY DEF Init, OutsideTyped, SuccessIsItsOwn
  <1> QED BY <1>1, <1>2, <1>3, <1>4 DEF Sound

-----------------------------------------------------------------------------
(* Steps of one coroutine. *)

\* A coroutine that moves to a sound place disturbs no other, and no answer.
LEMMA HandlerMoves ==
    ASSUME HandlersSound, NEW d \in Deliveries, NEW h \in Handlers, SoundHandler(d, h),
           handler[d].phase # "answered", handler' = [handler EXCEPT ![d] = h],
           UNCHANGED <<clock, delivery>>
    PROVE  /\ HandlersSound'
           /\ \A e \in Deliveries : handler[e].phase = "answered" => handler'[e] = handler[e]
           /\ handler'[d] = h
  <1>1. handler' \in [Deliveries -> Handlers]
    BY DEF HandlersSound
  <1>2. \A e \in Deliveries : handler'[e] = IF e = d THEN h ELSE handler[e]
    BY DEF HandlersSound
  <1>3. ASSUME NEW e \in Deliveries PROVE SoundHandler(e, handler[e])'
    <2>1. CASE e = d
      BY <1>2, <2>1 DEF SoundHandler, About
    <2>2. CASE e # d
      BY <1>2, <2>2 DEF HandlersSound, SoundHandler, About
    <2> QED BY <2>1, <2>2
  <1> QED BY <1>1, <1>2, <1>3 DEF HandlersSound

\* What an answer leaves behind is sound, and a green one is the delivery's own.
LEMMA ConcludeSound ==
    ASSUME Sound, NEW d \in Deliveries, NEW h \in Handlers,
           h.now <= clock, About(h.payload, delivery[d].sha), h.age # Nothing => h.age < TTL,
           delivery[d] # Nothing, handler[d].phase # "answered", Conclude(d, h),
           UNCHANGED <<head, clock, sent, delivery>>, CacheSound'
    PROVE  Sound'
  <1>1. PICK v \in VerdictsFor(h.payload) :
           /\ handler' = [handler EXCEPT ![d] = Answered(h, v)]
           /\ IF v = "refused" THEN UNCHANGED <<viewer, comments, success>>
              ELSE PutSituation(d) /\ PostComment(d, h) /\ UpdateStatusCheck(h, v)
    BY DEF Conclude
  <1> DEFINE a == Answered(h, v)
  <1>2. /\ a \in Handlers
        /\ a.phase = "answered" /\ a.verdict = v /\ a.now = 0 /\ a.age = h.age
        /\ a.payload.sha = h.payload.sha /\ a.payload.pr = h.payload.pr
        /\ a.payload.ci = h.payload.ci /\ a.payload.failed = h.payload.failed
        /\ a.payload.readAt = 0
    <2> DEFINE q == h.payload
               p == [q EXCEPT !.files = Nothing, !.readAt = 0]
    <2>1. q \in Payloads
      BY DEF Handlers
    <2> HIDE DEF q
    <2>2. /\ p \in Payloads /\ p.sha = q.sha /\ p.pr = q.pr
          /\ p.ci = q.ci /\ p.failed = q.failed /\ p.readAt = 0
      BY <2>1, TimeBegins DEF Payloads, Outcomes
    <2>3. v \in {"none", "held", "refused", "green"}
      BY DEF VerdictsFor
    <2>4. a = [h EXCEPT !.phase = "answered", !.verdict = v, !.now = 0, !.payload = p]
      BY DEF Answered, q
    <2> HIDE DEF p, a
    <2>5. a \in Handlers
      BY <2>2, <2>3, <2>4, TimeBegins DEF Handlers
    <2>6. a.phase = "answered" /\ a.verdict = v /\ a.now = 0 /\ a.age = h.age /\ a.payload = p
      BY <2>4 DEF Handlers
    <2> QED BY <2>2, <2>5, <2>6 DEF q
  <1>3. clock \in Nat
    BY BoundsAssumption DEF Sound, GitHubTyped
  <1>4. SoundHandler(d, a)
    BY <1>2, <1>3 DEF SoundHandler, About
  <1> HIDE DEF a
  <1>5. /\ HandlersSound'
        /\ \A e \in Deliveries : handler[e].phase = "answered" => handler'[e] = handler[e]
        /\ handler'[d] = a
    BY <1>1, <1>2, <1>4, HandlerMoves DEF Sound, a
  <1>6. GitHubTyped' /\ Numbered'
    BY DEF Sound, GitHubTyped, Numbered
  <1>7. delivery[d] \in Contents /\ h.payload.sha = delivery[d].sha /\ h.payload.pr \in PRs
    BY DEF Sound, GitHubTyped, About
  <1>8. success' = success \/ (v = "green" /\ success' = success \cup {h.payload.sha})
    <2>1. CASE v = "refused"
      BY <1>1, <2>1
    <2>2. CASE v # "refused"
      BY <1>1, <2>2 DEF UpdateStatusCheck
    <2> QED BY <2>1, <2>2
  <1>9. OutsideTyped'
    <2>1. success' \subseteq Shas
      BY <1>7, <1>8 DEF Sound, OutsideTyped, Contents
    <2>2. comments' \subseteq PRs \X Deliveries
      BY <1>1, <1>7 DEF Sound, OutsideTyped, PostComment
    <2>3. viewer' \in [PRs -> Deliveries \cup {Nothing}]
      BY <1>1 DEF Sound, OutsideTyped, PutSituation
    <2> QED BY <2>1, <2>2, <2>3 DEF OutsideTyped
  <1>10. SuccessIsItsOwn'
    <2> SUFFICES ASSUME NEW s \in success'
                 PROVE  \E e \in Deliveries :
                          /\ handler'[e].phase = "answered" /\ handler'[e].verdict = "green"
                          /\ delivery'[e].sha = s /\ handler'[e].payload.sha = s
                          /\ handler'[e].payload.ci # "fail" /\ ~handler'[e].payload.failed
      BY DEF SuccessIsItsOwn
    <2>1. CASE s \in success
      BY <2>1, <1>5 DEF Sound, SuccessIsItsOwn
    <2>2. CASE s \notin success
      <3>1. v = "green" /\ s = h.payload.sha
        BY <2>2, <1>8
      <3>2. h.payload.ci # "fail" /\ ~h.payload.failed
        BY <3>1 DEF VerdictsFor
      <3> QED BY <1>2, <1>5, <1>7, <3>1, <3>2
    <2> QED BY <2>1, <2>2
  <1> QED BY <1>5, <1>6, <1>9, <1>10 DEF Sound

LEMMA ProceedSound ==
    ASSUME Sound, NEW d \in Deliveries, NEW h \in Handlers,
           h.now <= clock, About(h.payload, delivery[d].sha), h.age # Nothing => h.age < TTL,
           delivery[d] # Nothing, handler[d].phase # "answered", Proceed(d, h),
           UNCHANGED <<head, clock, sent, delivery>>, CacheSound'
    PROVE  Sound'
  <1>1. CASE ~Runner
    BY <1>1, ConcludeSound DEF Proceed
  <1>2. CASE Runner
    <2> DEFINE r == [h EXCEPT !.phase = "running"]
    <2>1. r \in Handlers /\ r.phase = "running" /\ r.now = h.now /\ r.payload = h.payload
          /\ r.age = h.age
      BY DEF Handlers
    <2>2. SoundHandler(d, r)
      BY <2>1 DEF SoundHandler
    <2>3. handler' = [handler EXCEPT ![d] = r] /\ UNCHANGED <<success, comments, viewer>>
      BY <1>2 DEF Proceed
    <2> HIDE DEF r
    <2>4. /\ HandlersSound'
          /\ \A e \in Deliveries : handler[e].phase = "answered" => handler'[e] = handler[e]
      BY <2>1, <2>2, <2>3, HandlerMoves DEF Sound
    <2>5. GitHubTyped' /\ Numbered' /\ OutsideTyped'
      BY <2>3 DEF Sound, GitHubTyped, Numbered, OutsideTyped
    <2>6. SuccessIsItsOwn'
      BY <2>3, <2>4 DEF Sound, SuccessIsItsOwn
    <2> QED BY <2>4, <2>5, <2>6 DEF Sound
  <1> QED BY <1>1, <1>2

\* The thread and the start of a coroutine touch nothing but the coroutine.
LEMMA ThreadSound ==
    ASSUME Sound, NEW d \in Deliveries, NEW h \in Handlers, SoundHandler(d, h),
           handler[d].phase # "answered", ThreadStep(d, h)
    PROVE  Sound'
  <1>1. handler' = [handler EXCEPT ![d] = h]
        /\ UNCHANGED <<head, clock, sent, delivery, cache, success, comments, viewer>>
    BY DEF ThreadStep
  <1>2. /\ HandlersSound'
        /\ \A e \in Deliveries : handler[e].phase = "answered" => handler'[e] = handler[e]
    BY <1>1, HandlerMoves DEF Sound
  <1>3. GitHubTyped' /\ Numbered' /\ OutsideTyped'
    BY <1>1 DEF Sound, GitHubTyped, Numbered, OutsideTyped
  <1>4. CacheSound'
    BY <1>1 DEF Sound, CacheSound, SoundEntry, About
  <1>5. SuccessIsItsOwn'
    BY <1>1, <1>2 DEF Sound, SuccessIsItsOwn
  <1> QED BY <1>2, <1>3, <1>4, <1>5 DEF Sound

\* A delivery that arrived is a pull request and a commit.
LEMMA HandledIsDelivered ==
    ASSUME Sound, NEW d \in Deliveries,
           handler[d].phase # "idle" \/ delivery[d] # Nothing
    PROVE  /\ delivery[d] \in Contents /\ delivery[d] # Nothing
           /\ delivery[d].pr \in PRs /\ delivery[d].sha \in Shas
           /\ handler[d] \in Handlers /\ SoundHandler(d, handler[d])
  <1>1. delivery[d] # Nothing
    BY DEF Sound, HandlersSound, SoundHandler
  <1> QED BY <1>1 DEF Sound, GitHubTyped, HandlersSound, Contents

LEMMA ReceiveHitSound ==
    ASSUME Sound, NEW d \in Deliveries, ReceiveHit(d) PROVE Sound'
  <1> DEFINE e == cache[delivery[d].sha]
             h == [handler[d] EXCEPT !.payload = e.payload, !.age = clock - e.payload.readAt]
  <1>1. /\ delivery[d] # Nothing /\ handler[d].phase = "idle"
        /\ e # Nothing /\ clock - e.now < TTL
        /\ Proceed(d, h)
        /\ UNCHANGED <<head, clock, sent, delivery, cache>>
    BY DEF ReceiveHit, Arrived, Fresh, CacheKey
  <1>2. /\ delivery[d].sha \in Shas
        /\ handler[d] \in Handlers /\ SoundHandler(d, handler[d])
    BY <1>1, HandledIsDelivered
  <1>3. e \in Entries /\ About(e.payload, delivery[d].sha) /\ e.now <= e.payload.readAt
    BY <1>1, <1>2 DEF Sound, CacheSound, SoundEntry
  <1> HIDE DEF e
  <1>4. /\ e.payload \in Payloads /\ e.now \in Nat /\ e.payload.readAt \in Nat
        /\ e.payload.readAt <= clock /\ clock \in 0..MaxTime /\ clock \in Nat
    BY <1>3, BoundsAssumption DEF Entries, Payloads, About, Sound, GitHubTyped
  <1>5. /\ clock - e.payload.readAt \in 0..MaxTime
        /\ clock - e.payload.readAt < TTL
    BY <1>1, <1>3, <1>4, BoundsAssumption
  <1> DEFINE age == clock - e.payload.readAt
  <1>6. age \in 0..MaxTime /\ age < TTL
    BY <1>5
  <1> HIDE DEF age
  <1>7. h = [handler[d] EXCEPT !.payload = e.payload, !.age = age]
    BY DEF age
  <1> HIDE DEF h
  <1>8. h \in Handlers /\ h.payload = e.payload /\ h.age = age /\ h.now = handler[d].now
    BY <1>2, <1>4, <1>6, <1>7 DEF Handlers
  <1>9. CacheSound'
    BY <1>1 DEF Sound, CacheSound, SoundEntry, About
  <1> QED BY <1>1, <1>2, <1>3, <1>6, <1>8, <1>9, ProceedSound DEF SoundHandler

LEMMA ReceiveMissSound ==
    ASSUME Sound, NEW d \in Deliveries, ReceiveMiss(d) PROVE Sound'
  <1> DEFINE h == [handler[d] EXCEPT !.phase = "files", !.now = clock]
  <1>1. delivery[d] # Nothing /\ handler[d].phase = "idle"
    BY DEF ReceiveMiss, Arrived
  <1>2. handler[d] \in Handlers /\ SoundHandler(d, handler[d])
    BY <1>1, HandledIsDelivered
  <1>3. clock \in 0..MaxTime /\ clock \in Nat
    BY BoundsAssumption DEF Sound, GitHubTyped
  <1>4. h \in Handlers /\ h.phase = "files" /\ h.now = clock /\ h.age = handler[d].age
    BY <1>2, <1>3 DEF Handlers
  <1>5. ThreadStep(d, h)
    BY DEF ReceiveMiss, ThreadStep, Sound, HandlersSound
  <1> HIDE DEF h
  <1>6. SoundHandler(d, h)
    BY <1>1, <1>2, <1>3, <1>4 DEF SoundHandler
  <1> QED BY <1>1, <1>4, <1>5, <1>6, ThreadSound

\* What the thread knows when it has listed the files, or raised, is its delivery's.
LEMMA ThreadPayload ==
    ASSUME Sound, NEW d \in Deliveries, handler[d].phase \in {"files", "ci"},
           NEW p \in Payloads, p.pr = delivery[d].pr, p.sha = delivery[d].sha,
           p.readAt = clock, NEW phase \in {"ci", "returning"},
           ThreadStep(d, [handler[d] EXCEPT !.phase = phase, !.payload = p])
    PROVE  Sound'
  <1> DEFINE h == [handler[d] EXCEPT !.phase = phase, !.payload = p]
  <1>1. /\ delivery[d] # Nothing /\ delivery[d].pr \in PRs
        /\ handler[d] \in Handlers /\ SoundHandler(d, handler[d])
    BY HandledIsDelivered
  <1>2. h \in Handlers /\ h.phase = phase /\ h.payload = p /\ h.now = handler[d].now
        /\ h.age = handler[d].age
    BY <1>1 DEF Handlers
  <1>3. clock \in Nat
    BY BoundsAssumption DEF Sound, GitHubTyped
  <1> HIDE DEF h
  <1>4. SoundHandler(d, h)
    BY <1>1, <1>2, <1>3 DEF SoundHandler, About
  <1> QED BY <1>2, <1>4, ThreadSound DEF h

LEMMA NothingReadYet == NoPayload \in Payloads
  BY TimeBegins DEF NoPayload, Payloads, Outcomes

LEMMA ReadFilesSound ==
    ASSUME Sound, NEW d \in Deliveries, ReadFiles(d) PROVE Sound'
  <1> DEFINE p == [NoPayload EXCEPT !.pr = delivery[d].pr, !.sha = delivery[d].sha,
                                    !.files = head[delivery[d].pr], !.readAt = clock]
  <1>1. /\ handler[d].phase = "files"
        /\ ThreadStep(d, [handler[d] EXCEPT !.phase = "ci", !.payload = p])
    BY DEF ReadFiles
  <1>2. delivery[d].pr \in PRs /\ delivery[d].sha \in Shas
    BY <1>1, HandledIsDelivered
  <1>3. clock \in 0..MaxTime /\ head[delivery[d].pr] \in Shas \cup {Nothing}
    BY <1>2 DEF Sound, GitHubTyped
  <1>4. p \in Payloads /\ p.pr = delivery[d].pr /\ p.sha = delivery[d].sha /\ p.readAt = clock
    BY <1>2, <1>3, NothingReadYet DEF Payloads
  <1> HIDE DEF p
  <1> QED BY <1>1, <1>4, ThreadPayload

LEMMA FailEnrichmentSound ==
    ASSUME Sound, NEW d \in Deliveries, FailEnrichment(d) PROVE Sound'
  <1> DEFINE p == FailedPayload(d)
  <1>1. /\ handler[d].phase \in {"files", "ci"}
        /\ ThreadStep(d, [handler[d] EXCEPT !.phase = "returning", !.payload = p])
    BY DEF FailEnrichment
  <1>2. delivery[d].pr \in PRs /\ delivery[d].sha \in Shas
    BY <1>1, HandledIsDelivered
  <1>3. clock \in 0..MaxTime
    BY DEF Sound, GitHubTyped
  <1>4. p \in Payloads /\ p.pr = delivery[d].pr /\ p.sha = delivery[d].sha /\ p.readAt = clock
    BY <1>2, <1>3, NothingReadYet DEF Payloads, FailedPayload
  <1> HIDE DEF p
  <1> QED BY <1>1, <1>4, ThreadPayload

LEMMA ReadCISound ==
    ASSUME Sound, NEW d \in Deliveries, ReadCI(d) PROVE Sound'
  <1>1. PICK o \in Outcomes :
           ThreadStep(d, [handler[d] EXCEPT !.phase = "returning", !.payload.ci = o])
    BY DEF ReadCI
  <1> DEFINE q == handler[d].payload
             p == [q EXCEPT !.ci = o]
             h == [handler[d] EXCEPT !.phase = "returning", !.payload = p]
  <1>2. handler[d].phase = "ci" /\ handler[d] \in Handlers /\ SoundHandler(d, handler[d])
    BY HandledIsDelivered DEF ReadCI
  <1>3. q \in Payloads
    BY <1>2 DEF Handlers
  <1>4. ThreadStep(d, h)
    BY <1>1
  <1> HIDE DEF q
  <1>5. p \in Payloads /\ p.pr = q.pr /\ p.sha = q.sha /\ p.readAt = q.readAt
    BY <1>3 DEF Payloads
  <1> HIDE DEF p
  <1>6. h \in Handlers /\ h.phase = "returning" /\ h.payload = p /\ h.now = handler[d].now
        /\ h.age = handler[d].age
    BY <1>2, <1>5 DEF Handlers
  <1> HIDE DEF h
  <1>7. SoundHandler(d, h)
    BY <1>2, <1>5, <1>6 DEF SoundHandler, About, q
  <1> QED BY <1>2, <1>4, <1>6, <1>7, ThreadSound

LEMMA ReturnEnrichedSound ==
    ASSUME Sound, NEW d \in Deliveries, ReturnEnriched(d) PROVE Sound'
  <1> DEFINE e == [now |-> handler[d].now, payload |-> handler[d].payload]
  <1>1. /\ handler[d].phase = "returning"
        /\ cache' = [cache EXCEPT ![delivery[d].sha] = e]
        /\ Proceed(d, handler[d])
        /\ UNCHANGED <<head, clock, sent, delivery>>
    BY DEF ReturnEnriched, Stamp
  <1>2. /\ delivery[d] # Nothing /\ delivery[d].sha \in Shas
        /\ handler[d] \in Handlers /\ SoundHandler(d, handler[d])
    BY <1>1, HandledIsDelivered
  <1>3. /\ e \in Entries /\ About(e.payload, delivery[d].sha) /\ e.now <= e.payload.readAt
        /\ e.payload = handler[d].payload
    BY <1>1, <1>2 DEF Handlers, Entries, SoundHandler
  <1> HIDE DEF e
  <1>4. \A s \in Shas : cache'[s] = IF s = delivery[d].sha THEN e ELSE cache[s]
    BY <1>1 DEF Sound, CacheSound
  <1>5. cache' \in [Shas -> Entries \cup {Nothing}]
    BY <1>1, <1>3 DEF Sound, CacheSound
  <1>6. ASSUME NEW s \in Shas PROVE SoundEntry(s)'
    BY <1>1, <1>3, <1>4 DEF Sound, CacheSound, SoundEntry, About
  <1>7. CacheSound'
    BY <1>5, <1>6 DEF CacheSound
  <1> QED BY <1>1, <1>2, <1>3, <1>7, ProceedSound DEF SoundHandler

LEMMA FinishRunnerSound ==
    ASSUME Sound, NEW d \in Deliveries, FinishRunner(d) PROVE Sound'
  <1>1. /\ handler[d].phase = "running" /\ Conclude(d, handler[d])
        /\ UNCHANGED <<head, clock, sent, delivery, cache>>
    BY DEF FinishRunner
  <1>2. /\ delivery[d] # Nothing
        /\ handler[d] \in Handlers /\ SoundHandler(d, handler[d])
    BY <1>1, HandledIsDelivered
  <1>3. CacheSound'
    BY <1>1 DEF Sound, CacheSound, SoundEntry, About
  <1> QED BY <1>1, <1>2, <1>3, ConcludeSound DEF SoundHandler

-----------------------------------------------------------------------------
(* Steps of everything else. *)

LEMMA DeliverSound ==
    ASSUME Sound, NEW p \in PRs, NEW s \in Shas, Deliver(p, s),
           head' \in [PRs -> Shas \cup {Nothing}],
           UNCHANGED <<clock, handler, cache, success, comments, viewer>>
    PROVE  Sound'
  <1>1. /\ sent < MaxDeliveries /\ sent' = sent + 1
        /\ delivery' = [delivery EXCEPT ![sent + 1] = [pr |-> p, sha |-> s]]
    BY DEF Deliver
  <1>2. sent \in 0..MaxDeliveries /\ sent' \in Deliveries /\ sent' \in 0..MaxDeliveries
    BY <1>1, BoundsAssumption DEF Sound, GitHubTyped, Deliveries
  <1>3. \A d \in Deliveries : d \in Nat
    BY DEF Deliveries
  <1>4. GitHubTyped'
    BY <1>1, <1>2 DEF Sound, GitHubTyped, Contents
  <1>5. \A d \in Deliveries : d # sent' => delivery'[d] = delivery[d]
    BY <1>1 DEF Sound, GitHubTyped
  <1>6. Numbered'
    BY <1>1, <1>2, <1>3, <1>5, BoundsAssumption DEF Sound, Numbered
  <1>7. \A d \in Deliveries : delivery[d] # Nothing => delivery'[d] = delivery[d]
    BY <1>1, <1>2, <1>3, <1>5, BoundsAssumption DEF Sound, Numbered
  <1>8. HandlersSound'
    BY <1>7 DEF Sound, HandlersSound, SoundHandler, About
  <1>9. CacheSound'
    BY DEF Sound, CacheSound, SoundEntry, About
  <1>10. OutsideTyped'
    BY DEF Sound, OutsideTyped
  <1>11. SuccessIsItsOwn'
    BY <1>7 DEF Sound, SuccessIsItsOwn, HandlersSound, SoundHandler
  <1> QED BY <1>4, <1>6, <1>8, <1>9, <1>10, <1>11 DEF Sound

LEMMA TickSound == ASSUME Sound, Tick PROVE Sound'
  <1>1. /\ clock < MaxTime /\ clock' = clock + 1
        /\ UNCHANGED <<head, sent, delivery, handler, cache, success, comments, viewer>>
    BY DEF Tick
  <1>2. clock \in Nat /\ clock' \in 0..MaxTime
    BY <1>1, BoundsAssumption DEF Sound, GitHubTyped
  <1>3. GitHubTyped' /\ Numbered' /\ OutsideTyped' /\ SuccessIsItsOwn'
    BY <1>1, <1>2 DEF Sound, GitHubTyped, Numbered, OutsideTyped, SuccessIsItsOwn
  <1>4. ASSUME NEW n \in 0..MaxTime, n <= clock PROVE n <= clock'
    BY <1>1, <1>2, <1>4
  <1>5. HandlersSound'
    <2>1. \A d \in Deliveries : handler[d].now \in 0..MaxTime
                                /\ handler[d].payload.readAt \in 0..MaxTime
      BY DEF Sound, HandlersSound, Handlers, Payloads
    <2> QED BY <1>1, <1>4, <2>1 DEF Sound, HandlersSound, SoundHandler, About
  <1>6. CacheSound'
    <2>1. \A s \in Shas : cache[s] # Nothing => cache[s].payload.readAt \in 0..MaxTime
      BY DEF Sound, CacheSound, Entries, Payloads
    <2> QED BY <1>1, <1>4, <2>1 DEF Sound, CacheSound, SoundEntry, About
  <1> QED BY <1>3, <1>5, <1>6 DEF Sound

LEMMA CrashSound == ASSUME Sound, Crash PROVE Sound'
  <1> DEFINE gone == [NewHandler EXCEPT !.phase = "dropped"]
  <1>1. /\ handler' = [d \in Deliveries |-> IF InFlight(d) THEN gone ELSE handler[d]]
        /\ cache' = [s \in Shas |-> Nothing]
        /\ viewer' = [p \in PRs |-> Nothing]
        /\ UNCHANGED <<head, clock, sent, delivery, success, comments>>
    BY DEF Crash
  <1>2. gone = [phase |-> "dropped", now |-> 0, payload |-> NoPayload, age |-> Nothing,
                verdict |-> "none"]
    BY DEF NewHandler
  <1> HIDE DEF gone
  <1>3. gone \in Handlers
    BY <1>2, TimeBegins DEF NoPayload, Handlers, Payloads, Outcomes
  <1>4. clock \in Nat
    BY BoundsAssumption DEF Sound, GitHubTyped
  <1>5. ASSUME NEW d \in Deliveries PROVE SoundHandler(d, handler[d])'
    <2>1. SoundHandler(d, handler[d])
      BY DEF Sound, HandlersSound
    <2>2. CASE InFlight(d)
      <3>1. handler'[d] = gone /\ delivery[d] # Nothing
        BY <1>1, <2>1, <2>2 DEF InFlight, SoundHandler
      <3> QED BY <1>1, <1>2, <1>4, <3>1 DEF SoundHandler
    <2>3. CASE ~InFlight(d)
      BY <1>1, <2>1, <2>3 DEF SoundHandler, About
    <2> QED BY <2>2, <2>3
  <1>6. HandlersSound'
    BY <1>1, <1>3, <1>5 DEF Sound, HandlersSound
  <1>7. CacheSound' /\ GitHubTyped' /\ Numbered' /\ OutsideTyped'
    BY <1>1 DEF Sound, CacheSound, SoundEntry, GitHubTyped, Numbered, OutsideTyped
  <1>8. SuccessIsItsOwn'
    BY <1>1 DEF Sound, SuccessIsItsOwn, InFlight
  <1> QED BY <1>6, <1>7, <1>8 DEF Sound

LEMMA NextSound == ASSUME Sound, [Next]_vars PROVE Sound'
  <1>1. ASSUME NEW p \in PRs, NEW s \in Shas, Push(p, s) PROVE Sound'
    BY <1>1, DeliverSound DEF Push, Sound, GitHubTyped
  <1>2. ASSUME NEW d \in Deliveries, Redeliver(d) PROVE Sound'
    <2>1. delivery[d].pr \in PRs /\ delivery[d].sha \in Shas
      BY <1>2, HandledIsDelivered DEF Redeliver
    <2> QED BY <1>2, <2>1, DeliverSound DEF Redeliver, Sound, GitHubTyped
  <1>3. ASSUME NEW d \in Deliveries, Handle(d) PROVE Sound'
    BY <1>3, ReceiveHitSound, ReceiveMissSound, ReadFilesSound, ReadCISound,
       FailEnrichmentSound, ReturnEnrichedSound, FinishRunnerSound DEF Handle
  <1>4. CASE UNCHANGED vars
    BY <1>4 DEF vars, Sound, GitHubTyped, Numbered, HandlersSound, SoundHandler, CacheSound,
       SoundEntry, About, OutsideTyped, SuccessIsItsOwn
  <1> QED BY <1>1, <1>2, <1>3, <1>4, TickSound, CrashSound DEF Next

LEMMA AlwaysSound == Spec => []Sound
  BY InitSound, NextSound, PTL DEF Spec

-----------------------------------------------------------------------------
(* Theorems. *)

\* The webhook's variables keep to their types: above all, no payload without a
\* pull request is ever cached, commented on or marked.
THEOREM TypeCorrect == Spec => []TypeOK
  BY AlwaysSound, SoundIsEnough, PTL

\* A commit is marked only for a delivery of its own whose build did not fail,
\* whoever filled the cache, whatever crashed, and in whatever order threads returned.
THEOREM MarksAreEarned == Spec => []SuccessIsItsOwn
  <1>1. Sound => SuccessIsItsOwn
    BY DEF Sound
  <1> QED BY <1>1, AlwaysSound, PTL

\* No delivery is served what was read a lifetime ago, for an entry carries the
\* time its thread was started, never the time it returned.
THEOREM ServedFresh == Spec => []HitsAreFresh
  BY AlwaysSound, SoundIsEnough, PTL
===============================================================================
