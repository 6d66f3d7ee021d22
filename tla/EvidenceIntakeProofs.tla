------------------------- MODULE EvidenceIntakeProofs -------------------------
(***************************************************************************)
(* Theorems about EvidenceIntake, for every event and body of evidence a   *)
(* caller may send and whatever the workers come to.                       *)
(***************************************************************************)
EXTENDS EvidenceIntake, FiniteSetTheorems, WellFoundedInduction, TLAPS

-----------------------------------------------------------------------------
(* Numbers. *)

LEMMA LeastExists ==
    ASSUME NEW T, T \subseteq Nat, T # {}
    PROVE  \E x \in T : \A y \in T : x <= y
  <1>1. PICK x \in T : \A y \in T : <<y, x>> \notin OpToRel(<, Nat)
    BY NatLessThanWellFounded, WFMin
  <1>2. \A y \in T : <<y, x>> \in Nat \X Nat
    OBVIOUS
  <1>3. \A y \in T : ~(y < x)
    BY <1>1, <1>2 DEF OpToRel
  <1> QED BY <1>3

\* A share, rounded to hundredths, is one.
LEMMA HalfEvenBounds ==
    ASSUME NEW o \in Nat, NEW b \in Nat \ {0}, o <= b
    PROVE  HalfEven(100 * o, b) \in 0..100
  <1> DEFINE a == 100 * o
             q == a \div b
             r == a % b
  <1> SUFFICES HalfEven(a, b) \in 0..100
    OBVIOUS
  <1>1. a \in Nat /\ a <= 100 * b
    OBVIOUS
  <1>2. q \in Nat /\ r \in 0..(b - 1) /\ a = b * q + r
    BY <1>1
  <1>3. HalfEven(a, b) = IF 2 * r + (q % 2) > b THEN q + 1 ELSE q
    BY DEF HalfEven
  <1> HIDE DEF a, q, r
  <1>4. b * q <= 100 * b
    BY <1>1, <1>2
  <1>5. q <= 100
    <2> SUFFICES ASSUME q >= 101 PROVE FALSE
      BY <1>2
    <2>1. PICK k \in Nat : q = 101 + k
      <3>1. q - 101 \in Nat /\ q = 101 + (q - 101)
        BY <1>2
      <3> QED BY <3>1
    <2>2. b * q = 101 * b + b * k /\ b * k \in Nat
      BY <2>1
    <2> QED BY <1>4, <2>2
  <1>6. CASE q = 100
    <2>1. b * q = 100 * b
      BY <1>6
    <2>2. r = 0
      BY <1>1, <1>2, <2>1
    <2> QED BY <1>3, <1>6, <2>2
  <1>7. CASE q <= 99
    BY <1>2, <1>3, <1>7
  <1> QED BY <1>2, <1>5, <1>6, <1>7

\* Domains are at most three; a set with one is not empty, with two holds two.
LEMMA DomainCount ==
    ASSUME NEW X, X \subseteq Domains
    PROVE  /\ IsFiniteSet(X) /\ Cardinality(X) \in 0..3
           /\ X # {} => Cardinality(X) >= 1
           /\ \A d, e \in X : d # e => Cardinality(X) >= 2
  <1>1. IsFiniteSet(Domains) /\ Cardinality(Domains) = 3
    <2> DEFINE one == {"code"}
               two == one \cup {"delivery"}
    <2>1. IsFiniteSet(one) /\ Cardinality(one) = 1
      BY FS_Singleton
    <2>2. IsFiniteSet(two) /\ Cardinality(two) = 2
      BY <2>1, FS_AddElement
    <2>3. Domains = two \cup {"production"} /\ "production" \notin two
      BY DEF Domains
    <2> HIDE DEF two
    <2> QED BY <2>2, <2>3, FS_AddElement
  <1>2. IsFiniteSet(X) /\ Cardinality(X) \in Nat /\ Cardinality(X) <= 3
    BY <1>1, FS_Subset, FS_CardinalityType
  <1>3. X # {} => Cardinality(X) >= 1
    BY <1>2, FS_EmptySet
  <1>4. ASSUME NEW d \in X, NEW e \in X, d # e PROVE Cardinality(X) >= 2
    <2>1. IsFiniteSet({d}) /\ Cardinality({d}) = 1
      BY FS_Singleton
    <2> DEFINE one == {d}
               two == one \cup {e}
    <2>2. e \notin one
      BY <1>4
    <2>3. two \subseteq X
      OBVIOUS
    <2> HIDE DEF one
    <2>4. Cardinality(two) = 2
      BY <2>1, <2>2, FS_AddElement DEF one
    <2> HIDE DEF two
    <2> QED BY <1>2, <2>3, <2>4, FS_Subset
  <1> QED BY <1>2, <1>3, <1>4

LEMMA NamesFinite == IsFiniteSet(Workers \cup {"stranger"})
  <1> DEFINE code == {"pr-pre-flight-ast-worker"} \cup {"docs-drift-and-spec-worker"}
             delivery == {"build-log-and-flakiness-worker"}
                         \cup {"alert-storm-clustering-worker"}
             production == {"telemetry-correlation-worker"}
                           \cup {"security-and-dependency-worker"}
  <1>1. Workers = code \cup delivery \cup production
    BY DEF Workers, WorkersOf, Domains
  <1>2. IsFiniteSet(code) /\ IsFiniteSet(delivery) /\ IsFiniteSet(production)
    <2>1. ASSUME NEW v, NEW w PROVE IsFiniteSet({v} \cup {w})
      <3>1. IsFiniteSet({v}) /\ IsFiniteSet({w})
        BY FS_Singleton
      <3> QED BY <3>1, FS_Union
    <2> QED BY <2>1
  <1>3. IsFiniteSet({"stranger"})
    BY FS_Singleton
  <1> HIDE DEF code, delivery, production
  <1> QED BY <1>1, <1>2, <1>3, FS_Union

-----------------------------------------------------------------------------
(* The plan. *)

\* Every valid or invalid event that reaches acquisition has a plan of one to
\* three domains, whatever the caller declared.
LEMMA PlanFacts ==
    ASSUME NEW e \in Events
    PROVE  /\ SelectDomains(e) \subseteq Domains /\ SelectDomains(e) # {}
           /\ Dispatchable(SelectDomains(e))
  <1>1. e.touched \subseteq Domains
    BY EventsAssumption
  <1>2. SelectDomains(e) \subseteq Domains /\ SelectDomains(e) # {}
    BY <1>1 DEF SelectDomains, Domains
  <1> QED BY <1>2, DomainCount
          DEF Dispatchable, MaxConcurrentManagers, MinDomains, MaxDomains

-----------------------------------------------------------------------------
(* The invariant. *)

\* Some shard calls its evidence unavailable or contradictory in its typed claims;
\* two shards of selected domains deny each other.
Doubt == \E s \in shards : s.typed \cap {"unavailable", "contradictory"} # {}
Denial ==
    \E s, t \in shards \ Rejected :
        s.domain # t.domain /\ s.text = "plain" /\ t.text = "notPlain"

Planned ==
    /\ plan \subseteq Domains
    /\ stage = "acquired" => Dispatchable(plan)
    /\ stage \notin {"received", "answered"} => plan # {}

\* A manager reports what its shards say, or fails on one of them.
ManagersHonest ==
    /\ DOMAIN findings \cup failed \subseteq Managed
    /\ \A d \in DOMAIN findings : findings[d] = Aggregated(d)
    /\ \A d \in failed : \E s \in ShardsOf(d) : ~s.wellFormed

\* A situation on the scale of the policy, with everything in it that must hold
\* the event.
Met ==
    /\ situation \in SituationsOver(0..100, 0..100)
    /\ Validated(situation)
    /\ Doubt => situation.unavailable \/ situation.contradictory
    /\ Denial /\ ~body.given => situation.conflict
    /\ \A s \in shards : s.wellFormed

Answered ==
    /\ stage # "answered" => answer = "none"
    /\ stage = "answered" => answer \in {"validation_error", "pipeline_error"}
                             \/ answer = AutonomyClass(situation)
    /\ stage = "validated" \/ answer \in AutonomyClasses => Met

\* The inductive invariant.
Kept ==
    /\ event \in Events /\ body \in Bodies
    /\ stage \in {"received", "acquired", "dispatched", "managing", "validated", "answered"}
    /\ shards \subseteq Shard
    /\ stage \in {"received", "acquired", "dispatched"} =>
          shards = {} /\ findings = <<>> /\ failed = {}
    /\ Planned /\ ManagersHonest /\ Answered

-----------------------------------------------------------------------------
(* Workers and managers. *)

LEMMA ShardFacts ==
    ASSUME NEW s \in Shard
    PROVE  /\ s.domain \in Domains /\ s.worker \in Workers \cup {"stranger"}
           /\ s.text \in Texts /\ s.confidence \in 0..100 /\ s.wellFormed \in BOOLEAN
  BY DEF Shard

LEMMA WorkersEmitShards ==
    ASSUME Kept, NEW emission \in [Emitters -> Emissions]
    PROVE  ShardsOfWorkers(emission) \subseteq Shard
  <1> SUFFICES ASSUME NEW w \in Emitters
               PROVE  [domain |-> CHOOSE d \in Domains : w \in WorkersOf[d], worker |-> w,
                       text |-> emission[w].text, typed |-> {TypedAs(emission[w].text)},
                       confidence |-> emission[w].confidence, wellFormed |-> TRUE] \in Shard
    BY DEF ShardsOfWorkers
  <1>1. \E d \in Domains : w \in WorkersOf[d]
    BY DEF Emitters, Kept, Planned
  <1>2. (CHOOSE d \in Domains : w \in WorkersOf[d]) \in Domains /\ w \in Workers
    BY <1>1 DEF Workers
  <1>3. emission[w].text \in Texts /\ emission[w].confidence \in 0..100
    BY EmissionsAssumption
  <1>4. {TypedAs(emission[w].text)} \subseteq ShardStates
    BY DEF TypedAs, ShardStates
  <1> QED BY <1>2, <1>3, <1>4 DEF Shard

LEMMA AggregatedFacts ==
    ASSUME Kept, NEW d \in Managed
    PROVE  Aggregated(d) \in Finding /\ Aggregated(d).domain = d
  <1> DEFINE T == {s.confidence : s \in ShardsOf(d)}
  <1>1. d \in Domains /\ ShardsOf(d) # {} /\ ShardsOf(d) \subseteq Shard
    BY DEF Managed, Kept, Planned, ShardsOf
  <1>2. T \subseteq 0..100 /\ T # {}
    BY <1>1, ShardFacts
  <1>3. Weakest(T) \in 0..100
    <2> HIDE DEF T
    <2>1. T \subseteq Nat
      BY <1>2
    <2>2. \E c \in T : \A e \in T : c <= e
      BY <1>2, <2>1, LeastExists
    <2> QED BY <1>2, <2>2 DEF Weakest
  <1>4. {s.text : s \in ShardsOf(d)} \subseteq Texts
    BY <1>1, ShardFacts
  <1>5. Aggregated(d) = [domain |-> d, claims |-> {s.text : s \in ShardsOf(d)},
                         confidence |-> Weakest(T), own |-> TRUE, wellFormed |-> TRUE]
    BY DEF Aggregated
  <1> HIDE DEF T
  <1> QED BY <1>1, <1>3, <1>4, <1>5 DEF Finding

-----------------------------------------------------------------------------
(* The validator. *)

LEMMA StrengthBounds ==
    ASSUME NEW fs, NEW ss, ss \subseteq Shard, Provided(fs) \subseteq Domains
    PROVE  EvidenceStrength(fs, ss) \in 0..100
  <1> DEFINE names == Provided(fs) \cup {s.worker : s \in ss}
             observed == {d \in Provided(fs) : ClaimsIn(fs, d) \cap Concrete # {}}
                         \cup {s.worker : s \in {t \in ss : t.text \in Concrete}}
  <1>1. EvidenceStrength(fs, ss) =
            IF names = {} THEN 0 ELSE HalfEven(100 * Cardinality(observed), Cardinality(names))
    BY DEF EvidenceStrength
  <1>2. observed \subseteq names
    OBVIOUS
  <1>3. names \subseteq Provided(fs) \cup (Workers \cup {"stranger"})
    BY ShardFacts
  <1>4. IsFiniteSet(Provided(fs) \cup (Workers \cup {"stranger"}))
    BY DomainCount, NamesFinite, FS_Union
  <1> HIDE DEF names, observed
  <1>5. IsFiniteSet(names)
    BY <1>3, <1>4, FS_Subset
  <1>6. /\ Cardinality(observed) \in Nat /\ Cardinality(names) \in Nat
        /\ Cardinality(observed) <= Cardinality(names)
        /\ names # {} => Cardinality(names) # 0
    BY <1>2, <1>5, FS_Subset, FS_CardinalityType, FS_EmptySet
  <1> QED BY <1>1, <1>6, HalfEvenBounds

\* What it takes of findings that fit the plan is a validated situation.
LEMMA SituationFacts ==
    ASSUME Kept, plan # {}, NEW fs, ~InputsRefused(fs, shards),
           AllClaims(fs) \cap Causal = {} \/ Corroborated(fs),
           NEW s \in SituationsFrom(fs, shards)
    PROVE  /\ s \in SituationsOver(0..100, 0..100) /\ Validated(s)
           /\ s.conflict = Conflict(fs)
           /\ Doubt => s.unavailable \/ s.contradictory
           /\ \A t \in shards : t.wellFormed
  <1>1. /\ Provided(fs) \subseteq plan /\ plan \subseteq Domains /\ Provided(fs) \subseteq Domains
        /\ \A t \in shards : t.wellFormed
    BY DEF InputsRefused, Provided, Kept, Planned
  <1> DEFINE mean == Averages(SumFunction([i \in DOMAIN fs |-> fs[i].confidence]),
                              Cardinality(DOMAIN fs))
  <1>2. mean \subseteq 0..100 /\ (DOMAIN fs = {} => mean = {0})
    <2> DEFINE total == SumFunction([i \in DOMAIN fs |-> fs[i].confidence])
               count == Cardinality(DOMAIN fs)
    <2>1. DOMAIN fs = {} => count = 0
      BY FS_EmptySet
    <2>2. mean = Averages(total, count)
      OBVIOUS
    <2> HIDE DEF mean, total, count
    <2> QED BY <2>1, <2>2 DEF Averages
  <1> HIDE DEF mean
  <1>3. /\ s.selected = plan /\ s.provided = Provided(fs) /\ s.confidence \in mean
        /\ s.causality = Causality(fs) /\ s.conflict = Conflict(fs) /\ s.gap = Gap(fs)
        /\ s.unavailable = ("unavailable" \in EvidenceStates(fs, shards))
        /\ s.contradictory = ("contradictory" \in EvidenceStates(fs, shards))
        /\ s.credibleRisk \in CredibleRisk(fs, shards)
    BY DEF SituationsFrom, mean
  <1>4. /\ Causality(fs) \in Causalities
        /\ Causality(fs) \in EstablishedCausality <=> Corroborated(fs)
    BY DEF Causality, Causalities, EstablishedCausality, Causal
  <1>5. CredibleRisk(fs, shards) \subseteq BOOLEAN
    BY DEF CredibleRisk
  <1>6. Conflict(fs) \in BOOLEAN /\ Gap(fs) \in BOOLEAN
    BY DEF Conflict, Gap
  <1>7. s \in SituationsOver(0..100, 0..100)
    <2>1. EvidenceStrength(fs, shards) \in 0..100
      BY <1>1, StrengthBounds DEF Kept
    <2>2. s \in [selected : {plan}, provided : {Provided(fs)}, confidence : mean,
                 strength : {EvidenceStrength(fs, shards)}, causality : {Causality(fs)},
                 conflict : {Conflict(fs)}, gap : {Gap(fs)},
                 unavailable : {"unavailable" \in EvidenceStates(fs, shards)},
                 contradictory : {"contradictory" \in EvidenceStates(fs, shards)},
                 credibleRisk : CredibleRisk(fs, shards)]
      BY DEF SituationsFrom, mean
    <2>3. /\ ("unavailable" \in EvidenceStates(fs, shards)) \in BOOLEAN
          /\ ("contradictory" \in EvidenceStates(fs, shards)) \in BOOLEAN
      OBVIOUS
    <2> QED BY <1>1, <1>2, <1>4, <1>5, <1>6, <2>1, <2>2, <2>3 DEF SituationsOver
  <1>8. Conflict(fs) => Cardinality(Provided(fs)) >= 2
    BY <1>1, DomainCount DEF Conflict
  <1>9. ASSUME Provided(fs) = {}
        PROVE  s.confidence = 0 /\ ~s.credibleRisk /\ ~s.gap
    <2>1. DOMAIN fs = {} /\ AllClaims(fs) = {}
      BY <1>9 DEF Provided, AllClaims
    <2>2. ClaimsIn(fs, "code") = {}
      BY <2>1 DEF ClaimsIn
    <2> QED BY <1>2, <1>3, <2>1, <2>2 DEF CredibleRisk, Gap
  <1>10. Validated(s)
    BY <1>1, <1>3, <1>4, <1>8, <1>9 DEF Validated, Corroborated
  <1>11. Doubt => s.unavailable \/ s.contradictory
    <2> SUFFICES ASSUME NEW t \in shards, t.typed \cap {"unavailable", "contradictory"} # {}
                 PROVE  s.unavailable \/ s.contradictory
      BY DEF Doubt
    <2>1. t.typed \subseteq EvidenceStates(fs, shards)
      BY DEF EvidenceStates, StatesOf
    <2> QED BY <1>3, <2>1
  <1> QED BY <1>1, <1>3, <1>7, <1>10, <1>11

\* Two denials meet in the findings of their managers.
LEMMA DenialIsConflict ==
    ASSUME Kept, Denial, ~body.given, Managed = DOMAIN findings \cup failed,
           \A t \in shards : t.wellFormed
    PROVE  Conflict(DomainFindings)
  <1>1. DomainFindings = findings
    BY DEF DomainFindings
  <1>2. failed = {}
    BY DEF Kept, ManagersHonest, ShardsOf
  <1>3. PICK s \in shards \ Rejected, t \in shards \ Rejected :
            s.domain # t.domain /\ s.text = "plain" /\ t.text = "notPlain"
    BY DEF Denial
  <1>4. ASSUME NEW u \in shards \ Rejected
        PROVE  u.domain \in Provided(findings) /\ u.text \in ClaimsIn(findings, u.domain)
    <2>1. u \in ShardsOf(u.domain) /\ u.domain \in Managed
      BY DEF Rejected, Managed, ShardsOf
    <2>2. u.domain \in DOMAIN findings /\ findings[u.domain] = Aggregated(u.domain)
      BY <1>2, <2>1 DEF Kept, ManagersHonest
    <2>3. findings[u.domain].domain = u.domain /\ u.text \in findings[u.domain].claims
      BY <2>1, <2>2 DEF Aggregated
    <2> QED BY <2>2, <2>3 DEF Provided, ClaimsIn
  <1> QED BY <1>1, <1>3, <1>4 DEF Conflict

-----------------------------------------------------------------------------
(* Every step keeps the invariant. *)

LEMMA ErrorsAreNoClasses ==
    /\ "none" \notin AutonomyClasses /\ "validation_error" \notin AutonomyClasses
    /\ "pipeline_error" \notin AutonomyClasses
    /\ \A s : AutonomyClass(s) \in AutonomyClasses
  BY DEF AutonomyClasses, AutonomyClass

LEMMA AcquireEventKeeps == ASSUME Kept, AcquireEvent PROVE Kept'
  <1>1. /\ stage = "received" /\ shards = {} /\ findings = <<>> /\ failed = {}
        /\ UNCHANGED <<event, body, shards, findings, failed, situation>>
    BY DEF Kept, AcquireEvent
  <1>2. DOMAIN findings = {}
    BY <1>1
  <1>3. ManagersHonest'
    BY <1>1, <1>2 DEF ManagersHonest
  <1>4. CASE event.valid
    <2>1. plan' = SelectDomains(event) /\ stage' = "acquired" /\ answer' = answer
      BY <1>4 DEF AcquireEvent
    <2>2. Planned'
      BY <2>1, PlanFacts DEF Kept, Planned, Dispatchable
    <2>3. Answered'
      BY <1>1, <2>1, ErrorsAreNoClasses DEF Kept, Answered
    <2> QED BY <1>1, <1>3, <2>1, <2>2, <2>3 DEF Kept
  <1>5. CASE ~event.valid
    <2>1. plan' = plan /\ stage' = "answered" /\ answer' = "validation_error"
      BY <1>5 DEF AcquireEvent, Answer
    <2>2. Planned' /\ Answered'
      BY <2>1, ErrorsAreNoClasses DEF Kept, Planned, Answered
    <2> QED BY <1>1, <1>3, <2>1, <2>2 DEF Kept
  <1> QED BY <1>4, <1>5

LEMMA DispatchSupervisorKeeps == ASSUME Kept, DispatchSupervisor PROVE Kept'
  <1>1. /\ stage = "acquired" /\ UNCHANGED <<event, body, plan, shards, findings, failed, situation>>
        /\ \/ stage' = "dispatched" /\ answer' = answer
           \/ stage' = "answered" /\ answer' = "pipeline_error"
    BY DEF DispatchSupervisor, Answer
  <1>2. ManagersHonest'
    BY <1>1 DEF Kept, ManagersHonest, Managed, ShardsOf, Aggregated
  <1>3. Planned' /\ Answered'
    BY <1>1, ErrorsAreNoClasses DEF Kept, Planned, Answered
  <1> QED BY <1>1, <1>2, <1>3 DEF Kept

LEMMA DispatchWorkersKeeps == ASSUME Kept, DispatchWorkers PROVE Kept'
  <1>1. /\ stage = "dispatched" /\ findings = <<>> /\ failed = {}
        /\ stage' = "managing"
        /\ UNCHANGED <<event, body, plan, findings, failed, situation, answer>>
    BY DEF Kept, DispatchWorkers
  <1>2. shards' \subseteq Shard
    <2>1. PICK emission \in [Emitters -> Emissions] :
             shards' = body.shards \cup ShardsOfWorkers(emission)
      BY DEF DispatchWorkers
    <2>2. body.shards \subseteq Shard
      BY BodiesAssumption DEF Kept
    <2> QED BY <2>1, <2>2, WorkersEmitShards
  <1>3. DOMAIN findings = {}
    BY <1>1
  <1>4. ManagersHonest'
    BY <1>1, <1>3 DEF ManagersHonest
  <1>5. Planned' /\ Answered'
    BY <1>1, ErrorsAreNoClasses DEF Kept, Planned, Answered
  <1> QED BY <1>1, <1>2, <1>4, <1>5 DEF Kept

LEMMA ManageKeeps == ASSUME Kept, NEW d \in Domains, Manage(d) PROVE Kept'
  <1>1. /\ stage = "managing" /\ d \in Managed
        /\ UNCHANGED <<event, body, stage, plan, shards, situation, answer>>
    BY DEF Manage
  <1>2. Managed' = Managed /\ \A e : ShardsOf(e)' = ShardsOf(e) /\ Aggregated(e)' = Aggregated(e)
    BY <1>1 DEF Managed, ShardsOf, Aggregated
  <1>3. ManagersHonest'
    <2>1. CASE \A s \in ShardsOf(d) : s.wellFormed
      <3>1. /\ findings' = [e \in DOMAIN findings \cup {d} |->
                                IF e = d THEN Aggregated(d) ELSE findings[e]]
            /\ failed' = failed
        BY <2>1 DEF Manage
      <3> QED BY <1>1, <1>2, <3>1 DEF Kept, ManagersHonest
    <2>2. CASE ~ \A s \in ShardsOf(d) : s.wellFormed
      <3>1. failed' = failed \cup {d} /\ findings' = findings
        BY <2>2 DEF Manage
      <3> QED BY <1>1, <1>2, <2>2, <3>1 DEF Kept, ManagersHonest
    <2> QED BY <2>1, <2>2
  <1>4. Planned' /\ Answered'
    BY <1>1, ErrorsAreNoClasses DEF Kept, Planned, Answered
  <1> QED BY <1>1, <1>3, <1>4 DEF Kept

LEMMA ValidateKeeps == ASSUME Kept, Validate PROVE Kept'
  <1>1. /\ stage = "managing" /\ Managed = DOMAIN findings \cup failed
        /\ UNCHANGED <<event, body, plan, shards, findings, failed>>
    BY DEF Validate
  <1>2. ManagersHonest'
    BY <1>1 DEF Kept, ManagersHonest, Managed, ShardsOf, Aggregated
  <1>3. plan # {}
    BY <1>1 DEF Kept, Planned
  <1>4. CASE \/ InputsRefused(DomainFindings, shards)
             \/ AllClaims(DomainFindings) \cap Causal # {} /\ ~Corroborated(DomainFindings)
    <2>1. stage' = "answered" /\ answer' = "pipeline_error"
      BY <1>4 DEF Validate, Answer
    <2>2. Planned' /\ Answered'
      BY <1>1, <2>1, ErrorsAreNoClasses DEF Kept, Planned, Answered
    <2> QED BY <1>1, <1>2, <2>1, <2>2 DEF Kept
  <1>5. CASE /\ ~InputsRefused(DomainFindings, shards)
             /\ AllClaims(DomainFindings) \cap Causal = {} \/ Corroborated(DomainFindings)
    <2>1. /\ situation' \in SituationsFrom(DomainFindings, shards)
          /\ stage' = "validated" /\ answer' = answer
      BY <1>5 DEF Validate
    <2>2. /\ situation' \in SituationsOver(0..100, 0..100) /\ Validated(situation')
          /\ situation'.conflict = Conflict(DomainFindings)
          /\ Doubt => situation'.unavailable \/ situation'.contradictory
          /\ \A t \in shards : t.wellFormed
      BY <1>3, <1>5, <2>1, SituationFacts
    <2>3. Denial /\ ~body.given => situation'.conflict
      BY <1>1, <2>2, DenialIsConflict
    <2>4. Doubt' = Doubt /\ Denial' = Denial
      BY <1>1 DEF Doubt, Denial, Rejected
    <2>5. Met'
      BY <1>1, <2>2, <2>3, <2>4 DEF Met
    <2>6. Planned' /\ Answered'
      BY <1>1, <1>3, <2>1, <2>5 DEF Kept, Planned, Answered
    <2> QED BY <1>1, <1>2, <2>1, <2>6 DEF Kept
  <1> QED BY <1>4, <1>5

LEMMA ReduceKeeps == ASSUME Kept, Reduce PROVE Kept'
  <1>1. /\ stage = "validated" /\ stage' = "answered" /\ answer' = AutonomyClass(situation)
        /\ UNCHANGED <<event, body, plan, shards, findings, failed, situation>>
    BY DEF Reduce, Answer
  <1>2. ManagersHonest'
    BY <1>1 DEF Kept, ManagersHonest, Managed, ShardsOf, Aggregated
  <1>3. Met'
    BY <1>1 DEF Kept, Answered, Met, Doubt, Denial, Rejected
  <1>4. Planned' /\ Answered'
    BY <1>1, <1>3 DEF Kept, Planned, Answered
  <1> QED BY <1>1, <1>2, <1>4 DEF Kept

LEMMA InitKeeps == Init => Kept
  <1> SUFFICES ASSUME Init PROVE Kept
    OBVIOUS
  <1>1. DOMAIN findings = {}
    BY DEF Init
  <1> QED BY <1>1, ErrorsAreNoClasses DEF Init, Kept, Planned, ManagersHonest, Answered

LEMMA NextKeeps == ASSUME Kept, [Next]_vars PROVE Kept'
  <1>1. CASE UNCHANGED vars
    BY <1>1 DEF vars, Kept, Planned, ManagersHonest, Managed, ShardsOf, Aggregated, Answered,
       Met, Doubt, Denial, Rejected
  <1> QED BY <1>1, AcquireEventKeeps, DispatchSupervisorKeeps, DispatchWorkersKeeps,
             ManageKeeps, ValidateKeeps, ReduceKeeps DEF Next

LEMMA AlwaysKept == Spec => []Kept
  BY InitKeeps, NextKeeps, PTL DEF Spec

-----------------------------------------------------------------------------
(* Theorems. *)

\* The intake keeps its types: the shards it mixes are all shards, and each domain
\* of the plan has its own manager's finding or none.
THEOREM TypeCorrect == Spec => []TypeOK
  <1>1. Kept => TypeOK
    <2> SUFFICES ASSUME Kept PROVE TypeOK
      OBVIOUS
    <2>1. DOMAIN findings \cup failed \subseteq plan
      BY DEF Kept, ManagersHonest, Managed
    <2>2. \A d \in DOMAIN findings : findings[d] \in Finding /\ findings[d].domain = d
      BY AggregatedFacts DEF Kept, ManagersHonest
    <2>3. answer \in AutonomyClasses \cup {"none", "validation_error", "pipeline_error"}
      BY ErrorsAreNoClasses DEF Kept, Answered
    <2> QED BY <2>1, <2>2, <2>3 DEF TypeOK, Kept, Planned
  <1> QED BY <1>1, AlwaysKept, PTL

\* Whatever a caller declares, the supervisor finds a plan it can dispatch.
THEOREM PlansAreDispatchable == Spec => []PlanIsDispatchable
  <1>1. Kept => PlanIsDispatchable
    BY DEF Kept, Planned, PlanIsDispatchable
  <1> QED BY <1>1, AlwaysKept, PTL

\* Whatever evidence a caller mixes in, the reducer gets a situation that its
\* policy was proved for.
THEOREM IntakeServesReducer == Spec => []IntakeMeetsReducer
  <1>1. Kept => IntakeMeetsReducer
    BY DEF Kept, Answered, Met, IntakeMeetsReducer
  <1> QED BY <1>1, AlwaysKept, PTL

\* No event is decided without the evidence of a manager that failed.
THEOREM FailuresAreRefused == Spec => []ManagerFailureIsNotSilent
  <1>1. Kept => ManagerFailureIsNotSilent
    <2> SUFFICES ASSUME Kept, answer \in AutonomyClasses, NEW d \in failed PROVE FALSE
      BY DEF ManagerFailureIsNotSilent
    <2>1. \A s \in shards : s.wellFormed
      BY DEF Kept, Answered, Met
    <2> QED BY <2>1 DEF Kept, ManagersHonest, ShardsOf
  <1> QED BY <1>1, AlwaysKept, PTL

\* The situation of a green answer, and what its class rules out.
LEMMA GreenMet ==
    ASSUME Kept, Green
    PROVE  Met /\ ~situation.unavailable /\ ~situation.contradictory /\ ~situation.conflict
  <1>1. Met /\ AutonomyClass(situation) = "safe_autonomous"
    BY DEF Kept, Answered, Green, AutonomyClasses
  <1>2. /\ ~EscalateTriggered(situation) /\ ~HoldsForReview(situation)
        /\ ~HighCriticalEvidence(situation)
    BY <1>1 DEF AutonomyClass
  <1> QED BY <1>1, <1>2 DEF EscalateTriggered, HoldsForReview, HighCriticalEvidence

\* Evidence that calls itself unavailable or contradictory holds the event.
THEOREM TypedDoubtHolds == Spec => []TypedDoubtNeverGreen
  <1>1. Kept => TypedDoubtNeverGreen
    BY GreenMet DEF TypedDoubtNeverGreen, Met, Doubt
  <1> QED BY <1>1, AlwaysKept, PTL

\* So do two shards that deny each other, through the findings of their managers.
THEOREM DenialHolds == Spec => []DenialNeverGreen
  <1>1. Kept => DenialNeverGreen
    BY GreenMet DEF DenialNeverGreen, Met, Denial
  <1> QED BY <1>1, AlwaysKept, PTL
===============================================================================
