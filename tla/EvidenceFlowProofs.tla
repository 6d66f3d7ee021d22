-------------------------- MODULE EvidenceFlowProofs --------------------------
(***************************************************************************)
(* Theorems about EvidenceFlow, for any changesets (of any number of files) *)
(* a pull request may have, any number of signals, and any wording of the  *)
(* model.                                                                  *)
(***************************************************************************)
EXTENDS EvidenceFlow, FiniteSetTheorems, WellFoundedInduction, TLAPS

-----------------------------------------------------------------------------
(* Numbers. *)

LEMMA LeastExists ==
    ASSUME NEW T, T \subseteq Nat, T # {}
    PROVE  \E x \in T : \A y \in T : x <= y
  <1>1. PICK x \in T : \A y \in T : <<y, x>> \notin OpToRel(<, Nat)
    BY NatLessThanWellFounded, WFMin
  <1>2. \A y \in T : <<y, x>> \in Nat \X Nat
    OBVIOUS
  <1>3. \A y \in T : ~(y < x)
    BY <1>1, <1>2 DEF OpToRel
  <1> QED BY <1>3

\* A share, rounded to hundredths, is one.
LEMMA HalfEvenBounds ==
    ASSUME NEW o \in Nat, NEW b \in Nat \ {0}, o <= b
    PROVE  HalfEven(100 * o, b) \in 0..100
  <1> DEFINE a == 100 * o
             q == a \div b
             r == a % b
  <1> SUFFICES HalfEven(a, b) \in 0..100
    OBVIOUS
  <1>1. a \in Nat /\ a <= 100 * b
    OBVIOUS
  <1>2. q \in Nat /\ r \in 0..(b - 1) /\ a = b * q + r
    BY <1>1
  <1>3. HalfEven(a, b) = IF 2 * r + (q % 2) > b THEN q + 1 ELSE q
    BY DEF HalfEven
  <1> HIDE DEF a, q, r
  <1>4. b * q <= 100 * b
    BY <1>1, <1>2
  <1>5. q <= 100
    <2> SUFFICES ASSUME q >= 101 PROVE FALSE
      BY <1>2
    <2>1. PICK k \in Nat : q = 101 + k
      <3>1. q - 101 \in Nat /\ q = 101 + (q - 101)
        BY <1>2
      <3> QED BY <3>1
    <2>2. b * q = 101 * b + b * k /\ b * k \in Nat
      BY <2>1
    <2> QED BY <1>4, <2>2
  <1>6. CASE q = 100
    <2>1. b * q = 100 * b
      BY <1>6
    <2>2. r = 0
      BY <1>1, <1>2, <2>1
    <2> QED BY <1>3, <1>6, <2>2
  <1>7. CASE q <= 99
    BY <1>2, <1>3, <1>7
  <1> QED BY <1>2, <1>5, <1>6, <1>7

\* How many domains, one by one.
LEMMA DomainsCounted ==
    ASSUME NEW X, X \subseteq Domains
    PROVE  /\ IsFiniteSet(X)
           /\ Cardinality(X) = When("code" \in X, 1) + When("delivery" \in X, 1)
                               + When("production" \in X, 1)
  <1> DEFINE A == X \cap {"code"}
             B == A \cup (X \cap {"delivery"})
  <1>1. IsFiniteSet(A) /\ Cardinality(A) = When("code" \in X, 1)
    <2>1. CASE "code" \in X
      <3>1. A = {"code"}
        BY <2>1
      <3> QED BY <2>1, <3>1, FS_Singleton DEF When
    <2>2. CASE "code" \notin X
      <3>1. A = {}
        BY <2>2
      <3> QED BY <2>2, <3>1, FS_EmptySet DEF When
    <2> QED BY <2>1, <2>2
  <1>2. IsFiniteSet(B) /\ Cardinality(B) = Cardinality(A) + When("delivery" \in X, 1)
    <2>1. CASE "delivery" \in X
      <3>1. B = A \cup {"delivery"} /\ "delivery" \notin A
        BY <2>1
      <3> QED BY <1>1, <2>1, <3>1, FS_AddElement DEF When
    <2>2. CASE "delivery" \notin X
      <3>1. B = A
        BY <2>2
      <3>2. Cardinality(A) \in Nat
        BY <1>1, FS_CardinalityType
      <3> QED BY <1>1, <2>2, <3>1, <3>2 DEF When
    <2> QED BY <2>1, <2>2
  <1>3. IsFiniteSet(X) /\ Cardinality(X) = Cardinality(B) + When("production" \in X, 1)
    <2>1. CASE "production" \in X
      <3>1. X = B \cup {"production"} /\ "production" \notin B
        BY <2>1 DEF Domains
      <3> QED BY <1>2, <2>1, <3>1, FS_AddElement DEF When
    <2>2. CASE "production" \notin X
      <3>1. X = B
        BY <2>2 DEF Domains
      <3>2. Cardinality(B) \in Nat
        BY <1>2, FS_CardinalityType
      <3> QED BY <1>2, <2>2, <3>1, <3>2 DEF When
    <2> QED BY <2>1, <2>2
  <1> QED BY <1>1, <1>2, <1>3

\* The ladder never reaches autonomy from an average below 70: full coverage
\* earns five points, and every strategy but that of low risk caps them.
LEMMA LowAverageIsHeld ==
    ASSUME NEW s, s.confidence \in 0..69, s.strength \in 0..100
    PROVE  AutonomyClass(s) # "safe_autonomous"
  <1>1. BaseConfidence(s) \in 0..74
    BY DEF BaseConfidence
  <1>2. EvidenceWeighted(s) \in Int
    <2> DEFINE w == (BaseConfidence(s) * (8500 + 15 * s.strength) + 5000) \div 10000
    <2>1. w \in Int
      BY <1>1
    <2> HIDE DEF w
    <2> QED BY <2>1 DEF EvidenceWeighted, Lesser, w
  <1>3. RiskLevel(s) # "low"
    BY <1>1 DEF RiskLevel, AUTONOMOUS_CONFIDENCE
  <1>4. LadderConfidence(s) < 75
    BY <1>1, <1>2, <1>3 DEF LadderConfidence, Lesser
  <1> QED BY <1>4 DEF AutonomyClass, HoldsForReview, AUTONOMOUS_CONFIDENCE

\* Neither does one without established causality, or with a claim of something
\* that could not be assessed.
LEMMA UnassessedIsHeld ==
    ASSUME NEW s, s.unavailable \/ ~Established(s)
    PROVE  AutonomyClass(s) # "safe_autonomous"
  BY DEF AutonomyClass, HoldsForReview

-----------------------------------------------------------------------------
(* Payloads. *)

\* What the workers may rely on in a payload the enrichment made: its domains cover
\* every piece of bad news in it.
WellMade(p) ==
    /\ p.files.n \in Nat /\ p.files.kinds \subseteq FileKinds
    /\ "manifest" \in p.files.kinds => p.files.n >= 1
    /\ p.ci \in CIOutcomes /\ p.docs \in {"none", "clean", "drift", "updated", "causal"}
    /\ p.scan \in {"none", "advisory", "clean"}
    /\ p.model \in {"off", "plain", "risky", "nothing", "unavailable", "causal"}
    /\ p.alerts \in Nat /\ p.telemetry \in Nat
    /\ p.domains \subseteq Domains /\ "code" \in p.domains
    /\ p.ci = "fail" => "delivery" \in p.domains
    /\ p.scan = "advisory" => "production" \in p.domains /\ "manifest" \in p.files.kinds
    /\ p.monitoring = "unavailable" =>
          p.domains = {"code"} \/ ("production" \in p.domains /\ p.numeric)

LEMMA SourceFacts ==
    ASSUME NEW s \in Sources
    PROVE  /\ s.files.n \in Nat /\ s.files.kinds \subseteq FileKinds
           /\ "manifest" \in s.files.kinds => s.files.n >= 1
           /\ s.ci \in CIOutcomes /\ s.docs \in {"none", "clean", "drift", "updated", "causal"}
           /\ s.model \in {"off", "plain", "risky", "nothing", "unavailable", "causal"}
           /\ s.alerts \in Nat /\ s.telemetry \in Nat
           /\ s.monitoring = "unavailable" => s.numeric
  <1>1. /\ s.files \in Changesets /\ s.alerts \in 0..MaxSignals /\ s.telemetry \in 0..MaxSignals
        /\ s.ci \in CIOutcomes /\ s.docs \in {"none", "clean", "drift", "updated", "causal"}
        /\ s.model \in ModelWording
        /\ IncidentSearch(s) /\ MonitoringSignals(s)
    BY DEF Sources
  <1>2. /\ s.files \in [n : Nat, kinds : SUBSET FileKinds]
        /\ Cardinality(s.files.kinds) <= s.files.n
        /\ s.files.n = 0 <=> s.files.kinds = {}
    BY <1>1, ChangesetsAssumption
  <1>3. s.alerts \in Nat /\ s.telemetry \in Nat
    BY <1>1, MaxSignalsAssumption
  <1>4. s.monitoring = "unavailable" => s.numeric
    BY <1>1 DEF IncidentSearch, MonitoringSignals
  <1>5. s.files.n \in Nat /\ s.files.kinds \subseteq FileKinds
    BY <1>2
  <1>6. "manifest" \in s.files.kinds => s.files.n >= 1
    BY <1>2, <1>5
  <1> QED BY <1>1, <1>3, <1>4, <1>5, <1>6, WordingAssumption

LEMMA FilesFacts ==
    ASSUME NEW s \in Sources
    PROVE  /\ ChangedFiles(s).n \in Nat /\ ChangedFiles(s).kinds \subseteq FileKinds
           /\ "manifest" \in ChangedFiles(s).kinds => ChangedFiles(s).n >= 1
  BY SourceFacts DEF ChangedFiles, NoFiles

LEMMA AffectedFacts ==
    ASSUME NEW s \in Sources
    PROVE  /\ AffectedDomains(s) \subseteq Domains /\ "code" \in AffectedDomains(s)
           /\ s.ci = "fail" => "delivery" \in AffectedDomains(s)
           /\ s.monitoring = "unavailable" => "production" \in AffectedDomains(s)
           /\ DependencyScan(s) = "advisory" => /\ "production" \in AffectedDomains(s)
                                                /\ "manifest" \in ChangedFiles(s).kinds
  <1>1. AffectedDomains(s) \subseteq Domains /\ "code" \in AffectedDomains(s)
    BY DEF AffectedDomains, ClassifiedDomains, Domains
  <1>2. s.ci = "fail" => "delivery" \in AffectedDomains(s)
    BY DEF AffectedDomains
  <1>3. s.monitoring = "unavailable" \/ DependencyScan(s) # "none"
        => "production" \in AffectedDomains(s)
    BY DEF AffectedDomains
  <1>4. DependencyScan(s) = "advisory" => "manifest" \in ChangedFiles(s).kinds
    BY DEF DependencyScan, Manifests
  <1> QED BY <1>1, <1>2, <1>3, <1>4

LEMMA EnrichedIsWellMade == \A s \in Sources : WellMade(Enriched(s))
  <1> SUFFICES ASSUME NEW s \in Sources PROVE WellMade(Enriched(s))
    OBVIOUS
  <1> DEFINE p == Enriched(s)
  <1>1. /\ p.files = ChangedFiles(s) /\ p.ci = s.ci /\ p.docs = s.docs
        /\ p.scan = DependencyScan(s) /\ p.alerts = s.alerts /\ p.telemetry = s.telemetry
        /\ p.monitoring = s.monitoring /\ p.model = s.model /\ p.domains = AffectedDomains(s)
    BY DEF Enriched
  <1>2. p.numeric = s.numeric
    BY DEF Enriched
  <1>3. DependencyScan(s) \in {"none", "advisory", "clean"}
    BY DEF DependencyScan
  <1> HIDE DEF p
  <1>4. p.monitoring = "unavailable" => "production" \in p.domains /\ p.numeric
    BY <1>1, <1>2, SourceFacts, AffectedFacts
  <1>5. WellMade(p)
    BY <1>1, <1>3, <1>4, SourceFacts, FilesFacts, AffectedFacts DEF WellMade
  <1> QED BY <1>5 DEF p

LEMMA FailedIsWellMade == \A s \in Sources : WellMade(FailedEnrichment(s))
  <1> SUFFICES ASSUME NEW s \in Sources PROVE WellMade(FailedEnrichment(s))
    OBVIOUS
  <1> DEFINE p == FailedEnrichment(s)
  <1>1. /\ p.files = NoFiles /\ p.ci = "unknown" /\ p.docs = "none" /\ p.scan = "none"
        /\ p.alerts = 0 /\ p.telemetry = 0 /\ p.model = s.model /\ p.domains = {"code"}
    BY DEF FailedEnrichment
  <1> HIDE DEF p
  <1>2. WellMade(p)
    BY <1>1, SourceFacts DEF WellMade, NoFiles, CIOutcomes, Domains
  <1> QED BY <1>2 DEF p

-----------------------------------------------------------------------------
(* Shards. *)

Wording == {"none", "failed", "observed", "nothing", "no_changes", "unavailable",
            "observed_unavailable", "causal"}
ShardTypes == [claim : Wording, confidence : 0..100]

\* The most a worker can be confident of, and less with bad news.
LEMMA SurfaceBounds ==
    ASSUME NEW p, WellMade(p) PROVE SurfaceConfidence(p.files) \in 0..85
  <1> DEFINE c == 85 - Lesser(30, 5 * p.files.n) - When("auth" \in p.files.kinds, 15)
                     - When(p.files.kinds \cap {"core", "infra"} # {}, 10)
  <1>1. p.files.n \in Nat
    BY DEF WellMade
  <1>2. Lesser(30, 5 * p.files.n) \in Nat
    BY <1>1 DEF Lesser
  <1>3. c \in Int /\ c <= 85
    BY <1>2 DEF When
  <1>4. SurfaceConfidence(p.files) = Within(0, c, 100)
    BY DEF SurfaceConfidence
  <1> HIDE DEF c
  <1>5. Within(0, c, 100) \in 0..85
    BY <1>3 DEF Within, Lesser
  <1> QED BY <1>4, <1>5

LEMMA PreFlightBounds ==
    ASSUME NEW p, WellMade(p)
    PROVE  /\ PreFlightConfidence(p) \in 30..100
           /\ "manifest" \in p.files.kinds => PreFlightConfidence(p) <= 88
  <1> DEFINE less == Lesser(15, 2 * p.files.n)
             auth == When(p.files.kinds \cap {"auth", "secret"} # {}, 12)
             untested == When(p.files.kinds \cap TestFiles = {} /\ p.files.n > 2, 8)
             easy == When(p.files.n > 0 /\ p.files.kinds \subseteq LowRiskFiles, 5)
             words == When(RiskWords(p), 10)
             c == 90 - less - auth - untested + easy - words
  <1>1. p.files.n \in Nat /\ ("manifest" \in p.files.kinds => p.files.n >= 1)
    BY DEF WellMade
  <1>2. less \in Nat /\ ("manifest" \in p.files.kinds => less >= 2)
    BY <1>1 DEF Lesser
  <1>3. auth \in {0, 12} /\ untested \in {0, 8} /\ words \in {0, 10}
    BY DEF When
  <1>4. easy \in {0, 5} /\ ("manifest" \in p.files.kinds => easy = 0)
    BY DEF When, LowRiskFiles
  <1>5. PreFlightConfidence(p) = Within(30, c, 100)
    BY DEF PreFlightConfidence
  <1> HIDE DEF less, auth, untested, easy, words
  <1>6. c \in Int /\ ("manifest" \in p.files.kinds => c <= 88)
    BY <1>2, <1>3, <1>4
  <1> HIDE DEF c
  <1> QED BY <1>5, <1>6 DEF Within, Lesser

LEMMA SignalBounds ==
    ASSUME NEW p, NEW count \in Nat PROVE SignalConfidence(p, count) \in 0..90
  <1>1. Within(30, 90 - 10 * count, 90) \in 0..90
    BY DEF Within, Lesser
  <1> QED BY <1>1 DEF SignalConfidence

LEMMA ShardFacts ==
    ASSUME NEW p, WellMade(p), NEW w \in Workers
    PROVE  /\ ShardOf(w, p) \in ShardTypes
           /\ ShardOf(w, p).claim \notin {"none", "failed"}
  <1>1. CASE w = "pr-pre-flight-ast-worker"
    <2>1. CodeClaim(p) \in Wording \ {"none", "failed"}
      BY DEF CodeClaim, WellMade, Wording
    <2>2. PreFlightConfidence(p) \in 0..100
      BY PreFlightBounds
    <2>3. ShardOf(w, p) = [claim |-> CodeClaim(p), confidence |-> PreFlightConfidence(p)]
      BY <1>1 DEF ShardOf
    <2> QED BY <2>1, <2>2, <2>3 DEF ShardTypes
  <1>2. CASE w = "docs-drift-and-spec-worker"
    <2>1. DocsClaim(p) \in Wording \ {"none", "failed"} /\ DocsConfidence(p) \in 0..100
      BY DEF DocsClaim, DocsConfidence, WellMade, Wording
    <2>2. ShardOf(w, p) = [claim |-> DocsClaim(p), confidence |-> DocsConfidence(p)]
      BY <1>2 DEF ShardOf
    <2> QED BY <2>1, <2>2 DEF ShardTypes
  <1>3. CASE w = "build-log-and-flakiness-worker"
    <2> DEFINE c == IF p.ci = "unknown" THEN "nothing" ELSE "observed"
    <2>1. c \in Wording \ {"none", "failed"}
      BY DEF Wording
    <2>2. BuildConfidence(p) \in 0..100
      BY SurfaceBounds DEF BuildConfidence
    <2>3. ShardOf(w, p) = [claim |-> c, confidence |-> BuildConfidence(p)]
      BY <1>3 DEF ShardOf
    <2> QED BY <2>1, <2>2, <2>3 DEF ShardTypes
  <1>4. \A count \in Nat : /\ SignalClaim(p, count) \in Wording \ {"none", "failed"}
                           /\ SignalConfidence(p, count) \in 0..100
    BY SignalBounds DEF SignalClaim, Wording
  <1>5. CASE w = "alert-storm-clustering-worker"
    <2>1. ShardOf(w, p) = [claim |-> SignalClaim(p, p.alerts),
                           confidence |-> SignalConfidence(p, p.alerts)]
      BY <1>5 DEF ShardOf
    <2> QED BY <1>4, <2>1 DEF WellMade, ShardTypes
  <1>6. CASE w = "telemetry-correlation-worker"
    <2>1. ShardOf(w, p) = [claim |-> SignalClaim(p, p.telemetry),
                           confidence |-> SignalConfidence(p, p.telemetry)]
      BY <1>6 DEF ShardOf
    <2> QED BY <1>4, <2>1 DEF WellMade, ShardTypes
  <1>7. CASE w = "security-and-dependency-worker"
    <2> DEFINE c == IF p.scan = "none" THEN "nothing" ELSE "observed"
    <2>1. c \in Wording \ {"none", "failed"}
      BY DEF Wording
    <2>2. SecurityConfidence(p) \in 0..100
      BY SurfaceBounds DEF SecurityConfidence
    <2>3. ShardOf(w, p) = [claim |-> c, confidence |-> SecurityConfidence(p)]
      BY <1>7 DEF ShardOf
    <2> QED BY <2>1, <2>2, <2>3 DEF ShardTypes
  <1> QED BY <1>1, <1>2, <1>3, <1>5, <1>6, <1>7 DEF Workers, WorkersOf, Domains

-----------------------------------------------------------------------------
(* What the validator makes of them. *)

\* A situation no step of the reducer can misread: it is on the scale the policy
\* was proved for, and the outage and the bad news are still to be seen in it.
Met ==
    /\ situation \in SituationsOver(0..100, 0..100)
    /\ Validated(situation)
    /\ payload.monitoring = "unavailable" => situation.unavailable \/ ~Established(situation)
    /\ payload.ci = "fail" \/ payload.scan = "advisory" => situation.confidence <= 69

Paid ==
    IF stage = "received" THEN payload = NoPayload
                          ELSE payload \in {Enriched(sources), FailedEnrichment(sources)}

\* A worker says what its context shows, or has failed on it.
WorkersHonest ==
    /\ shards \in [Workers -> ShardTypes]
    /\ \A w \in Workers :
          \/ shards[w] = NoShard
          \/ /\ stage # "received"
             /\ shards[w] = IF Raises(w, payload) THEN FailedShard ELSE ShardOf(w, payload)

Decided ==
    /\ stage # "decided" => verdict = "none"
    /\ stage = "decided" => verdict = "refused" \/ verdict = AutonomyClass(situation)
    /\ stage = "validated" \/ (stage = "decided" /\ verdict # "refused") => Met

\* The inductive invariant.
Kept ==
    /\ sources \in Sources
    /\ stage \in {"received", "working", "validated", "decided"}
    /\ Paid /\ WorkersHonest /\ Decided

LEMMA PayloadIsWellMade == ASSUME Kept, stage # "received" PROVE WellMade(payload)
  BY EnrichedIsWellMade, FailedIsWellMade DEF Kept, Paid

LEMMA WorkersFinite == IsFiniteSet(Workers)
  <1> DEFINE code == {"pr-pre-flight-ast-worker"} \cup {"docs-drift-and-spec-worker"}
             delivery == {"build-log-and-flakiness-worker"}
                         \cup {"alert-storm-clustering-worker"}
             production == {"telemetry-correlation-worker"}
                           \cup {"security-and-dependency-worker"}
  <1>1. Workers = code \cup delivery \cup production
    BY DEF Workers, WorkersOf, Domains
  <1>2. IsFiniteSet(code) /\ IsFiniteSet(delivery) /\ IsFiniteSet(production)
    <2>1. ASSUME NEW v, NEW w PROVE IsFiniteSet({v} \cup {w})
      <3>1. IsFiniteSet({v}) /\ IsFiniteSet({w})
        BY FS_Singleton
      <3> QED BY <3>1, FS_Union
    <2> QED BY <2>1
  <1> HIDE DEF code, delivery, production
  <1> QED BY <1>1, <1>2, FS_Union

\* When all have answered, a domain's manager got the shard of every worker of
\* the domain that did not raise.
LEMMA EmittedFacts ==
    ASSUME Kept, Collected, NEW d \in payload.domains
    PROVE  /\ Emitted(d) = {w \in WorkersOf[d] : ~Raises(w, payload)}
           /\ Emitted(d) \subseteq Workers
           /\ \A w \in Emitted(d) : /\ shards[w] = ShardOf(w, payload)
                                    /\ shards[w].confidence \in 0..100
  <1>1. WellMade(payload) /\ d \in Domains
    BY PayloadIsWellMade DEF Collected, WellMade
  <1>2. WorkersOf[d] \subseteq Workers /\ WorkersOf[d] \subseteq SelectedWorkers(payload)
    BY <1>1 DEF Workers, SelectedWorkers
  <1>3. \A w \in WorkersOf[d] :
            /\ shards[w] = IF Raises(w, payload) THEN FailedShard ELSE ShardOf(w, payload)
            /\ shards[w].confidence \in 0..100
    BY <1>2 DEF Kept, WorkersHonest, Collected, ShardTypes
  <1>4. \A w \in WorkersOf[d] : ShardOf(w, payload) \notin {NoShard, FailedShard}
    BY <1>1, <1>2, ShardFacts DEF NoShard, FailedShard
  <1> QED BY <1>2, <1>3, <1>4 DEF Emitted, NoShard, FailedShard

\* The weakest shard speaks for its domain.
LEMMA FindingFacts ==
    ASSUME Kept, Collected, NEW d \in ProvidedDomains
    PROVE  /\ FindingConfidence(d) \in 0..100
           /\ \A w \in Emitted(d) : FindingConfidence(d) <= ShardOf(w, payload).confidence
  <1> DEFINE T == {shards[w].confidence : w \in Emitted(d)}
  <1>1. d \in payload.domains /\ Emitted(d) # {}
    BY DEF ProvidedDomains
  <1>2. T \subseteq 0..100 /\ T # {}
    BY <1>1, EmittedFacts
  <1>3. \E c \in T : \A t \in T : c <= t
    <2> HIDE DEF T
    <2>1. T \subseteq Nat
      BY <1>2
    <2> QED BY <1>2, <2>1, LeastExists
  <1>4. \E c \in T : \A w \in Emitted(d) : c <= shards[w].confidence
    BY <1>3
  <1>5. FindingConfidence(d) = CHOOSE c \in T : \A w \in Emitted(d) : c <= shards[w].confidence
    BY DEF FindingConfidence
  <1>6. FindingConfidence(d) \in T
        /\ \A w \in Emitted(d) : FindingConfidence(d) <= shards[w].confidence
    <2> HIDE DEF T
    <2> QED BY <1>4, <1>5
  <1> QED BY <1>1, <1>2, <1>6, EmittedFacts

\* Code always reaches the validator, and in each domain some worker is never
\* sure of more than 90 and never raises; with bad news, of far less.
LEMMA DomainBounds ==
    ASSUME Kept, Collected
    PROVE  /\ ProvidedDomains \subseteq payload.domains /\ ProvidedDomains \subseteq Domains
           /\ "code" \in ProvidedDomains /\ FindingConfidence("code") \in 0..90
           /\ "manifest" \in payload.files.kinds => FindingConfidence("code") <= 88
           /\ "delivery" \in payload.domains =>
                 /\ "delivery" \in ProvidedDomains /\ FindingConfidence("delivery") \in 0..90
                 /\ payload.ci = "fail" => FindingConfidence("delivery") <= 20
           /\ "production" \in payload.domains =>
                 /\ "production" \in ProvidedDomains /\ FindingConfidence("production") \in 0..90
                 /\ payload.scan = "advisory" => FindingConfidence("production") <= 30
  <1>1. WellMade(payload)
    BY PayloadIsWellMade DEF Collected
  <1>2. ProvidedDomains \subseteq payload.domains /\ ProvidedDomains \subseteq Domains
    BY <1>1 DEF ProvidedDomains, WellMade
  <1>3. ASSUME NEW d \in payload.domains, NEW w \in WorkersOf[d],
               w # "telemetry-correlation-worker"
        PROVE  /\ d \in ProvidedDomains /\ FindingConfidence(d) \in 0..100
               /\ FindingConfidence(d) <= ShardOf(w, payload).confidence
    <2>1. w \in Emitted(d)
      BY <1>3, EmittedFacts DEF Raises
    <2>2. d \in ProvidedDomains
      BY <2>1 DEF ProvidedDomains
    <2> QED BY <2>1, <2>2, FindingFacts
  <1>4. /\ "code" \in ProvidedDomains /\ FindingConfidence("code") \in 0..90
        /\ "manifest" \in payload.files.kinds => FindingConfidence("code") <= 88
    <2>1. "docs-drift-and-spec-worker" \in WorkersOf["code"]
          /\ "pr-pre-flight-ast-worker" \in WorkersOf["code"]
      BY DEF WorkersOf
    <2>2. ShardOf("docs-drift-and-spec-worker", payload).confidence \in 0..90
      BY DEF ShardOf, DocsConfidence
    <2>3. ShardOf("pr-pre-flight-ast-worker", payload).confidence = PreFlightConfidence(payload)
      BY DEF ShardOf
    <2>4. "code" \in payload.domains
      BY <1>1 DEF WellMade
    <2> QED BY <1>1, <1>3, <2>1, <2>2, <2>3, <2>4, PreFlightBounds
  <1>5. ASSUME "delivery" \in payload.domains
        PROVE  /\ "delivery" \in ProvidedDomains /\ FindingConfidence("delivery") \in 0..90
               /\ payload.ci = "fail" => FindingConfidence("delivery") <= 20
    <2>1. "build-log-and-flakiness-worker" \in WorkersOf["delivery"]
      BY DEF WorkersOf
    <2>2. ShardOf("build-log-and-flakiness-worker", payload).confidence = BuildConfidence(payload)
      BY DEF ShardOf
    <2>3. /\ BuildConfidence(payload) \in 0..90
          /\ payload.ci = "fail" => BuildConfidence(payload) = 20
      BY <1>1, SurfaceBounds DEF BuildConfidence
    <2> QED BY <1>3, <1>5, <2>1, <2>2, <2>3
  <1>6. ASSUME "production" \in payload.domains
        PROVE  /\ "production" \in ProvidedDomains /\ FindingConfidence("production") \in 0..90
               /\ payload.scan = "advisory" => FindingConfidence("production") <= 30
    <2>1. "security-and-dependency-worker" \in WorkersOf["production"]
      BY DEF WorkersOf
    <2>2. ShardOf("security-and-dependency-worker", payload).confidence
            = SecurityConfidence(payload)
      BY DEF ShardOf
    <2>3. /\ SecurityConfidence(payload) \in 0..90
          /\ payload.scan = "advisory" => SecurityConfidence(payload) = 30
      BY <1>1, SurfaceBounds DEF SecurityConfidence
    <2> QED BY <1>3, <1>6, <2>1, <2>2, <2>3
  <1> QED BY <1>2, <1>4, <1>5, <1>6

\* The rounded mean of the selected domains, with bad news among them.
LEMMA BadNewsIsLow ==
    ASSUME Kept, Collected, payload.ci = "fail" \/ payload.scan = "advisory",
           NEW q \in SituationConfidences
    PROVE  q <= 69
  <1> DEFINE code == When("code" \in ProvidedDomains, FindingConfidence("code"))
             delivery == When("delivery" \in ProvidedDomains, FindingConfidence("delivery"))
             production == When("production" \in ProvidedDomains,
                                FindingConfidence("production"))
             n == Cardinality(ProvidedDomains)
  <1>1. q \in Averages(code + delivery + production, n)
    BY DEF SituationConfidences
  <1>2. WellMade(payload)
    BY PayloadIsWellMade DEF Collected
  <1>3. /\ payload.ci = "fail" => "delivery" \in ProvidedDomains /\ delivery \in 0..20
        /\ payload.scan = "advisory" =>
              "production" \in ProvidedDomains /\ production \in 0..30 /\ code <= 88
        /\ code \in 0..90 /\ "code" \in ProvidedDomains
    BY <1>2, DomainBounds DEF WellMade, When
  <1>4. /\ delivery \in 0..90 /\ ("delivery" \notin ProvidedDomains => delivery = 0)
        /\ production \in 0..90 /\ ("production" \notin ProvidedDomains => production = 0)
    BY DomainBounds DEF When
  <1>5. n = 1 + When("delivery" \in ProvidedDomains, 1) + When("production" \in ProvidedDomains, 1)
    BY <1>3, DomainBounds, DomainsCounted DEF When
  <1> HIDE DEF code, delivery, production, n
  <1>6. \/ n = 3
        \/ n = 2 /\ payload.ci = "fail" /\ production = 0
        \/ n = 2 /\ payload.scan = "advisory" /\ delivery = 0
    BY <1>2, <1>3, <1>4, <1>5, DomainBounds DEF WellMade, When
  <1>7. code + delivery + production <= 208 /\ (n = 2 => code + delivery + production <= 118)
    BY <1>3, <1>4, <1>6
  <1>8. /\ q \in 0..100 /\ code + delivery + production \in Nat
        /\ 2 * (n * q - (code + delivery + production)) <= n
    <2> DEFINE total == code + delivery + production
    <2>1. total \in Nat /\ n # 0
      BY <1>3, <1>4, <1>6
    <2>2. q \in Averages(total, n)
      BY <1>1
    <2> HIDE DEF total
    <2>3. q \in 0..100 /\ 2 * (n * q - total) <= n
      BY <2>1, <2>2 DEF Averages
    <2> QED BY <2>1, <2>3 DEF total
  <1>9. CASE n = 3
    BY <1>7, <1>8, <1>9
  <1>10. CASE n = 2
    BY <1>7, <1>8, <1>10
  <1> QED BY <1>6, <1>9, <1>10

\* The evidence strength is a share.
LEMMA StrengthBounds == ASSUME Kept, Collected PROVE EvidenceStrength \in 0..100
  <1> DEFINE P == ProvidedDomains
             emitted == UNION {Emitted(d) : d \in ProvidedDomains}
             O == {d \in ProvidedDomains : \E w \in Emitted(d) : ObservedByFinding(w)}
             Q == {w \in emitted : ObservedByShard(w)}
             total == Cardinality(P) + Cardinality(emitted)
             observed == Cardinality(O) + Cardinality(Q)
  <1>1. EvidenceStrength = IF total = 0 THEN 0 ELSE HalfEven(100 * observed, total)
    BY DEF EvidenceStrength
  <1>2. P \subseteq Domains /\ emitted \subseteq Workers
    BY DomainBounds, EmittedFacts
  <1>3. O \subseteq P /\ Q \subseteq emitted
    OBVIOUS
  <1> HIDE DEF P, emitted, O, Q
  <1>4. IsFiniteSet(P) /\ IsFiniteSet(emitted)
    BY <1>2, DomainsCounted, WorkersFinite, FS_Subset
  <1>5. /\ Cardinality(O) \in Nat /\ Cardinality(P) \in Nat /\ Cardinality(O) <= Cardinality(P)
        /\ Cardinality(Q) \in Nat /\ Cardinality(emitted) \in Nat
        /\ Cardinality(Q) <= Cardinality(emitted)
    BY <1>3, <1>4, FS_Subset, FS_CardinalityType
  <1>6. observed \in Nat /\ total \in Nat /\ observed <= total
    BY <1>5
  <1> HIDE DEF observed, total
  <1> QED BY <1>1, <1>6, HalfEvenBounds

\* An outage leaves code alone, which corroborates nothing, or is claimed by the
\* telemetry worker.
LEMMA OutageIsClaimed ==
    ASSUME Kept, Collected, payload.monitoring = "unavailable"
    PROVE  ~Corroborated \/ "unavailable" \in Claims
  <1>1. WellMade(payload)
    BY PayloadIsWellMade DEF Collected
  <1>2. CASE payload.domains = {"code"}
    <2>1. Cardinality(ProvidedDomains) = 1
      BY <1>2, DomainBounds, DomainsCounted DEF When
    <2> QED BY <2>1 DEF Corroborated
  <1>3. CASE "production" \in payload.domains /\ payload.numeric
    <2> DEFINE w == "telemetry-correlation-worker"
    <2>1. w \in Emitted("production")
      BY <1>3, EmittedFacts DEF WorkersOf, Raises
    <2>2. shards[w] = ShardOf(w, payload)
      BY <1>3, <2>1, EmittedFacts
    <2>3. ShardOf(w, payload).claim = "unavailable"
      BY DEF ShardOf, SignalClaim, MonitoringUnavailable
    <2>4. "production" \in ProvidedDomains
      BY <1>3, DomainBounds
    <2> QED BY <2>1, <2>2, <2>3, <2>4 DEF Claims
  <1> QED BY <1>1, <1>2, <1>3 DEF WellMade

LEMMA ValidatorMeets ==
    ASSUME Kept, Collected, NEW s \in ValidatedSituations
    PROVE  /\ s \in SituationsOver(0..100, 0..100)
           /\ Validated(s)
           /\ payload.monitoring = "unavailable" => s.unavailable \/ ~Established(s)
           /\ payload.ci = "fail" \/ payload.scan = "advisory" => s.confidence <= 69
  <1>1. /\ s.selected = payload.domains /\ s.provided = ProvidedDomains
        /\ s.confidence \in SituationConfidences /\ s.strength = EvidenceStrength
        /\ s.causality \in CausalitySet /\ s.conflict = FALSE /\ s.gap = FALSE
        /\ s.unavailable = (Claims \cap {"unavailable", "observed_unavailable"} # {})
        /\ s.contradictory = FALSE /\ s.credibleRisk \in CredibleRisks
    BY DEF ValidatedSituations
  <1>2. payload.domains \in (SUBSET Domains) \ {{}}
    BY PayloadIsWellMade DEF Collected, WellMade
  <1>3. SituationConfidences \subseteq 0..100
    BY DEF SituationConfidences, Averages
  <1>4. /\ CausalitySet \subseteq Causalities
        /\ s.causality \in EstablishedCausality <=> Corroborated
    BY <1>1 DEF CausalitySet, Causalities, EstablishedCausality
  <1>5. CredibleRisks \subseteq BOOLEAN
    BY DEF CredibleRisks
  <1>6. s \in SituationsOver(0..100, 0..100)
    <2>1. s \in [selected : {payload.domains}, provided : {ProvidedDomains},
                 confidence : SituationConfidences, strength : {EvidenceStrength},
                 causality : CausalitySet, conflict : {FALSE}, gap : {FALSE},
                 unavailable : {Claims \cap {"unavailable", "observed_unavailable"} # {}},
                 contradictory : {FALSE}, credibleRisk : CredibleRisks]
      BY DEF ValidatedSituations
    <2>2. (Claims \cap {"unavailable", "observed_unavailable"} # {}) \in BOOLEAN
      OBVIOUS
    <2> QED BY <1>2, <1>3, <1>4, <1>5, <2>1, <2>2, DomainBounds, StrengthBounds
            DEF SituationsOver
  <1>7. Validated(s)
    BY <1>1, <1>4, DomainBounds DEF Validated, Corroborated
  <1>8. payload.monitoring = "unavailable" => s.unavailable \/ ~Established(s)
    BY <1>1, <1>4, OutageIsClaimed DEF Established
  <1> QED BY <1>1, <1>6, <1>7, <1>8, BadNewsIsLow

-----------------------------------------------------------------------------
(* Every step keeps it. *)

LEMMA EnrichKeeps == ASSUME Kept, Enrich PROVE Kept'
  <1>1. \A w \in Workers : shards[w] = NoShard
    BY DEF Kept, WorkersHonest, Enrich
  <1>2. Paid'
    BY DEF Enrich, Paid, Enriched, FailedEnrichment, ChangedFiles, DependencyScan,
           AffectedDomains, ClassifiedDomains
  <1>3. WorkersHonest'
    BY <1>1 DEF Kept, Enrich, WorkersHonest
  <1>4. Decided'
    BY DEF Kept, Enrich, Decided
  <1> QED BY <1>2, <1>3, <1>4 DEF Kept, Enrich

LEMMA WorkerKeeps ==
    ASSUME Kept, NEW w \in Workers, Emit(w) \/ Raise(w) PROVE Kept'
  <1> DEFINE s == IF Raises(w, payload) THEN FailedShard ELSE ShardOf(w, payload)
  <1>1. /\ stage = "working" /\ shards' = [shards EXCEPT ![w] = s]
        /\ UNCHANGED <<sources, payload, situation, verdict, stage>>
    BY DEF Emit, Raise
  <1>2. s \in ShardTypes
    BY <1>1, PayloadIsWellMade, ShardFacts DEF FailedShard, ShardTypes, Wording
  <1>3. WorkersHonest'
    <2> HIDE DEF s
    <2>1. shards' \in [Workers -> ShardTypes]
      BY <1>1, <1>2 DEF Kept, WorkersHonest
    <2>2. shards'[w] = s
      BY <1>1 DEF Kept, WorkersHonest
    <2>3. ASSUME NEW v \in Workers
          PROVE  \/ shards'[v] = NoShard
                 \/ shards'[v] = IF Raises(v, payload) THEN FailedShard ELSE ShardOf(v, payload)
      <3>1. CASE v = w
        BY <2>2, <3>1 DEF s
      <3>2. CASE v # w
        <4>1. shards'[v] = shards[v]
          BY <1>1, <3>2 DEF Kept, WorkersHonest
        <4> QED BY <4>1 DEF Kept, WorkersHonest
      <3> QED BY <3>1, <3>2
    <2>4. payload' = payload /\ stage' # "received"
      BY <1>1
    <2> QED BY <2>1, <2>3, <2>4 DEF WorkersHonest
  <1>4. Paid' /\ Decided'
    BY <1>1 DEF Kept, Paid, Decided
  <1> QED BY <1>1, <1>3, <1>4 DEF Kept

LEMMA ValidateKeeps == ASSUME Kept, Validate PROVE Kept'
  <1>1. /\ Collected /\ situation' \in ValidatedSituations /\ stage' = "validated"
        /\ stage = "working" /\ UNCHANGED <<sources, payload, shards, verdict>>
    BY DEF Validate, Collected
  <1>2. Met'
    BY <1>1, ValidatorMeets DEF Met
  <1>3. Decided'
    BY <1>1, <1>2 DEF Kept, Decided
  <1>4. Paid' /\ WorkersHonest'
    BY <1>1 DEF Kept, Paid, WorkersHonest
  <1> QED BY <1>1, <1>3, <1>4 DEF Kept

LEMMA RefuseKeeps == ASSUME Kept, Refuse PROVE Kept'
  <1>1. /\ stage = "working" /\ stage' = "decided" /\ verdict' = "refused"
        /\ UNCHANGED <<sources, payload, shards, situation>>
    BY DEF Refuse, Collected
  <1> QED BY <1>1 DEF Kept, Paid, WorkersHonest, Decided

LEMMA ReduceKeeps == ASSUME Kept, Reduce PROVE Kept'
  <1>1. /\ stage = "validated" /\ stage' = "decided" /\ verdict' = AutonomyClass(situation)
        /\ UNCHANGED <<sources, payload, shards, situation>>
    BY DEF Reduce
  <1>2. Met'
    BY <1>1 DEF Kept, Decided, Met
  <1>3. Decided'
    BY <1>1, <1>2 DEF Decided
  <1>4. Paid' /\ WorkersHonest'
    BY <1>1 DEF Kept, Paid, WorkersHonest
  <1> QED BY <1>1, <1>3, <1>4 DEF Kept

LEMMA InitKeeps == Init => Kept
  <1> SUFFICES ASSUME Init PROVE Kept
    OBVIOUS
  <1>1. NoShard \in ShardTypes
    BY DEF NoShard, ShardTypes, Wording
  <1> QED BY <1>1 DEF Init, Kept, Paid, WorkersHonest, Decided

LEMMA NextKeeps == ASSUME Kept, [Next]_vars PROVE Kept'
  <1>1. CASE UNCHANGED vars
    BY <1>1 DEF vars, Kept, Paid, WorkersHonest, Decided, Met
  <1> QED BY <1>1, EnrichKeeps, WorkerKeeps, ValidateKeeps, RefuseKeeps, ReduceKeeps DEF Next

LEMMA AlwaysKept == Spec => []Kept
  BY InitKeeps, NextKeeps, PTL DEF Spec

-----------------------------------------------------------------------------
(* Theorems. *)

\* The flow keeps its types: the payload is what the enrichment made of the
\* sources, each shard is on the scale, and the verdict is one of the reducer's.
THEOREM TypeCorrect == Spec => []TypeOK
  <1>1. Kept => TypeOK
    <2> SUFFICES ASSUME Kept PROVE TypeOK
      OBVIOUS
    <2>1. payload \in {NoPayload, Enriched(sources), FailedEnrichment(sources)}
      BY DEF Kept, Paid
    <2>2. AutonomyClass(situation) \in AutonomyClasses
      BY DEF AutonomyClass, AutonomyClasses
    <2>3. verdict \in AutonomyClasses \cup {"none", "refused"}
      BY <2>2 DEF Kept, Decided
    <2>4. shards \in [Workers -> ShardTypes]
      BY DEF Kept, WorkersHonest
    <2> QED BY <2>1, <2>3, <2>4 DEF Kept, TypeOK, ShardTypes, Wording
  <1> QED BY <1>1, AlwaysKept, PTL

\* What leaves the validator is what the reducer was proved for, whatever the
\* sources answered, the model wrote, and the workers failed on.
THEOREM ValidatorServesReducer == Spec => []ValidatorMeetsReducer
  <1>1. Kept => ValidatorMeetsReducer
    BY DEF Kept, Decided, Met, ValidatorMeetsReducer
  <1> QED BY <1>1, AlwaysKept, PTL

\* No pull request is green while monitoring could not be assessed.
THEOREM OutageIsHeld == Spec => []MonitoringOutageNeverGreen
  <1>1. Kept => MonitoringOutageNeverGreen
    BY UnassessedIsHeld
       DEF Kept, Decided, Met, MonitoringOutageNeverGreen, Green
  <1> QED BY <1>1, AlwaysKept, PTL

\* No average makes a failing build or a known advisory green.
THEOREM BadNewsIsHeld == Spec => []BadNewsNeverGreen
  <1>1. Kept => BadNewsNeverGreen
    <2> SUFFICES ASSUME Kept, payload.ci = "fail" \/ payload.scan = "advisory", Green
                 PROVE  FALSE
      BY DEF BadNewsNeverGreen
    <2>1. Met /\ AutonomyClass(situation) = "safe_autonomous"
      BY DEF Kept, Decided, Green
    <2>2. situation.confidence \in 0..69 /\ situation.strength \in 0..100
      BY <2>1 DEF Met, SituationsOver
    <2> QED BY <2>1, <2>2, LowAverageIsHeld
  <1> QED BY <1>1, AlwaysKept, PTL
===============================================================================
