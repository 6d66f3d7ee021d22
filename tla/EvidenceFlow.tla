----------------------------- MODULE EvidenceFlow ------------------------------
(***************************************************************************)
(* One webhook event on its way from the sources to the reducer:           *)
(*   enrichment.py       what GitHub, GitBook and the search answer        *)
(*   acquisition.py      the domains and workers of the coverage plan      *)
(*   worker_contexts.py  what each worker gets to see                      *)
(*   workers.py          six workers in a thread pool, one shard each      *)
(*   domain_managers.py  the findings, one per domain                      *)
(*   validator.py        the ValidatedSituation                            *)
(* and the reducer of AutonomyPolicy at the end.                           *)
(*                                                                         *)
(* A changed file is its kind: what the path predicates of acquisition.py, *)
(* enrichment.py and workers.py see in its name.  A claim is its wording:  *)
(* what the phrase lists of the tiers see in its text.  Confidences are in *)
(* hundredths.                                                             *)
(***************************************************************************)
EXTENDS EvidenceRules

CONSTANTS Changesets,   \* the changesets a pull request may have
          MaxSignals,   \* bound on alerts and on telemetry signals
          ModelWording  \* how Gemini may word the code claim; {"off"} without it

\* Kinds of changed files, by the predicates they satisfy; a key below docker/
\* is also documentation and low-risk, for its name begins with "doc".
DeliveryPaths == {"workflow", "infra", "dockerkey"}
ProductionPaths == {"auth", "secret", "dockerkey"}
Manifests == {"manifest"}
DocFiles == {"doc", "dockerkey"}
TestFiles == {"test"}
LowRiskFiles == {"test", "doc", "dockerkey"}
FileKinds == {"source", "core"} \cup DeliveryPaths \cup ProductionPaths
             \cup Manifests \cup DocFiles \cup TestFiles

ASSUME ChangesetsAssumption ==
    \A c \in Changesets : c \in [n : Nat, kinds : SUBSET FileKinds]
                          /\ Cardinality(c.kinds) <= c.n
                          /\ (c.n = 0 <=> c.kinds = {})
ASSUME MaxSignalsAssumption == MaxSignals \in Nat
ASSUME WordingAssumption ==
    ModelWording \subseteq {"off", "plain", "risky", "nothing", "unavailable", "causal"}

NoFiles == [n |-> 0, kinds |-> {}]

VARIABLES sources,    \* what the systems of record would answer
          payload,    \* the enriched payload
          shards,     \* what became of each worker
          situation,  \* the ValidatedSituation
          verdict,    \* autonomy class, or "refused" by the validator
          stage

vars == <<sources, payload, shards, situation, verdict, stage>>

-----------------------------------------------------------------------------
(* The sources and the enrichment. *)

CIOutcomes == {"pass", "fail", "unknown"}  \* of the check runs and statuses

\* The summary of GitBook or of the documentation files; the name of a file may
\* bring the word "updated" or a causal phrase into it.
DocsSummary(s) ==
    /\ s.docs \in {"updated", "causal"} => s.filesAnswer /\ s.files.kinds \cap DocFiles # {}
    /\ s.docs = "none" => ~s.filesAnswer \/ s.files.kinds \cap DocFiles = {}

\* The incident search returns what a model wrote: nobody checks that telemetry
\* is numbers.
IncidentSearch(s) == s.telemetry = 0 => s.numeric

\* A search that failed has no signals.
MonitoringSignals(s) == s.monitoring = "unavailable" => s.alerts = 0 /\ s.telemetry = 0

Sources ==
    {s \in [files : Changesets, filesAnswer : BOOLEAN, ci : CIOutcomes,
            docs : {"none", "clean", "drift", "updated", "causal"},
            advisories : {"clean", "advisory", "failed"}, monitoring : {"ok", "unavailable"},
            alerts : 0..MaxSignals, telemetry : 0..MaxSignals, numeric : BOOLEAN,
            model : ModelWording] :
        /\ s.files # NoFiles
        /\ s.files.kinds \cap Manifests = {} => s.advisories = "clean"
        /\ DocsSummary(s)
        /\ IncidentSearch(s)
        /\ MonitoringSignals(s)}

\* A request that fails leaves no changed files, and no sign of it.
ChangedFiles(s) == IF s.filesAnswer THEN s.files ELSE NoFiles

\* The advisory scan of the manifests; a failed query is "verified clean".
DependencyScan(s) ==
    IF ChangedFiles(s).kinds \cap Manifests = {} THEN "none"
    ELSE IF s.advisories = "advisory" THEN "advisory"
    ELSE "clean"

\* classify_changed_files_domains: code, and what the paths touch.
ClassifiedDomains(files) ==
    {"code"} \cup (IF files.kinds \cap DeliveryPaths # {} THEN {"delivery"} ELSE {})
             \cup (IF files.kinds \cap ProductionPaths # {} THEN {"production"} ELSE {})

AffectedDomains(s) ==
    ClassifiedDomains(ChangedFiles(s))
    \cup (IF s.ci # "unknown" THEN {"delivery"} ELSE {})
    \cup (IF s.monitoring = "unavailable" \/ DependencyScan(s) # "none"
          THEN {"production"} ELSE {})

Enriched(s) ==
    [files |-> ChangedFiles(s), ci |-> s.ci, docs |-> s.docs,
     scan |-> DependencyScan(s), alerts |-> s.alerts, telemetry |-> s.telemetry,
     numeric |-> s.numeric, monitoring |-> s.monitoring, model |-> s.model,
     domains |-> AffectedDomains(s)]

\* What enrich_payload makes of an exception.
FailedEnrichment(s) ==
    [files |-> NoFiles, ci |-> "unknown", docs |-> "none", scan |-> "none",
     alerts |-> 0, telemetry |-> 0, numeric |-> TRUE, monitoring |-> "unavailable",
     model |-> s.model, domains |-> {"code"}]

-----------------------------------------------------------------------------
(* Contexts and workers. *)

SelectedWorkers(p) == UNION {WorkersOf[d] : d \in p.domains}

\* Fault for the checks: the monitoring state is not forwarded to the workers.
MonitoringUnavailable_NotForwarded(p) == FALSE

MonitoringUnavailable(p) == p.monitoring = "unavailable"

Within(low, c, high) == IF c < low THEN low ELSE Lesser(c, high)

\* Worker._confidence: the surface of the changeset.
SurfaceConfidence(files) ==
    Within(0, 85 - Lesser(30, 5 * files.n)
                 - When("auth" \in files.kinds, 15)
                 - When(files.kinds \cap {"core", "infra"} # {}, 10), 100)

\* The observations, Gemini's or the names of the files, name a risk.
RiskWords(p) == \/ p.model = "risky"
                \/ p.model = "off" /\ "secret" \in p.files.kinds

PreFlightConfidence(p) ==
    Within(30, 90 - Lesser(15, 2 * p.files.n)
                  - When(p.files.kinds \cap {"auth", "secret"} # {}, 12)
                  - When(p.files.kinds \cap TestFiles = {} /\ p.files.n > 2, 8)
                  + When(p.files.n > 0 /\ p.files.kinds \subseteq LowRiskFiles, 5)
                  - When(RiskWords(p), 10), 100)

DocsConfidence(p) ==
    CASE p.docs = "none" -> 85 [] p.docs = "clean" -> 90
      [] p.docs = "drift" -> 70 [] OTHER -> 80

BuildConfidence(p) ==
    CASE p.ci = "fail" -> 20 [] p.ci = "pass" -> 90 [] OTHER -> SurfaceConfidence(p.files)

SignalConfidence(p, count) ==
    IF MonitoringUnavailable(p) THEN 0 ELSE Within(30, 90 - 10 * count, 90)

SecurityConfidence(p) ==
    CASE p.scan = "advisory" -> 30 [] p.scan = "clean" -> 90
      [] OTHER -> SurfaceConfidence(p.files)

\* Fault for the checks: Gemini's text is taken for an evidence state.
CodeClaim_Verbatim(p) ==
    IF p.model = "off" THEN IF p.files.n > 0 THEN "observed" ELSE "no_changes" ELSE p.model

\* The wording of a claim: "observed", "nothing" (a phrase of every list),
\* "no_changes" (a phrase of some lists only), "unavailable", "causal"; Gemini's
\* word of something unavailable counts as observed and as unavailable.
CodeClaim(p) ==
    IF p.model = "off" THEN IF p.files.n > 0 THEN "observed" ELSE "no_changes"
    ELSE IF p.model \in {"plain", "risky"} THEN "observed"
    ELSE IF p.model = "unavailable" THEN "observed_unavailable"
    ELSE p.model

DocsClaim(p) == CASE p.docs = "none" -> "nothing" [] p.docs = "causal" -> "causal"
                  [] OTHER -> "observed"

SignalClaim(p, count) ==
    IF MonitoringUnavailable(p) THEN "unavailable"
    ELSE IF count > 0 THEN "observed" ELSE "nothing"

ShardOf(w, p) ==
    CASE w = "pr-pre-flight-ast-worker" ->
            [claim |-> CodeClaim(p), confidence |-> PreFlightConfidence(p)]
      [] w = "docs-drift-and-spec-worker" ->
            [claim |-> DocsClaim(p), confidence |-> DocsConfidence(p)]
      [] w = "build-log-and-flakiness-worker" ->
            [claim |-> IF p.ci = "unknown" THEN "nothing" ELSE "observed",
             confidence |-> BuildConfidence(p)]
      [] w = "alert-storm-clustering-worker" ->
            [claim |-> SignalClaim(p, p.alerts), confidence |-> SignalConfidence(p, p.alerts)]
      [] w = "telemetry-correlation-worker" ->
            [claim |-> SignalClaim(p, p.telemetry),
             confidence |-> SignalConfidence(p, p.telemetry)]
      [] w = "security-and-dependency-worker" ->
            [claim |-> IF p.scan = "none" THEN "nothing" ELSE "observed",
             confidence |-> SecurityConfidence(p)]

\* float(signal) raises on a telemetry signal that is no number.
Raises(w, p) == w = "telemetry-correlation-worker" /\ ~p.numeric

NoShard == [claim |-> "none", confidence |-> 0]
FailedShard == [claim |-> "failed", confidence |-> 0]

-----------------------------------------------------------------------------
(* Managers and validator. *)

\* The workers whose shards reached the manager of a domain.
Emitted(d) == {w \in WorkersOf[d] : shards[w] \notin {NoShard, FailedShard}}
ProvidedDomains == {d \in payload.domains : Emitted(d) # {}}

\* Fault for the checks: the strongest shard speaks for the domain.
FindingConfidence_Strongest(d) ==
    CHOOSE c \in {shards[w].confidence : w \in Emitted(d)} :
        \A w \in Emitted(d) : c >= shards[w].confidence

FindingConfidence(d) ==
    CHOOSE c \in {shards[w].confidence : w \in Emitted(d)} :
        \A w \in Emitted(d) : c <= shards[w].confidence

SituationConfidences ==
    LET part(d) == When(d \in ProvidedDomains, FindingConfidence(d))
    IN  Averages(part("code") + part("delivery") + part("production"),
                 Cardinality(ProvidedDomains))

\* The two phrase lists of _compute_evidence_strength: the list for findings
\* knows the claim of an empty changeset, the one for shards does not.
ObservedByFinding(w) == shards[w].claim \in {"observed", "observed_unavailable", "causal"}
ObservedByShard(w) == ObservedByFinding(w) \/ shards[w].claim = "no_changes"

EvidenceStrength ==
    LET emitted == UNION {Emitted(d) : d \in ProvidedDomains}
        total == Cardinality(ProvidedDomains) + Cardinality(emitted)
        observed == Cardinality({d \in ProvidedDomains : \E w \in Emitted(d) : ObservedByFinding(w)})
                    + Cardinality({w \in emitted : ObservedByShard(w)})
    IN  IF total = 0 THEN 0 ELSE HalfEven(100 * observed, total)

Claims == {shards[w].claim : w \in UNION {Emitted(d) : d \in ProvidedDomains}}

\* Fault for the checks: two claims corroborate, whatever their domains.
Corroborated_ByClaims == Cardinality(UNION {Emitted(d) : d \in ProvidedDomains}) >= 2

Corroborated == Cardinality(ProvidedDomains) >= 2

\* An uncorroborated causal claim is refused; a corroborated one is supported, or
\* verified if its text says so.
CausalitySet ==
    IF "causal" \in Claims THEN IF Corroborated THEN {"supported", "verified"} ELSE {}
    ELSE IF Corroborated THEN {"correlated"} ELSE {"unsupported"}

\* A risk is credible when a verifier confirms a claim that names it; only text
\* from outside (Gemini, documentation names) can name one.
CredibleRisks ==
    IF ProvidedDomains # {} /\ (payload.model = "risky" \/ payload.docs = "updated")
    THEN BOOLEAN ELSE {FALSE}

\* No claim a worker words is the negation of another's, and none is structured
\* as contradictory; the coverage gap of the dependency texts is read by nobody.
ValidatedSituations ==
    [selected : {payload.domains}, provided : {ProvidedDomains},
     confidence : SituationConfidences, strength : {EvidenceStrength},
     causality : CausalitySet, conflict : {FALSE}, gap : {FALSE},
     unavailable : {Claims \cap {"unavailable", "observed_unavailable"} # {}},
     contradictory : {FALSE}, credibleRisk : CredibleRisks]

-----------------------------------------------------------------------------

NoPayload == FailedEnrichment([model |-> "off"])
NoSituation == [selected |-> {}]

Init ==
    /\ sources \in Sources
    /\ payload = NoPayload
    /\ shards = [w \in Workers |-> NoShard]
    /\ situation = NoSituation
    /\ verdict = "none"
    /\ stage = "received"

\* enrich_payload: the sources answer, or the thread raises.
Enrich ==
    /\ stage = "received"
    /\ payload' \in {Enriched(sources), FailedEnrichment(sources)}
    /\ stage' = "working"
    /\ UNCHANGED <<sources, shards, situation, verdict>>

\* A worker of the pool emits its shard ...
Emit(w) ==
    /\ stage = "working"
    /\ w \in SelectedWorkers(payload)
    /\ shards[w] = NoShard
    /\ ~Raises(w, payload)
    /\ shards' = [shards EXCEPT ![w] = ShardOf(w, payload)]
    /\ UNCHANGED <<sources, payload, situation, verdict, stage>>

\* ... or raises; the coordinator keeps the error, and its callers drop it.
Raise(w) ==
    /\ stage = "working"
    /\ w \in SelectedWorkers(payload)
    /\ shards[w] = NoShard
    /\ Raises(w, payload)
    /\ shards' = [shards EXCEPT ![w] = FailedShard]
    /\ UNCHANGED <<sources, payload, situation, verdict, stage>>

Collected == stage = "working" /\ \A w \in SelectedWorkers(payload) : shards[w] # NoShard

\* ManagerCoordinator.dispatch and CrossLifecycleValidator.validate.
Validate ==
    /\ Collected
    /\ situation' \in ValidatedSituations
    /\ stage' = "validated"
    /\ UNCHANGED <<sources, payload, shards, verdict>>

\* ValidatorError: the event ends in pipeline_error.
Refuse ==
    /\ Collected
    /\ CausalitySet = {}
    /\ verdict' = "refused"
    /\ stage' = "decided"
    /\ UNCHANGED <<sources, payload, shards, situation>>

Reduce ==
    /\ stage = "validated"
    /\ verdict' = AutonomyClass(situation)
    /\ stage' = "decided"
    /\ UNCHANGED <<sources, payload, shards, situation>>

Next == Enrich \/ (\E w \in Workers : Emit(w) \/ Raise(w)) \/ Validate \/ Refuse \/ Reduce

Spec == Init /\ [][Next]_vars

-----------------------------------------------------------------------------
(* Properties. *)

Green == verdict = "safe_autonomous"

\* The variables keep their types; every claim is one of the wordings.
TypeOK ==
    /\ sources \in Sources
    /\ payload \in {NoPayload, Enriched(sources), FailedEnrichment(sources)}
    /\ shards \in [Workers -> [claim : {"none", "failed", "observed", "nothing", "no_changes",
                                        "unavailable", "observed_unavailable", "causal"},
                               confidence : 0..100]]
    /\ verdict \in AutonomyClasses \cup {"none", "refused"}
    /\ stage \in {"received", "working", "validated", "decided"}

\* What validate hands over is what reduce was modelled for: every situation
\* that leaves the tiers is among those the decision tail starts from.
ValidatorMeetsReducer ==
    stage = "validated" =>
        /\ situation \in SituationsOver(0..100, 0..100)
        /\ Validated(situation)

\* ADR-013: when monitoring could not be assessed no pull request is green,
\* whichever domains were selected and whichever worker asked (enrichment.py,
\* worker_contexts.py, the two monitoring workers, the reducer's hold).
MonitoringOutageNeverGreen == payload.monitoring = "unavailable" => ~Green

\* A failing build or a known advisory is never averaged away: the validator
\* takes the mean of the domains, and only the sizes of the workers'
\* confidences keep it below the ladder.
BadNewsNeverGreen == payload.ci = "fail" \/ payload.scan = "advisory" => ~Green
=============================================================================
