---------------------------- MODULE EvidenceIntake -----------------------------
(***************************************************************************)
(* POST /api/v1/events with a caller's own evidence: beside its event, the *)
(* body may carry evidence shards, contexts for workers and ready domain   *)
(* findings (api/models.py).  run_pipeline mixes them with what the tiers  *)
(* make themselves:                                                        *)
(*   acquisition.py      the event, and the domains of its coverage plan   *)
(*   supervisor.py       the plan's integrity                              *)
(*   workers.py          a shard of each worker that has a context         *)
(*   domain_managers.py  one manager per domain, in a pool                 *)
(*   validator.py        every check of findings and shards                *)
(* Each shard makes one claim.  Claims are named for what the phrase lists *)
(* and prefixes of the tiers find in them; notPlain is plain negated.      *)
(***************************************************************************)
EXTENDS EvidenceRules, Sequences, Functions

Texts == {"plain", "notPlain", "nothing", "unavailable", "cause", "verifiedCause",
          "critical", "manifest"}
\* The states the validator counts, and any other, which it passes over.
ShardStates == {"observed", "verified", "no_signal", "unavailable", "contradictory", "other"}
EventTypes == {"pr", "documentation", "ci_failure", "deployment", "notification",
               "incident", "security"}

CONSTANTS Events,     \* the events callers send
          Bodies,     \* what they send along
          Emissions   \* the claims and confidences a worker may come to

\* own: it names the event's situation; wellFormed: it fits its JSON schema;
\* typed: the states of its structured claims, none without that channel.  A
\* confidence is a number (NaN, which JSON schemas let through, is left out).
Shard == [domain : Domains, worker : Workers \cup {"stranger"}, text : Texts,
          typed : SUBSET ShardStates, confidence : 0..100, wellFormed : BOOLEAN]
Finding == [domain : Domains, claims : SUBSET Texts, confidence : 0..100,
            own : BOOLEAN, wellFormed : BOOLEAN]

\* declared: payload.affected_domains; listed, touched: payload.changed_files and
\* the domains its paths concern.
ASSUME EventsAssumption ==
    Events \subseteq [valid : BOOLEAN, type : EventTypes,
                      declared : SUBSET (Domains \cup {"elsewhere"}), listed : BOOLEAN,
                      touched : SUBSET (Domains \ {"code"})]
\* given: the body has domain_findings; contexts: worker -> whose domain the
\* context is for.
ASSUME BodiesAssumption ==
    \A b \in Bodies :
        /\ b.shards \subseteq Shard
        /\ b.contexts \in UNION {[W -> {"own", "foreign"}] : W \in SUBSET Workers}
        /\ b.given \in BOOLEAN
        /\ b.findings \in Seq(Finding)
ASSUME EmissionsAssumption == Emissions \subseteq [text : Texts, confidence : 0..100]

VARIABLES event, body, stage,
          plan,       \* selected_domains
          shards,     \* the caller's and the workers'
          findings,   \* domain -> the finding of its manager
          failed,     \* domains whose manager raised
          situation,
          answer      \* autonomy class, or the error

vars == <<event, body, stage, plan, shards, findings, failed, situation, answer>>

-----------------------------------------------------------------------------
(* Acquisition and supervisor. *)

\* Fault for the checks: a declaration without canonical domains selects none.
SelectDomains_AsDeclared(e) ==
    IF e.declared # {} THEN e.declared \cap Domains
    ELSE IF e.type = "pr" /\ e.listed THEN {"code"} \cup e.touched
    ELSE {"code"}

\* _select_domains: declared, else from the changed files, else by the type.
SelectDomains(e) ==
    IF e.declared \cap Domains # {} THEN e.declared \cap Domains
    ELSE IF e.type = "pr" /\ e.listed THEN {"code"} \cup e.touched
    ELSE IF e.type \in {"pr", "documentation"} THEN {"code"}
    ELSE IF e.type \in {"incident", "security"} THEN {"production"}
    ELSE {"delivery"}

MaxConcurrentManagers == 3
MinDomains == 1
MaxDomains == 3

\* Supervisor._validate_coverage_plan, for a plan of acquisition.
Dispatchable(domains) ==
    /\ domains \subseteq Domains
    /\ Cardinality(domains) <= MaxConcurrentManagers
    /\ Cardinality(domains) \in MinDomains..MaxDomains

-----------------------------------------------------------------------------
(* Workers and managers. *)

\* Without contexts of the caller's, build_worker_contexts gives every selected
\* worker one, whether the payload holds anything for it or not.
Contexts ==
    IF DOMAIN body.contexts # {} THEN body.contexts
    ELSE [w \in UNION {WorkersOf[d] : d \in plan} |-> "own"]

\* The workers that emit: selected, and their context stays in their domain.
\* What the coordinator reports of the others is read by nobody.
Emitters ==
    {w \in DOMAIN Contexts :
        Contexts[w] = "own" /\ \E d \in plan : w \in WorkersOf[d]}

\* Worker._build_structured_claims.
TypedAs(text) == CASE text = "nothing" -> "no_signal" [] text = "unavailable" -> "unavailable"
                   [] OTHER -> "observed"

ShardsOfWorkers(emission) ==
    {[domain |-> CHOOSE d \in Domains : w \in WorkersOf[d], worker |-> w,
      text |-> emission[w].text, typed |-> {TypedAs(emission[w].text)},
      confidence |-> emission[w].confidence, wellFormed |-> TRUE] : w \in DOMAIN emission}

ShardsOf(d) == {s \in shards : s.domain = d}
Weakest(confidences) == CHOOSE c \in confidences : \A e \in confidences : c <= e

\* Fault for the checks: the weakest shard speaks for its domain alone.
Aggregated_WeakestOnly(d) ==
    LET c == Weakest({s.confidence : s \in ShardsOf(d)})
    IN  [domain |-> d, claims |-> {(CHOOSE s \in ShardsOf(d) : s.confidence = c).text},
         confidence |-> c, own |-> TRUE, wellFormed |-> TRUE]

\* DomainManager._aggregate_shards: all claims, the weakest confidence.
Aggregated(d) ==
    [domain |-> d, claims |-> {s.text : s \in ShardsOf(d)},
     confidence |-> Weakest({s.confidence : s \in ShardsOf(d)}),
     own |-> TRUE, wellFormed |-> TRUE]

\* Fault for the checks: every domain with evidence gets its manager.
Managed_Unselected == {d \in Domains : ShardsOf(d) # {}}

\* ManagerCoordinator.dispatch: evidence of other domains is set aside.
Managed == {d \in plan : ShardsOf(d) # {}}
Rejected == {s \in shards : s.domain \notin plan}

\* The findings for Tier 4: the caller's if there are any, else the managers'.
\* A function over positions, or over domains: the validator takes them in order,
\* and no figure depends on it.
DomainFindings == IF body.given THEN body.findings ELSE findings

-----------------------------------------------------------------------------
(* The validator. *)

\* Fault for the checks: shards were validated by their managers already.
InputsRefused_FindingsOnly(fs, ss) ==
    \E i \in DOMAIN fs : ~fs[i].wellFormed \/ ~fs[i].own \/ fs[i].domain \notin plan

InputsRefused(fs, ss) ==
    \/ \E i \in DOMAIN fs : ~fs[i].wellFormed \/ ~fs[i].own \/ fs[i].domain \notin plan
    \/ \E s \in ss : ~s.wellFormed

Provided(fs) == {fs[i].domain : i \in DOMAIN fs}
ClaimsIn(fs, d) == UNION {fs[i].claims : i \in {j \in DOMAIN fs : fs[j].domain = d}}
AllClaims(fs) == UNION {ClaimsIn(fs, d) : d \in Provided(fs)}

Conflict(fs) ==
    \E d, e \in Provided(fs) : d # e /\ "plain" \in ClaimsIn(fs, d) /\ "notPlain" \in ClaimsIn(fs, e)

\* _cross_worker_consistency: manifests changed, and production has no scan.
Gap(fs) == "manifest" \in ClaimsIn(fs, "code") /\ "manifest" \notin ClaimsIn(fs, "production")

Causal == {"cause", "verifiedCause"}

\* Fault for the checks: any two findings corroborate, of one domain too.
Corroborated_ByCount(fs) == Cardinality(DOMAIN fs) >= 2

Corroborated(fs) == Cardinality(Provided(fs)) >= 2

Causality(fs) ==
    IF "verifiedCause" \in AllClaims(fs) THEN "verified"
    ELSE IF "cause" \in AllClaims(fs) THEN "supported"
    ELSE IF Corroborated(fs) THEN "correlated" ELSE "unsupported"

Concrete == Texts \ {"nothing", "unavailable"}

\* _compute_evidence_strength: the share of names, of domains and of workers,
\* that come with something observed.
EvidenceStrength(fs, ss) ==
    LET names == Provided(fs) \cup {s.worker : s \in ss}
        observed == {d \in Provided(fs) : ClaimsIn(fs, d) \cap Concrete # {}}
                    \cup {s.worker : s \in {t \in ss : t.text \in Concrete}}
    IN  IF names = {} THEN 0 ELSE HalfEven(100 * Cardinality(observed), Cardinality(names))

\* Fault for the checks: only the texts of shards are counted.
StatesOf_Untyped(s) == {TypedAs(s.text)}

\* _aggregate_evidence_states: the typed channel instead of the texts.
StatesOf(s) == IF s.typed # {} THEN s.typed ELSE {TypedAs(s.text)}

EvidenceStates(fs, ss) ==
    {TypedAs(c) : c \in AllClaims(fs)} \cup UNION {StatesOf(s) : s \in ss}

\* A claim of two domains is supported; one of a single domain counts if GitHub
\* confirms it (Verification).
CredibleRisk(fs, ss) ==
    IF "critical" \notin AllClaims(fs) \/ "observed" \notin EvidenceStates(fs, ss) THEN {FALSE}
    ELSE IF Cardinality({d \in Provided(fs) : "critical" \in ClaimsIn(fs, d)}) >= 2 THEN {TRUE}
    ELSE BOOLEAN

SituationsFrom(fs, ss) ==
    [selected : {plan}, provided : {Provided(fs)},
     confidence : Averages(SumFunction([i \in DOMAIN fs |-> fs[i].confidence]),
                           Cardinality(DOMAIN fs)),
     strength : {EvidenceStrength(fs, ss)}, causality : {Causality(fs)},
     conflict : {Conflict(fs)}, gap : {Gap(fs)},
     unavailable : {"unavailable" \in EvidenceStates(fs, ss)},
     contradictory : {"contradictory" \in EvidenceStates(fs, ss)},
     credibleRisk : CredibleRisk(fs, ss)]

-----------------------------------------------------------------------------

NoSituation == [selected |-> {}]

Init ==
    /\ event \in Events
    /\ body \in Bodies
    /\ stage = "received"
    /\ plan = {}
    /\ shards = {}
    /\ findings = <<>>
    /\ failed = {}
    /\ situation = NoSituation
    /\ answer = "none"

Answer(a) == stage' = "answered" /\ answer' = a

\* acquire_event: the plan, or validation_error (422).
AcquireEvent ==
    /\ stage = "received"
    /\ IF event.valid THEN plan' = SelectDomains(event) /\ stage' = "acquired" /\ UNCHANGED answer
                      ELSE Answer("validation_error") /\ UNCHANGED plan
    /\ UNCHANGED <<event, body, shards, findings, failed, situation>>

\* Supervisor.dispatch: the plan goes on, or pipeline_error (500).
DispatchSupervisor ==
    /\ stage = "acquired"
    /\ IF Dispatchable(plan) THEN stage' = "dispatched" /\ UNCHANGED answer
                             ELSE Answer("pipeline_error")
    /\ UNCHANGED <<event, body, plan, shards, findings, failed, situation>>

\* WorkerCoordinator.dispatch.
DispatchWorkers ==
    /\ stage = "dispatched"
    /\ \E emission \in [Emitters -> Emissions] :
            shards' = body.shards \cup ShardsOfWorkers(emission)
    /\ stage' = "managing"
    /\ UNCHANGED <<event, body, plan, findings, failed, situation, answer>>

\* The future of one manager completes, with its finding or with an error that
\* nobody reads.
Manage(d) ==
    /\ stage = "managing"
    /\ d \in Managed \ (DOMAIN findings \cup failed)
    /\ IF \A s \in ShardsOf(d) : s.wellFormed
       THEN /\ findings' = [e \in DOMAIN findings \cup {d} |->
                                IF e = d THEN Aggregated(d) ELSE findings[e]]
            /\ UNCHANGED failed
       ELSE /\ failed' = failed \cup {d}
            /\ UNCHANGED findings
    /\ UNCHANGED <<event, body, stage, plan, shards, situation, answer>>

\* CrossLifecycleValidator.validate.
Validate ==
    /\ stage = "managing"
    /\ Managed = DOMAIN findings \cup failed
    /\ IF \/ InputsRefused(DomainFindings, shards)
          \/ AllClaims(DomainFindings) \cap Causal # {} /\ ~Corroborated(DomainFindings)
       THEN Answer("pipeline_error") /\ UNCHANGED situation
       ELSE /\ situation' \in SituationsFrom(DomainFindings, shards)
            /\ stage' = "validated"
            /\ UNCHANGED answer
    /\ UNCHANGED <<event, body, plan, shards, findings, failed>>

\* The reducer; what follows is DecisionStage.
Reduce ==
    /\ stage = "validated"
    /\ Answer(AutonomyClass(situation))
    /\ UNCHANGED <<event, body, plan, shards, findings, failed, situation>>

Next == \/ AcquireEvent \/ DispatchSupervisor \/ DispatchWorkers
        \/ (\E d \in Domains : Manage(d)) \/ Validate \/ Reduce

Spec == Init /\ [][Next]_vars

-----------------------------------------------------------------------------
(* Properties. *)

Green == answer = "safe_autonomous"

TypeOK ==
    /\ stage \in {"received", "acquired", "dispatched", "managing", "validated", "answered"}
    /\ plan \subseteq Domains
    /\ shards \subseteq Shard
    /\ DOMAIN findings \cup failed \subseteq plan
    /\ \A d \in DOMAIN findings : findings[d] \in Finding /\ findings[d].domain = d
    /\ answer \in AutonomyClasses \cup {"none", "validation_error", "pipeline_error"}

\* Every plan acquisition makes of a valid event, whatever domains its caller
\* declares, passes the supervisor's integrity checks (supervisor.py).
PlanIsDispatchable == stage = "acquired" => Dispatchable(plan)

\* Whatever evidence a caller mixes in, findings of one domain twice included,
\* what reaches the reducer is a situation its policy was proved for
\* (validator.py, reducer.py; DecisionProofs starts from these situations).
IntakeMeetsReducer ==
    stage = "validated" =>
        /\ situation \in SituationsOver(0..100, 0..100)
        /\ Validated(situation)

\* ManagerCoordinator returns the errors of its managers and nobody reads them
\* (domain_managers.py, pipeline.py): yet no event is decided without the evidence of
\* a manager that failed, for the validator refuses the shards it failed on.
ManagerFailureIsNotSilent == answer \in AutonomyClasses => failed = {}

\* Evidence that calls itself unavailable or contradictory in the typed channel
\* is never lost on the way to a green verdict, not even that of a domain the
\* plan did not select (validator.py, reducer.py).
TypedDoubtNeverGreen ==
    Green => \A s \in shards : s.typed \cap {"unavailable", "contradictory"} = {}

\* Two shards of different selected domains that deny each other are found by
\* the validator although each reached it only through its manager's finding.
DenialNeverGreen ==
    Green /\ ~body.given =>
        ~ \E s, t \in shards \ Rejected :
            s.domain # t.domain /\ s.text = "plain" /\ t.text = "notPlain"
=============================================================================
