--------------------------- MODULE MCEvidenceIntake ---------------------------
(***************************************************************************)
(* Bounds for EvidenceIntake, and what the repository says of callers'     *)
(* evidence that its code does not do.                                     *)
(***************************************************************************)
EXTENDS EvidenceIntake

Event(type, declared, listed, touched) ==
    [valid |-> TRUE, type |-> type, declared |-> declared, listed |-> listed,
     touched |-> touched]

\* Each way to come to a plan, and each plan of one, two or three domains.
MCEvents ==
    {Event(t, {}, FALSE, {}) : t \in {"documentation", "ci_failure", "security"}}
    \cup {Event("pr", {}, TRUE, t) : t \in SUBSET {"delivery", "production"}}
    \cup {Event("incident", d, FALSE, {}) : d \in {{"elsewhere"}, {"code", "elsewhere"},
                                                {"code", "delivery"}, Domains}}
    \cup {[Event("pr", {}, FALSE, {}) EXCEPT !.valid = FALSE]}

ShardIn(domain, text, typed, confidence) ==
    [domain |-> domain, worker |-> "stranger", text |-> text, typed |-> typed,
     confidence |-> confidence, wellFormed |-> TRUE]

\* One shard for each claim, state and domain; pairs that deny each other; one
\* that fits no schema.
OneShard ==
    {ShardIn(d, t, s, 90) : d \in Domains, t \in Texts,
                            s \in {{}, {"unavailable"}, {"observed", "contradictory"},
                                     {"verified", "other"}}}
    \cup {ShardIn(d, "plain", {}, 40) : d \in Domains}
    \cup {[ShardIn("code", "plain", {}, 90) EXCEPT !.wellFormed = FALSE]}
TwoShards ==
    {{ShardIn(d, "plain", {}, 90), ShardIn(e, "notPlain", {}, c)} :
        d \in Domains, e \in Domains, c \in {90, 95}}

FindingIn(domain, claims, confidence) ==
    [domain |-> domain, claims |-> claims, confidence |-> confidence,
     own |-> TRUE, wellFormed |-> TRUE]

OneFinding ==
    {FindingIn(d, {t}, 90) : d \in Domains, t \in Texts}
    \cup {FindingIn(d, {}, 40) : d \in Domains}
    \cup {[FindingIn("code", {"plain"}, 90) EXCEPT !.own = FALSE],
          [FindingIn("code", {"plain"}, 90) EXCEPT !.wellFormed = FALSE]}

BodyOf(s, c, given, f) == [shards |-> s, contexts |-> c, given |-> given, findings |-> f]

\* A context for another domain's worker only: no worker emits.
NoWorker == [w \in {"telemetry-correlation-worker"} |-> "foreign"]

SomeWorkers == [w \in {"build-log-and-flakiness-worker", "telemetry-correlation-worker",
                       "docs-drift-and-spec-worker"} |-> "own"]

MCBodies ==
    {BodyOf({s}, SomeWorkers, FALSE, <<>>) : s \in OneShard}
    \cup {BodyOf(p, c, FALSE, <<>>) : p \in TwoShards \cup {{}},
                                     c \in {<<>>, NoWorker, SomeWorkers}}
    \cup {BodyOf(s, NoWorker, TRUE, f) :
            s \in {{}, {ShardIn("production", "plain", {}, 90)},
                   {ShardIn("code", "nothing", {"contradictory"}, 90)}},
            f \in {<<>>} \cup {<<g, h>> : g, h \in OneFinding}
                  \cup {<<FindingIn("code", {"plain"}, 90), FindingIn("delivery", {t}, 90),
                          FindingIn("production", {"nothing"}, 90)>> : t \in Texts}}

MCEmissions ==
    {[text |-> "plain", confidence |-> 90], [text |-> "nothing", confidence |-> 85],
     [text |-> "unavailable", confidence |-> 0]}

\* domain_managers.py:392: "any shard whose domain was not selected for coverage is
\* rejected"; validator.py:426: it "gathers ONLY selected domains".  What was
\* rejected earns nothing: without it the verdict would have been green as well.
RejectedEvidenceHasNoWeight ==
    Green => AutonomyClass([situation EXCEPT !.strength =
                EvidenceStrength(DomainFindings, shards \ Rejected)]) = "safe_autonomous"
=============================================================================
