------------------------------ MODULE AdkRuntime ------------------------------
(***************************************************************************)
(* One server process, many requests: the ingest routes, the three         *)
(* runtimes, and the store of paused workflows they share.                 *)
(*   src/src/forgemind/adk_runtime.py      the pipelines and the store     *)
(*   src/src/forgemind/tools/adk_tools.py  the six tools of the runner     *)
(*   src/src/forgemind/api/routes.py       the approval routes             *)
(*   src/src/forgemind/api/adk_routes.py   POST /api/v1/adk/events         *)
(*                                                                         *)
(* The handlers are coroutines of one event loop, so everything between    *)
(* two awaits is one action: run_adk_pipeline and resume_adk_pipeline are  *)
(* atomic, and the agents of adk+runner interleave at every tool call.     *)
(* Each agent is told to call its tool exactly once; nothing holds it to   *)
(* that, so an agent may call it several times or not at all.              *)
(*                                                                         *)
(* Requests carry a raw event: no evidence_shards or domain_findings of    *)
(* their own.                                                              *)
(***************************************************************************)
EXTENDS Integers

CONSTANTS Requests,
          Runtime,   \* FORGEMIND_RUNTIME
          MaxCalls,  \* bound on the calls one agent makes to its tool
          NoToken

ASSUME RuntimeAssumption == Runtime \in {"deterministic", "adk", "adk+runner"}
ASSUME MaxCallsAssumption == MaxCalls \in Nat \ {0}

\* The n-th token drawn for a request; the fallback may draw one more than the
\* calls of the gate's tool.
Tokens == Requests \X (1..(MaxCalls + 1))
ASSUME NoTokenAssumption == NoToken \notin Tokens

Classes == {"safe_autonomous", "human_review", "escalate"}

\* What the whole pipeline makes of the event: a class, EventValidationError,
\* or the error of a tier that refuses the evidence (the validator on
\* uncorroborated causation).
Verdicts == Classes \cup {"invalid", "refused"}

\* The verdicts one event can get: every validation asks the systems of record
\* again whether a claim is verified (_verify_claim_provenance), so two runs over
\* the same evidence may differ in whether a risk is credible, and in nothing else.
Assessments == {{"invalid"}, {"refused"}} \cup {{c, d} : c, d \in Classes}

VARIABLES pc,        \* of the request: idle, running, responded, dropped
          evidence,  \* the verdicts its event can get
          agent,     \* 1..6 the agent whose turn it is, 7 past the last
          calls,     \* calls of the current agent
          session,   \* tool_context.state of its runner session
          drawn,     \* tokens drawn for it
          pending,   \* keys of _PENDING_APPROVALS
          outcome,   \* what became of a token that left the store
          response   \* the envelope the client got

vars == <<pc, evidence, agent, calls, session, drawn, pending, outcome, response>>

is_adk_runtime == Runtime \in {"adk", "adk+runner"}
is_adk_runner_runtime == Runtime = "adk+runner"

EmptySession == [dispatch |-> FALSE, shards |-> FALSE, findings |-> "unset",
                 validated |-> "none", decided |-> "none",
                 terminal |-> "none", token |-> NoToken]
NoResponse == [status |-> "none", class |-> "none", terminal |-> "none", token |-> NoToken]

Init ==
    /\ pc = [r \in Requests |-> "idle"]
    /\ evidence = [r \in Requests |-> {"invalid"}]
    /\ agent = [r \in Requests |-> 1]
    /\ calls = [r \in Requests |-> 0]
    /\ session = [r \in Requests |-> EmptySession]
    /\ drawn = [r \in Requests |-> 0]
    /\ pending = {}
    /\ outcome = [t \in Tokens |-> "none"]
    /\ response = [r \in Requests |-> NoResponse]

-----------------------------------------------------------------------------
(* The synchronous pipelines. *)

NextToken(r) == <<r, drawn[r] + 1>>

\* Fault for the checks: the caller gets a token the store never saw.
DrawToken_NotStored(r) ==
    /\ drawn' = [drawn EXCEPT ![r] = @ + 1]
    /\ UNCHANGED pending

\* uuid4 and the entry in _PENDING_APPROVALS.
DrawToken(r) ==
    /\ drawn' = [drawn EXCEPT ![r] = @ + 1]
    /\ pending' = pending \cup {NextToken(r)}

\* The answer leaves; runner and session were locals of the handler.
Respond(r, envelope) ==
    /\ response' = [response EXCEPT ![r] = envelope]
    /\ pc' = [pc EXCEPT ![r] = "responded"]
    /\ session' = [session EXCEPT ![r] = EmptySession]
    /\ agent' = [agent EXCEPT ![r] = 1]
    /\ calls' = [calls EXCEPT ![r] = 0]

TerminalOf(class) == IF class = "safe_autonomous" THEN "action" ELSE "escalation"

ErrorEnvelope == [NoResponse EXCEPT !.status = "error"]

Published(class) == [status |-> "ok", class |-> class, terminal |-> TerminalOf(class),
                     token |-> NoToken]
Paused(class, t) == [status |-> "paused", class |-> class, terminal |-> "none", token |-> t]

\* run_pipeline: a held action is published at once, as an escalation.
RunPipeline(r, verdict) ==
    /\ Respond(r, IF verdict \in Classes THEN Published(verdict) ELSE ErrorEnvelope)
    /\ UNCHANGED <<drawn, pending>>

\* run_adk_pipeline: a held action pauses the workflow.
RunAdkPipeline(r, verdict) ==
    IF verdict = "human_review"
    THEN /\ DrawToken(r)
         /\ Respond(r, Paused(verdict, NextToken(r)))
    ELSE RunPipeline(r, verdict)

\* POST /api/v1/events: run_adk_pipeline only in the adk runtimes.
IngestEvent(r) ==
    /\ pc[r] = "idle"
    /\ \E a \in Assessments : \E v \in a :
         /\ evidence' = [evidence EXCEPT ![r] = a]
         /\ IF is_adk_runtime THEN RunAdkPipeline(r, v) ELSE RunPipeline(r, v)
    /\ UNCHANGED outcome

\* POST /api/v1/adk/events without a runner: run_adk_pipeline in every runtime.
\* With adk+runner this is the case that google-adk is missing, or that
\* acquire_event refuses the event before the session starts.
AdkIngestEvent(r) ==
    /\ pc[r] = "idle"
    /\ \E a \in Assessments : \E v \in a :
         /\ evidence' = [evidence EXCEPT ![r] = a]
         /\ RunAdkPipeline(r, v)
    /\ UNCHANGED outcome

-----------------------------------------------------------------------------
(* The runner: six agents in a row over one session. *)

\* run_adk_runner_pipeline_async up to the first await.
StartRunner(r) ==
    /\ pc[r] = "idle"
    /\ is_adk_runner_runtime
    /\ \E a \in Assessments \ {{"invalid"}} : evidence' = [evidence EXCEPT ![r] = a]
    /\ pc' = [pc EXCEPT ![r] = "running"]
    /\ UNCHANGED <<agent, calls, session, drawn, pending, outcome, response>>

\* Agent k of request r calls its tool once more.
Turn(r, k) ==
    /\ pc[r] = "running"
    /\ agent[r] = k
    /\ calls[r] < MaxCalls
    /\ calls' = [calls EXCEPT ![r] = @ + 1]
    /\ UNCHANGED <<pc, evidence, agent, outcome, response>>

CallSupervisor(r) ==
    /\ Turn(r, 1)
    /\ session' = [session EXCEPT ![r].dispatch = TRUE]
    /\ UNCHANGED <<drawn, pending>>

CallWorkers(r) ==
    /\ Turn(r, 2)
    /\ session' = [session EXCEPT ![r].shards = TRUE]
    /\ UNCHANGED <<drawn, pending>>

\* Findings already there are returned as they are; otherwise the dispatch is
\* read, and its absence raises (FailRun).
CallManagers(r) ==
    /\ Turn(r, 3)
    /\ session[r].findings # "unset" \/ session[r].dispatch
    /\ session' = [session EXCEPT ![r].findings =
                     IF @ # "unset" THEN @
                     ELSE IF session[r].shards THEN "full" ELSE "empty"]
    /\ UNCHANGED <<drawn, pending>>

\* Fault for the checks: missing findings only hold the action.
ValidatedAs_Lenient(r) == IF session[r].findings = "full" THEN evidence[r] \cap Classes
                                                          ELSE {"human_review"}

\* Evidence the validator refuses gets no verdict (FailRun); without findings it
\* reports every domain missing: escalate.
ValidatedAs(r) == IF session[r].findings = "full" THEN evidence[r] \cap Classes
                                                  ELSE {"escalate"}

CallValidator(r) ==
    /\ Turn(r, 4)
    /\ \E v \in ValidatedAs(r) : session' = [session EXCEPT ![r].validated = v]
    /\ UNCHANGED <<drawn, pending>>

CallReducer(r) ==
    /\ Turn(r, 5)
    /\ session[r].validated # "none"
    /\ session' = [session EXCEPT ![r].decided = session[r].validated]
    /\ UNCHANGED <<drawn, pending>>

\* The gate: a token for a held action, which needs the dispatch; otherwise the
\* terminal outcome.
CallActionGate(r) ==
    /\ Turn(r, 6)
    /\ session[r].decided # "none"
    /\ IF session[r].decided = "human_review"
       THEN /\ session[r].dispatch
            /\ DrawToken(r)
            /\ session' = [session EXCEPT ![r] =
                              [@ EXCEPT !.terminal = "none", !.token = NextToken(r)]]
       ELSE /\ session' = [session EXCEPT ![r] =
                              [@ EXCEPT !.terminal = TerminalOf(session[r].decided),
                                        !.token = NoToken]]
            /\ UNCHANGED <<drawn, pending>>

\* Fault for the checks: the hand-over runs past the last agent.
NextAgent_PastTheLast(r) ==
    /\ pc[r] = "running"
    /\ agent[r] <= 7
    /\ agent' = [agent EXCEPT ![r] = @ + 1]
    /\ calls' = [calls EXCEPT ![r] = 0]
    /\ UNCHANGED <<pc, evidence, session, drawn, pending, outcome, response>>

NextAgent(r) ==
    /\ pc[r] = "running"
    /\ agent[r] <= 6
    /\ agent' = [agent EXCEPT ![r] = @ + 1]
    /\ calls' = [calls EXCEPT ![r] = 0]
    /\ UNCHANGED <<pc, evidence, session, drawn, pending, outcome, response>>

\* The model or a tool raised: the runner returns None and the request falls
\* back to run_adk_pipeline, in the same step of the event loop.
FailRun(r) ==
    /\ pc[r] = "running"
    /\ agent[r] <= 6
    /\ \E v \in evidence[r] : RunAdkPipeline(r, v)
    /\ UNCHANGED <<evidence, outcome>>

\* Fault for the checks: a session without artifacts is not given up.
FinishRun_NoFallback(r) ==
    /\ pc[r] = "running"
    /\ agent[r] = 7
    /\ session[r].validated # "none" /\ session[r].dispatch
    /\ Respond(r, Published(session[r].decided))
    /\ UNCHANGED <<evidence, drawn, pending, outcome>>

\* The agents are done: the session is assembled into a result if validator
\* and supervisor left their artifacts, and else the request falls back.
FinishRun(r) ==
    /\ pc[r] = "running"
    /\ agent[r] = 7
    /\ IF session[r].validated # "none" /\ session[r].dispatch
       THEN /\ Respond(r, [status   |-> IF session[r].token # NoToken THEN "paused" ELSE "ok",
                           class    |-> session[r].decided,
                           terminal |-> session[r].terminal,
                           token    |-> session[r].token])
            /\ UNCHANGED <<drawn, pending>>
       ELSE \E v \in evidence[r] : RunAdkPipeline(r, v)
    /\ UNCHANGED <<evidence, outcome>>

-----------------------------------------------------------------------------
(* Humans and restarts. *)

\* Fault for the checks: the entry is read, not popped.
ResumeAdkPipeline_NotPopped(t, decision) ==
    /\ is_adk_runtime
    /\ t \in pending
    /\ outcome' = [outcome EXCEPT ![t] = decision]
    /\ UNCHANGED <<pc, evidence, agent, calls, session, drawn, pending, response>>

\* resume_adk_pipeline through one of the approval routes.  A token that is not
\* in the store and a decision that is neither word change nothing: the entry is
\* popped and put back before the handler yields.
ResumeAdkPipeline(t, decision) ==
    /\ is_adk_runtime
    /\ t \in pending
    /\ pending' = pending \ {t}
    /\ outcome' = [outcome EXCEPT ![t] = decision]
    /\ UNCHANGED <<pc, evidence, agent, calls, session, drawn, response>>

\* The process is replaced: the store is in memory, and so are the sessions.
Crash ==
    /\ pending' = {}
    /\ outcome' = [t \in Tokens |-> IF t \in pending THEN "lost" ELSE outcome[t]]
    /\ pc' = [r \in Requests |-> IF pc[r] = "running" THEN "dropped" ELSE pc[r]]
    /\ session' = [r \in Requests |-> EmptySession]
    /\ agent' = [r \in Requests |-> 1]
    /\ calls' = [r \in Requests |-> 0]
    /\ UNCHANGED <<evidence, drawn, response>>

CallTool(r) ==
    \/ CallSupervisor(r) \/ CallWorkers(r) \/ CallManagers(r)
    \/ CallValidator(r) \/ CallReducer(r) \/ CallActionGate(r)

Next ==
    \/ \E r \in Requests : IngestEvent(r) \/ AdkIngestEvent(r) \/ StartRunner(r)
                           \/ CallTool(r) \/ NextAgent(r) \/ FailRun(r) \/ FinishRun(r)
    \/ \E t \in Tokens, d \in {"approved", "rejected"} : ResumeAdkPipeline(t, d)
    \/ Crash

Spec == Init /\ [][Next]_vars

\* A model that answers or fails lets the run go on; nothing else is assumed.
Fairness == \A r \in Requests : WF_vars(NextAgent(r)) /\ WF_vars(FinishRun(r))

FairSpec == Spec /\ Fairness

-----------------------------------------------------------------------------
(* Properties. *)

Sessions ==
    [dispatch : BOOLEAN, shards : BOOLEAN, findings : {"unset", "empty", "full"},
     validated : Classes \cup {"none"}, decided : Classes \cup {"none"},
     terminal : {"none", "action", "escalation"}, token : Tokens \cup {NoToken}]
Envelopes ==
    [status : {"none", "ok", "paused", "error"}, class : Classes \cup {"none"},
     terminal : {"none", "action", "escalation"}, token : Tokens \cup {NoToken}]

\* Every variable keeps to its type; no request draws more tokens than its gate
\* calls and one fallback.
TypeOK ==
    /\ pc \in [Requests -> {"idle", "running", "responded", "dropped"}]
    /\ evidence \in [Requests -> Assessments]
    /\ agent \in [Requests -> 1..7]
    /\ calls \in [Requests -> 0..MaxCalls]
    /\ session \in [Requests -> Sessions]
    /\ drawn \in [Requests -> 0..(MaxCalls + 1)]
    /\ pending \subseteq Tokens
    /\ outcome \in [Tokens -> {"none", "approved", "rejected", "lost"}]
    /\ response \in [Requests -> Envelopes]

\* Whoever was told "paused" holds a token that is waiting, or was answered, or
\* died with the process: the store never forgets one otherwise.
PausedIsAnswerable ==
    \A r \in Requests : response[r].status = "paused" =>
        /\ response[r].token \in pending \cup {t \in Tokens : outcome[t] # "none"}
        /\ response[r].class = "human_review" /\ response[r].terminal = "none"

\* An agent that skips or repeats its tool never buys autonomy: the class of the
\* answer is one the whole evidence can get, or escalate, or none at all, and an
\* action is published only for evidence that can be safe.
SkippingNeverUpgrades ==
    \A r \in Requests :
        /\ response[r].class \in evidence[r] \cup {"escalate", "none"}
        /\ response[r].terminal = "action" => "safe_autonomous" \in evidence[r]

\* Every request is answered unless the process dies under it, whichever agents
\* skip, repeat or fail (the fallbacks of adk_ingest_event).
EveryRequestAnswered ==
    \A r \in Requests : pc[r] = "running" ~> pc[r] \in {"responded", "dropped"}

\* The store is an ApprovalLedger: drawn tokens are issued once and answered at
\* most once, whatever the interleaving of runs, reviewers and restarts.
TokenLife == [t \in Tokens |-> IF outcome[t] # "none" THEN outcome[t]
                                ELSE IF t \in pending THEN "pending" ELSE "absent"]
Ledger == INSTANCE ApprovalLedger WITH life <- TokenLife
TokensAreLedgered == Ledger!Spec
=============================================================================
