--------------------------- MODULE AdkRuntimeProofs ---------------------------
(***************************************************************************)
(* Theorems about AdkRuntime, for any number of requests, any bound on the *)
(* calls and each of the three runtimes.                                   *)
(***************************************************************************)
EXTENDS AdkRuntime, TLAPS

-----------------------------------------------------------------------------
(* The inductive invariant. *)

\* A request outside the runner has no session: idle ones have drawn nothing,
\* and only answered ones have an envelope.
AtRest(r) ==
    /\ pc[r] # "running" => session[r] = EmptySession /\ agent[r] = 1 /\ calls[r] = 0
    /\ pc[r] = "idle" => drawn[r] = 0
    /\ pc[r] # "responded" => response[r] = NoResponse

\* A running request has drawn no more tokens than the gate was called.
DrawsCounted(r) ==
    pc[r] = "running" =>
        /\ agent[r] <= 5 => drawn[r] = 0 /\ session[r].token = NoToken
        /\ agent[r] = 6 => drawn[r] <= calls[r]
        /\ drawn[r] <= MaxCalls

\* The session never knows more than the evidence says, and a token in it is one
\* for a held action that the store has or had.
SessionHonest(r) ==
    /\ session[r].validated \in evidence[r] \cup {"escalate", "none"}
    /\ session[r].decided \in evidence[r] \cup {"escalate", "none"}
    /\ session[r].terminal = "action" => "safe_autonomous" \in evidence[r]
    /\ session[r].token # NoToken =>
         /\ session[r].decided = "human_review" /\ session[r].terminal = "none"
         /\ session[r].token \in pending \/ outcome[session[r].token] # "none"

\* Tokens not drawn yet are unknown, and a waiting token has no outcome.
StoreHonest ==
    /\ \A t \in Tokens : t[2] > drawn[t[1]] => t \notin pending /\ outcome[t] = "none"
    /\ \A t \in pending : outcome[t] = "none"

Inv ==
    /\ TypeOK
    /\ \A r \in Requests : AtRest(r) /\ DrawsCounted(r) /\ SessionHonest(r)
    /\ StoreHonest
    /\ PausedIsAnswerable
    /\ SkippingNeverUpgrades

LEMMA InitInv == Init => Inv
  <1>1. {"invalid"} \in Assessments
    BY DEF Assessments
  <1> QED
    BY <1>1, NoTokenAssumption, MaxCallsAssumption
     DEF Init, Inv, Sessions, Envelopes, TypeOK, AtRest, DrawsCounted, SessionHonest, StoreHonest,
         PausedIsAnswerable, SkippingNeverUpgrades, EmptySession, NoResponse, Classes

-----------------------------------------------------------------------------
(* Steps shared by several actions. *)

LEMMA EmptySessionType == EmptySession \in Sessions
  BY DEF EmptySession, Sessions

\* What drawing one more token does to the store.
LEMMA DrawStep ==
    ASSUME Inv, NEW r \in Requests, drawn[r] <= MaxCalls,
           DrawToken(r), UNCHANGED outcome
    PROVE  /\ NextToken(r) \in Tokens /\ NextToken(r) \in pending'
           /\ drawn' \in [Requests -> 0..(MaxCalls + 1)]
           /\ drawn'[r] = drawn[r] + 1 /\ \A q \in Requests \ {r} : drawn'[q] = drawn[q]
           /\ pending \subseteq pending' /\ pending' \subseteq Tokens
           /\ StoreHonest'
  <1>1. drawn[r] \in Nat /\ MaxCalls \in Nat
    BY MaxCallsAssumption DEF Inv, TypeOK
  <1>2. NextToken(r) \in Tokens
    BY <1>1 DEF NextToken, Tokens
  <1>3. NextToken(r)[1] = r /\ NextToken(r)[2] = drawn[r] + 1
    BY DEF NextToken
  <1>4. drawn' \in [Requests -> 0..(MaxCalls + 1)]
    BY <1>1 DEF DrawToken, Inv, TypeOK
  <1>5. drawn'[r] = drawn[r] + 1 /\ \A q \in Requests \ {r} : drawn'[q] = drawn[q]
    BY DEF DrawToken, Inv, TypeOK
  <1>6. outcome[NextToken(r)] = "none"
    BY <1>1, <1>2, <1>3 DEF Inv, StoreHonest
  <1>7. ASSUME NEW t \in Tokens, t[2] > drawn'[t[1]]
        PROVE  t \notin pending' /\ outcome[t] = "none"
    <2>1. t[1] \in Requests /\ t[2] \in Nat
      BY DEF Tokens
    <2>2. t[2] > drawn[t[1]] /\ t # NextToken(r)
      BY <1>1, <1>3, <1>5, <1>7, <2>1 DEF Inv, TypeOK
    <2> QED BY <2>2 DEF Inv, StoreHonest, DrawToken
  <1>8. StoreHonest'
    BY <1>6, <1>7 DEF Inv, StoreHonest, DrawToken
  <1> QED BY <1>2, <1>4, <1>5, <1>8 DEF DrawToken, Inv, TypeOK

\* An answer without a token.
LEMMA RespondStep ==
    ASSUME Inv, NEW r \in Requests, NEW a \in Assessments, NEW v \in a, NEW e,
           e \in {ErrorEnvelope} \cup {Published(c) : c \in Classes \cap {v}},
           evidence' = [evidence EXCEPT ![r] = a],
           Respond(r, e), UNCHANGED <<drawn, pending, outcome>>
    PROVE  Inv'
  <1>1. e \in [status : {"ok", "error"}, class : {v, "none"} \cap (Classes \cup {"none"}),
               terminal : {"none", "action", "escalation"}, token : {NoToken}]
    BY DEF ErrorEnvelope, Published, NoResponse, TerminalOf
  <1>2. e.terminal = "action" => v = "safe_autonomous"
    BY DEF ErrorEnvelope, Published, NoResponse, TerminalOf
  <1>3. TypeOK'
    <2>1. e \in Envelopes
      BY <1>1 DEF Envelopes
    <2> QED BY <2>1, EmptySessionType, MaxCallsAssumption DEF Inv, TypeOK, Respond
  <1>4. \A q \in Requests : AtRest(q)' /\ DrawsCounted(q)' /\ SessionHonest(q)'
    BY DEF Inv, TypeOK, Respond, AtRest, DrawsCounted, SessionHonest, EmptySession
  <1>5. StoreHonest'
    BY DEF Inv, StoreHonest
  <1>6. PausedIsAnswerable'
    BY <1>1 DEF Inv, TypeOK, Respond, PausedIsAnswerable
  <1>7. SkippingNeverUpgrades'
    BY <1>1, <1>2 DEF Inv, TypeOK, Respond, SkippingNeverUpgrades
  <1> QED BY <1>3, <1>4, <1>5, <1>6, <1>7 DEF Inv

LEMMA PipelineStep ==
    ASSUME Inv, NEW r \in Requests, NEW a \in Assessments, NEW v \in a,
           evidence' = [evidence EXCEPT ![r] = a],
           RunPipeline(r, v), UNCHANGED outcome
    PROVE  Inv'
  BY RespondStep DEF RunPipeline

\* The pausing pipeline, at the end of a request or as its fallback.
LEMMA AdkPipelineStep ==
    ASSUME Inv, NEW r \in Requests, NEW a \in Assessments, NEW v \in a, drawn[r] <= MaxCalls,
           evidence' = [evidence EXCEPT ![r] = a],
           RunAdkPipeline(r, v), UNCHANGED outcome
    PROVE  Inv'
  <1>1. CASE v # "human_review"
    BY <1>1, PipelineStep DEF RunAdkPipeline
  <1>2. CASE v = "human_review"
    <2> DEFINE e == Paused(v, NextToken(r))
    <2>1. DrawToken(r) /\ Respond(r, e)
      BY <1>2 DEF RunAdkPipeline
    <2>2. /\ NextToken(r) \in Tokens /\ NextToken(r) \in pending'
          /\ drawn' \in [Requests -> 0..(MaxCalls + 1)]
          /\ drawn'[r] = drawn[r] + 1 /\ \A q \in Requests \ {r} : drawn'[q] = drawn[q]
          /\ pending \subseteq pending' /\ pending' \subseteq Tokens
          /\ StoreHonest'
      BY <2>1, DrawStep
    <2>3. e = [status |-> "paused", class |-> "human_review", terminal |-> "none",
               token |-> NextToken(r)]
      BY <1>2 DEF Paused
    <2>4. TypeOK'
      <3>1. e \in Envelopes
        BY <2>2, <2>3 DEF Envelopes, Classes
      <3> HIDE DEF e
      <3>2. response' \in [Requests -> Envelopes]
        BY <2>1, <3>1 DEF Inv, TypeOK, Respond
      <3>3. session' \in [Requests -> Sessions]
        BY <2>1, EmptySessionType DEF Inv, TypeOK, Respond
      <3>4. /\ pc' \in [Requests -> {"idle", "running", "responded", "dropped"}]
            /\ evidence' \in [Requests -> Assessments]
            /\ agent' \in [Requests -> 1..7] /\ calls' \in [Requests -> 0..MaxCalls]
        BY <2>1, MaxCallsAssumption DEF Inv, TypeOK, Respond
      <3> QED BY <2>2, <3>2, <3>3, <3>4 DEF Inv, TypeOK
    <2>5. ASSUME NEW q \in Requests
          PROVE  AtRest(q)' /\ DrawsCounted(q)' /\ SessionHonest(q)'
      <3>1. CASE q = r
        BY <2>1, <3>1 DEF Inv, TypeOK, Respond, AtRest, DrawsCounted, SessionHonest, EmptySession
      <3>2. CASE q # r
        <4>1. /\ pc'[q] = pc[q] /\ session'[q] = session[q] /\ agent'[q] = agent[q]
              /\ calls'[q] = calls[q] /\ response'[q] = response[q] /\ drawn'[q] = drawn[q]
              /\ evidence'[q] = evidence[q]
          BY <2>1, <2>2, <3>2 DEF Inv, TypeOK, Respond
        <4> QED BY <2>2, <4>1 DEF Inv, AtRest, DrawsCounted, SessionHonest
      <3> QED BY <3>1, <3>2
    <2>6. PausedIsAnswerable'
      BY <2>1, <2>2, <2>3 DEF Inv, TypeOK, Respond, PausedIsAnswerable
    <2>7. SkippingNeverUpgrades'
      BY <1>2, <2>1, <2>3 DEF Inv, TypeOK, Respond, SkippingNeverUpgrades
    <2> QED BY <2>2, <2>4, <2>5, <2>6, <2>7 DEF Inv
  <1> QED BY <1>1, <1>2

-----------------------------------------------------------------------------
(* One tool call: the session of r moves, within what its evidence allows. *)

LEMMA ToolStep ==
    ASSUME Inv, NEW r \in Requests, \E k \in 1..5 : Turn(r, k),
           UNCHANGED <<drawn, pending>>,
           session' = [session EXCEPT ![r] = session'[r]],
           session'[r] \in Sessions,
           session'[r].validated \in evidence[r] \cup {"escalate", "none"},
           session'[r].decided \in evidence[r] \cup {"escalate", "none"},
           session'[r].terminal = session[r].terminal, session'[r].token = session[r].token
    PROVE  Inv'
  <1>1. /\ pc[r] = "running" /\ agent[r] \in 1..5
        /\ calls[r] < MaxCalls /\ calls' = [calls EXCEPT ![r] = @ + 1]
        /\ UNCHANGED <<pc, evidence, agent, outcome, response>>
    BY DEF Turn
  <1>2. TypeOK'
    <2>1. session' \in [Requests -> Sessions]
      BY DEF Inv, TypeOK
    <2> QED BY <1>1, <2>1, MaxCallsAssumption DEF Inv, TypeOK
  <1>3. ASSUME NEW q \in Requests
        PROVE  AtRest(q)' /\ DrawsCounted(q)' /\ SessionHonest(q)'
    <2>1. CASE q = r
      <3>1. session[r].token = NoToken
        BY <1>1 DEF Inv, TypeOK, DrawsCounted
      <3> QED BY <1>1, <2>1, <3>1 DEF Inv, TypeOK, AtRest, DrawsCounted, SessionHonest
    <2>2. CASE q # r
      <3>1. session'[q] = session[q] /\ calls'[q] = calls[q]
        BY <1>1, <2>2 DEF Inv, TypeOK
      <3> QED BY <1>1, <3>1 DEF Inv, AtRest, DrawsCounted, SessionHonest
    <2> QED BY <2>1, <2>2
  <1>4. StoreHonest'
    BY <1>1 DEF Inv, StoreHonest
  <1>5. PausedIsAnswerable' /\ SkippingNeverUpgrades'
    BY <1>1 DEF Inv, PausedIsAnswerable, SkippingNeverUpgrades
  <1> QED BY <1>2, <1>3, <1>4, <1>5 DEF Inv

LEMMA GateStep ==
    ASSUME Inv, NEW r \in Requests, CallActionGate(r)
    PROVE  Inv'
  <1>1. /\ pc[r] = "running" /\ agent[r] = 6 /\ drawn[r] <= calls[r] /\ calls[r] < MaxCalls
        /\ calls'[r] = calls[r] + 1 /\ calls[r] \in Nat /\ drawn[r] \in Nat
        /\ MaxCalls \in Nat
    BY MaxCallsAssumption DEF Inv, TypeOK, CallActionGate, Turn, DrawsCounted
  <1>2. UNCHANGED <<pc, evidence, agent, outcome, response>>
    BY DEF CallActionGate, Turn
  <1>3. calls' \in [Requests -> 0..MaxCalls] /\ \A q \in Requests \ {r} : calls'[q] = calls[q]
    BY MaxCallsAssumption DEF Inv, TypeOK, CallActionGate, Turn
  <1>5. session[r] \in Sessions
    BY DEF Inv, TypeOK
  <1>6. session \in [Requests -> Sessions]
    BY DEF Inv, TypeOK
  <1>4. CASE session[r].decided = "human_review"
    <2>1. DrawToken(r)
      BY <1>4 DEF CallActionGate
    <2>2. /\ NextToken(r) \in Tokens /\ NextToken(r) \in pending'
          /\ drawn' \in [Requests -> 0..(MaxCalls + 1)]
          /\ drawn'[r] = drawn[r] + 1 /\ \A q \in Requests \ {r} : drawn'[q] = drawn[q]
          /\ pending \subseteq pending' /\ pending' \subseteq Tokens
          /\ StoreHonest'
      BY <1>1, <1>2, <2>1, DrawStep
    <2>3. session' = [session EXCEPT ![r] =
                        [session[r] EXCEPT !.terminal = "none", !.token = NextToken(r)]]
      BY <1>4 DEF CallActionGate
    <2>4. TypeOK'
      <3>1. [session[r] EXCEPT !.terminal = "none", !.token = NextToken(r)] \in Sessions
        BY <2>2, <1>5 DEF Sessions
      <3>2. session' \in [Requests -> Sessions]
        BY <2>3, <3>1, <1>6
      <3> QED BY <1>2, <1>3, <2>2, <3>2 DEF Inv, TypeOK
    <2>5. ASSUME NEW q \in Requests
          PROVE  AtRest(q)' /\ DrawsCounted(q)' /\ SessionHonest(q)'
      <3>1. CASE q = r
        <4>1. /\ session'[r].terminal = "none" /\ session'[r].token = NextToken(r)
              /\ session'[r].decided = session[r].decided
              /\ session'[r].validated = session[r].validated
          BY <2>3 DEF Inv, TypeOK, Sessions
        <4>2. AtRest(r)' /\ DrawsCounted(r)'
          BY <1>1, <1>2, <2>2 DEF Inv, AtRest, DrawsCounted
        <4>3. SessionHonest(r)'
          BY <1>2, <1>4, <2>2, <4>1 DEF Inv, SessionHonest
        <4> QED BY <3>1, <4>2, <4>3
      <3>2. CASE q # r
        <4>1. session'[q] = session[q] /\ calls'[q] = calls[q] /\ drawn'[q] = drawn[q]
          BY <1>3, <2>2, <2>3, <3>2 DEF Inv, TypeOK
        <4> QED BY <1>2, <2>2, <4>1 DEF Inv, AtRest, DrawsCounted, SessionHonest
      <3> QED BY <3>1, <3>2
    <2>6. PausedIsAnswerable' /\ SkippingNeverUpgrades'
      BY <1>2, <2>2 DEF Inv, PausedIsAnswerable, SkippingNeverUpgrades
    <2> QED BY <2>2, <2>4, <2>5, <2>6 DEF Inv
  <1>8. CASE session[r].decided # "human_review"
    <2>1. /\ session' = [session EXCEPT ![r] =
                            [session[r] EXCEPT !.terminal = TerminalOf(session[r].decided),
                                               !.token = NoToken]]
          /\ UNCHANGED <<drawn, pending>>
          /\ session[r].decided # "none"
      BY <1>8 DEF CallActionGate
    <2>2. TypeOK'
      <3>1. [session[r] EXCEPT !.terminal = TerminalOf(session[r].decided),
                               !.token = NoToken] \in Sessions
        BY <1>5 DEF Sessions, TerminalOf
      <3>2. session' \in [Requests -> Sessions]
        BY <2>1, <3>1, <1>6
      <3> QED BY <1>2, <1>3, <2>1, <3>2 DEF Inv, TypeOK
    <2>3. TerminalOf(session[r].decided) = "action" => "safe_autonomous" \in evidence[r]
      BY DEF Inv, SessionHonest, TerminalOf
    <2>4. \A q \in Requests : AtRest(q)' /\ DrawsCounted(q)' /\ SessionHonest(q)'
      BY <1>1, <1>2, <1>3, <2>1, <2>3
         DEF Inv, TypeOK, Sessions, AtRest, DrawsCounted, SessionHonest
    <2>5. StoreHonest' /\ PausedIsAnswerable' /\ SkippingNeverUpgrades'
      BY <1>2, <2>1 DEF Inv, StoreHonest, PausedIsAnswerable, SkippingNeverUpgrades
    <2> QED BY <2>2, <2>4, <2>5 DEF Inv
  <1> QED BY <1>4, <1>8

-----------------------------------------------------------------------------
(* Every step keeps the invariant. *)

LEMMA CallToolStep ==
    ASSUME Inv, NEW r \in Requests, CallTool(r)
    PROVE  Inv'
  <1>1. session[r] \in Sessions /\ session \in [Requests -> Sessions]
    BY DEF Inv, TypeOK
  <1>2. /\ session[r].validated \in evidence[r] \cup {"escalate", "none"}
        /\ session[r].decided \in evidence[r] \cup {"escalate", "none"}
    BY DEF Inv, SessionHonest
  <1>3. CASE CallSupervisor(r)
    <2>1. (\E k \in 1..5 : Turn(r, k)) /\ UNCHANGED <<drawn, pending>>
      BY <1>3 DEF CallSupervisor
    <2>2. session' = [session EXCEPT ![r] = [session[r] EXCEPT !.dispatch = TRUE]]
      BY <1>3 DEF CallSupervisor
    <2>3. session'[r] = [session[r] EXCEPT !.dispatch = TRUE]
      BY <1>1, <2>2
    <2>4. session' = [session EXCEPT ![r] = session'[r]]
      BY <2>2, <2>3
    <2>5. /\ session'[r] \in Sessions
          /\ session'[r].validated = session[r].validated
          /\ session'[r].decided = session[r].decided
          /\ session'[r].terminal = session[r].terminal
          /\ session'[r].token = session[r].token
      BY <1>1, <2>3 DEF Sessions
    <2> QED BY <1>2, <2>1, <2>4, <2>5, ToolStep
  <1>4. CASE CallWorkers(r)
    <2>1. (\E k \in 1..5 : Turn(r, k)) /\ UNCHANGED <<drawn, pending>>
      BY <1>4 DEF CallWorkers
    <2>2. session' = [session EXCEPT ![r] = [session[r] EXCEPT !.shards = TRUE]]
      BY <1>4 DEF CallWorkers
    <2>3. session'[r] = [session[r] EXCEPT !.shards = TRUE]
      BY <1>1, <2>2
    <2>4. session' = [session EXCEPT ![r] = session'[r]]
      BY <2>2, <2>3
    <2>5. /\ session'[r] \in Sessions
          /\ session'[r].validated = session[r].validated
          /\ session'[r].decided = session[r].decided
          /\ session'[r].terminal = session[r].terminal
          /\ session'[r].token = session[r].token
      BY <1>1, <2>3 DEF Sessions
    <2> QED BY <1>2, <2>1, <2>4, <2>5, ToolStep
  <1>5. CASE CallManagers(r)
    <2>1. (\E k \in 1..5 : Turn(r, k)) /\ UNCHANGED <<drawn, pending>>
      BY <1>5 DEF CallManagers
    <2>2. session' = [session EXCEPT ![r] = [session[r] EXCEPT !.findings =
                       IF session[r].findings # "unset" THEN session[r].findings
                       ELSE IF session[r].shards THEN "full" ELSE "empty"]]
      BY <1>5 DEF CallManagers
    <2>3. session'[r] = [session[r] EXCEPT !.findings =
                       IF session[r].findings # "unset" THEN session[r].findings
                       ELSE IF session[r].shards THEN "full" ELSE "empty"]
      BY <1>1, <2>2
    <2>4. session' = [session EXCEPT ![r] = session'[r]]
      BY <2>2, <2>3
    <2>5. /\ session'[r] \in Sessions
          /\ session'[r].validated = session[r].validated
          /\ session'[r].decided = session[r].decided
          /\ session'[r].terminal = session[r].terminal
          /\ session'[r].token = session[r].token
      BY <1>1, <2>3 DEF Sessions
    <2> QED BY <1>2, <2>1, <2>4, <2>5, ToolStep
  <1>6. CASE CallValidator(r)
    <2>1. (\E k \in 1..5 : Turn(r, k)) /\ UNCHANGED <<drawn, pending>>
      BY <1>6 DEF CallValidator
    <2>2. PICK v \in ValidatedAs(r) :
            session' = [session EXCEPT ![r] = [session[r] EXCEPT !.validated = v]]
      BY <1>6 DEF CallValidator
    <2>3. session'[r] = [session[r] EXCEPT !.validated = v]
      BY <1>1, <2>2
    <2>4. session' = [session EXCEPT ![r] = session'[r]]
      BY <2>2, <2>3
    <2>5. v \in evidence[r] \cup {"escalate"} /\ v \in Classes
      BY <2>2 DEF ValidatedAs, Classes
    <2>6. /\ session'[r] \in Sessions
          /\ session'[r].validated = v
          /\ session'[r].decided = session[r].decided
          /\ session'[r].terminal = session[r].terminal
          /\ session'[r].token = session[r].token
      BY <1>1, <2>3, <2>5 DEF Sessions
    <2> QED BY <1>2, <2>1, <2>4, <2>5, <2>6, ToolStep
  <1>7. CASE CallReducer(r)
    <2>1. (\E k \in 1..5 : Turn(r, k)) /\ UNCHANGED <<drawn, pending>>
      BY <1>7 DEF CallReducer
    <2>2. session' = [session EXCEPT ![r] = [session[r] EXCEPT !.decided = session[r].validated]]
      BY <1>7 DEF CallReducer
    <2>3. session'[r] = [session[r] EXCEPT !.decided = session[r].validated]
      BY <1>1, <2>2
    <2>4. session' = [session EXCEPT ![r] = session'[r]]
      BY <2>2, <2>3
    <2>5. /\ session'[r] \in Sessions
          /\ session'[r].validated = session[r].validated
          /\ session'[r].decided = session[r].validated
          /\ session'[r].terminal = session[r].terminal
          /\ session'[r].token = session[r].token
      BY <1>1, <2>3 DEF Sessions
    <2> QED BY <1>2, <2>1, <2>4, <2>5, ToolStep
  <1>8. CASE CallActionGate(r)
    BY <1>8, GateStep
  <1> QED BY <1>3, <1>4, <1>5, <1>6, <1>7, <1>8 DEF CallTool

\* The moves that answer nobody and touch no token.
LEMMA RunnerStep ==
    ASSUME Inv, NEW r \in Requests, StartRunner(r) \/ NextAgent(r)
    PROVE  Inv'
  <1>1. CASE StartRunner(r)
    <2>1. PICK a \in Assessments : evidence' = [evidence EXCEPT ![r] = a]
      BY <1>1 DEF StartRunner
    <2>2. TypeOK'
      BY <1>1, <2>1 DEF Inv, TypeOK, StartRunner
    <2>3. session[r] = EmptySession /\ drawn[r] = 0 /\ agent[r] = 1
          /\ response[r] = NoResponse /\ MaxCalls \in Nat
      BY <1>1, MaxCallsAssumption DEF Inv, AtRest, StartRunner
    <2>4. \A q \in Requests : AtRest(q)' /\ DrawsCounted(q)' /\ SessionHonest(q)'
      BY <1>1, <2>1, <2>3
         DEF Inv, TypeOK, StartRunner, AtRest, DrawsCounted, SessionHonest, EmptySession
    <2>5. StoreHonest' /\ PausedIsAnswerable'
      BY <1>1 DEF Inv, StoreHonest, PausedIsAnswerable, StartRunner
    <2>6. SkippingNeverUpgrades'
      BY <1>1, <2>1, <2>3
         DEF Inv, TypeOK, StartRunner, SkippingNeverUpgrades, NoResponse
    <2> QED BY <2>2, <2>4, <2>5, <2>6 DEF Inv
  <1>2. CASE NextAgent(r)
    <2>1. TypeOK'
      BY <1>2, MaxCallsAssumption DEF Inv, TypeOK, NextAgent
    <2>2. \A q \in Requests : AtRest(q)' /\ DrawsCounted(q)' /\ SessionHonest(q)'
      BY <1>2 DEF Inv, TypeOK, NextAgent, AtRest, DrawsCounted, SessionHonest
    <2>3. StoreHonest' /\ PausedIsAnswerable' /\ SkippingNeverUpgrades'
      BY <1>2 DEF Inv, StoreHonest, PausedIsAnswerable, SkippingNeverUpgrades, NextAgent
    <2> QED BY <2>1, <2>2, <2>3 DEF Inv
  <1> QED BY <1>1, <1>2

LEMMA FinishStep ==
    ASSUME Inv, NEW r \in Requests, FinishRun(r) \/ FailRun(r)
    PROVE  Inv'
  <1>1. pc[r] = "running" /\ drawn[r] <= MaxCalls
    BY DEF Inv, DrawsCounted, FinishRun, FailRun
  <1>2. evidence[r] \in Assessments /\ evidence' = [evidence EXCEPT ![r] = evidence[r]]
        /\ UNCHANGED outcome
    BY DEF Inv, TypeOK, FinishRun, FailRun
  <1>3. CASE \E v \in evidence[r] : RunAdkPipeline(r, v)
    BY <1>1, <1>2, <1>3, AdkPipelineStep
  <1>4. CASE ~\E v \in evidence[r] : RunAdkPipeline(r, v)
    <2> DEFINE e == [status   |-> IF session[r].token # NoToken THEN "paused" ELSE "ok",
                     class    |-> session[r].decided,
                     terminal |-> session[r].terminal,
                     token    |-> session[r].token]
    <2>1. Respond(r, e) /\ UNCHANGED <<evidence, drawn, pending, outcome>>
      BY <1>2, <1>4 DEF FinishRun, FailRun
    <2>2. session[r] \in Sessions
      BY DEF Inv, TypeOK
    <2>3. e \in Envelopes
      BY <2>2 DEF Sessions, Envelopes
    <2>4. e.status = "paused" =>
            /\ e.class = "human_review" /\ e.terminal = "none"
            /\ e.token \in pending \cup {t \in Tokens : outcome[t] # "none"}
      BY <2>2 DEF Inv, SessionHonest, Sessions
    <2>5. /\ e.class \in evidence[r] \cup {"escalate", "none"}
          /\ e.terminal = "action" => "safe_autonomous" \in evidence[r]
      BY DEF Inv, SessionHonest
    <2> HIDE DEF e
    <2>6. response' \in [Requests -> Envelopes]
      BY <2>1, <2>3 DEF Inv, TypeOK, Respond
    <2>7. session' \in [Requests -> Sessions]
      BY <2>1, EmptySessionType DEF Inv, TypeOK, Respond
    <2>8. TypeOK'
      BY <2>1, <2>6, <2>7, MaxCallsAssumption DEF Inv, TypeOK, Respond
    <2>9. \A q \in Requests : AtRest(q)' /\ DrawsCounted(q)' /\ SessionHonest(q)'
      BY <2>1 DEF Inv, TypeOK, Respond, AtRest, DrawsCounted, SessionHonest, EmptySession
    <2>10. StoreHonest'
      BY <2>1 DEF Inv, StoreHonest
    <2>11. PausedIsAnswerable'
      BY <2>1, <2>4 DEF Inv, TypeOK, Respond, PausedIsAnswerable
    <2>12. SkippingNeverUpgrades'
      BY <2>1, <2>5 DEF Inv, TypeOK, Respond, SkippingNeverUpgrades
    <2> QED BY <2>8, <2>9, <2>10, <2>11, <2>12 DEF Inv
  <1> QED BY <1>3, <1>4

LEMMA ResumeStep ==
    ASSUME Inv, NEW t \in Tokens, NEW d \in {"approved", "rejected"}, ResumeAdkPipeline(t, d)
    PROVE  Inv'
  <1>1. TypeOK'
    BY DEF Inv, TypeOK, ResumeAdkPipeline
  <1>2. outcome'[t] = d /\ \A u \in Tokens \ {t} : outcome'[u] = outcome[u]
    BY DEF Inv, TypeOK, ResumeAdkPipeline
  <1>3. pending' = pending \ {t} /\ t \in pending
    BY DEF ResumeAdkPipeline
  <1>4. \A u \in Tokens \cup {NoToken} : u \in Tokens /\ (u \in pending \/ outcome[u] # "none")
                           => u \in pending' \/ outcome'[u] # "none"
    BY <1>2, <1>3
  <1>5. ASSUME NEW q \in Requests
        PROVE  AtRest(q)' /\ DrawsCounted(q)' /\ SessionHonest(q)'
    <2>1. session[q].token \in Tokens \cup {NoToken}
      BY DEF Inv, TypeOK, Sessions
    <2> QED BY <1>4, <2>1 DEF Inv, AtRest, DrawsCounted, SessionHonest, ResumeAdkPipeline
  <1>6. StoreHonest'
    BY <1>2, <1>3 DEF Inv, TypeOK, StoreHonest, ResumeAdkPipeline
  <1>7. ASSUME NEW q \in Requests, response[q].status = "paused"
        PROVE  response[q].token \in pending' \cup {u \in Tokens : outcome'[u] # "none"}
    <2>1. response[q].token \in pending \cup {u \in Tokens : outcome[u] # "none"}
      BY <1>7 DEF Inv, PausedIsAnswerable
    <2>2. response[q].token \in Tokens
      BY <2>1 DEF Inv, TypeOK
    <2> QED BY <1>4, <2>1, <2>2
  <1>8. PausedIsAnswerable'
    BY <1>7 DEF Inv, PausedIsAnswerable, ResumeAdkPipeline
  <1>9. SkippingNeverUpgrades'
    BY DEF Inv, SkippingNeverUpgrades, ResumeAdkPipeline
  <1> QED BY <1>1, <1>5, <1>6, <1>8, <1>9 DEF Inv

LEMMA IngestStep ==
    ASSUME Inv, NEW r \in Requests, IngestEvent(r) \/ AdkIngestEvent(r)
    PROVE  Inv'
  <1>1. drawn[r] <= MaxCalls /\ UNCHANGED outcome
    BY MaxCallsAssumption DEF Inv, AtRest, IngestEvent, AdkIngestEvent
  <1>2. PICK a \in Assessments : \E v \in a :
          /\ evidence' = [evidence EXCEPT ![r] = a]
          /\ RunAdkPipeline(r, v) \/ RunPipeline(r, v)
    BY DEF IngestEvent, AdkIngestEvent
  <1>3. PICK v \in a : /\ evidence' = [evidence EXCEPT ![r] = a]
                       /\ RunAdkPipeline(r, v) \/ RunPipeline(r, v)
    BY <1>2
  <1> QED BY <1>1, <1>3, PipelineStep, AdkPipelineStep

LEMMA CrashStep ==
    ASSUME Inv, Crash
    PROVE  Inv'
  <1>1. TypeOK'
    BY EmptySessionType, MaxCallsAssumption DEF Inv, TypeOK, Crash
  <1>2. \A t \in Tokens : /\ outcome[t] # "none" => outcome'[t] # "none"
                          /\ t \in pending => outcome'[t] # "none"
    BY DEF Crash
  <1>3. \A q \in Requests : AtRest(q)' /\ DrawsCounted(q)' /\ SessionHonest(q)'
    BY DEF Inv, TypeOK, Crash, AtRest, DrawsCounted, SessionHonest, EmptySession
  <1>4. StoreHonest'
    BY DEF Inv, StoreHonest, Crash
  <1>5. PausedIsAnswerable'
    BY <1>2 DEF Inv, TypeOK, PausedIsAnswerable, Crash
  <1>6. SkippingNeverUpgrades'
    BY DEF Inv, SkippingNeverUpgrades, Crash
  <1> QED BY <1>1, <1>3, <1>4, <1>5, <1>6 DEF Inv

LEMMA StepInv == Inv /\ [Next]_vars => Inv'
  <1> SUFFICES ASSUME Inv, [Next]_vars
               PROVE  Inv'
    OBVIOUS
  <1>1. CASE Next
    BY <1>1, IngestStep, RunnerStep, CallToolStep, FinishStep, ResumeStep, CrashStep DEF Next
  <1>2. CASE UNCHANGED vars
    BY <1>2 DEF vars, Inv, TypeOK, AtRest, DrawsCounted, SessionHonest, StoreHonest,
                PausedIsAnswerable, SkippingNeverUpgrades
  <1> QED BY <1>1, <1>2

-----------------------------------------------------------------------------
(* The theorems. *)

\* In every behaviour of the three runtimes a request, its session and the tokens
\* it drew stay consistent with each other: the invariant the others follow from.
THEOREM RuntimeInvariant == Spec => []Inv
  BY InitInv, StepInv, PTL DEF Spec

\* The variables keep their types, and a request draws at most one token more
\* than the gate calls of its run (run_adk_pipeline, call_action_gate).
THEOREM TypeCorrect == Spec => []TypeOK
  <1>1. Inv => TypeOK
    BY DEF Inv
  <1> QED BY <1>1, RuntimeInvariant, PTL

\* A client told "paused" holds a token that waits, was answered, or was lost in
\* a restart (_PENDING_APPROVALS, resume_adk_pipeline).
THEOREM PausedAnswerable == Spec => []PausedIsAnswerable
  <1>1. Inv => PausedIsAnswerable
    BY DEF Inv
  <1> QED BY <1>1, RuntimeInvariant, PTL

\* However often the six agents of the runner call or skip their tools, the class
\* answered is one the evidence can get, or escalate.
THEOREM NoUpgrade == Spec => []SkippingNeverUpgrades
  <1>1. Inv => SkippingNeverUpgrades
    BY DEF Inv
  <1> QED BY <1>1, RuntimeInvariant, PTL

-----------------------------------------------------------------------------
(* The store implements the ledger. *)

LEMMA PipelineDraws ==
    ASSUME NEW r \in Requests, NEW v, RunAdkPipeline(r, v)
    PROVE  DrawToken(r) \/ UNCHANGED pending
  BY DEF RunAdkPipeline, RunPipeline

\* All a step can do to the store and its history.
LEMMA StoreStep ==
    ASSUME Inv, [Next]_vars
    PROVE  \/ UNCHANGED <<pending, outcome>>
           \/ \E r \in Requests : drawn[r] <= MaxCalls /\ DrawToken(r) /\ UNCHANGED outcome
           \/ \E t \in Tokens, d \in {"approved", "rejected"} : ResumeAdkPipeline(t, d)
           \/ Crash
  <1>1. ASSUME NEW r \in Requests, IngestEvent(r) \/ AdkIngestEvent(r)
        PROVE  drawn[r] <= MaxCalls /\ (DrawToken(r) \/ UNCHANGED pending) /\ UNCHANGED outcome
    <2>1. drawn[r] <= MaxCalls
      BY <1>1, MaxCallsAssumption DEF Inv, AtRest, IngestEvent, AdkIngestEvent
    <2> QED BY <1>1, <2>1, PipelineDraws DEF IngestEvent, AdkIngestEvent, RunPipeline
  <1>2. ASSUME NEW r \in Requests, FinishRun(r) \/ FailRun(r)
        PROVE  drawn[r] <= MaxCalls /\ (DrawToken(r) \/ UNCHANGED pending) /\ UNCHANGED outcome
    <2>1. drawn[r] <= MaxCalls
      BY <1>2 DEF Inv, DrawsCounted, FinishRun, FailRun
    <2> QED BY <1>2, <2>1, PipelineDraws DEF FinishRun, FailRun
  <1>3. ASSUME NEW r \in Requests, CallTool(r)
        PROVE  drawn[r] <= MaxCalls /\ (DrawToken(r) \/ UNCHANGED pending) /\ UNCHANGED outcome
    <2>1. drawn[r] <= MaxCalls
      BY <1>3 DEF Inv, DrawsCounted, CallTool, CallSupervisor, CallWorkers, CallManagers,
                  CallValidator, CallReducer, CallActionGate, Turn
    <2> QED BY <1>3, <2>1 DEF CallTool, CallSupervisor, CallWorkers, CallManagers,
                  CallValidator, CallReducer, CallActionGate, Turn
  <1>4. ASSUME NEW r \in Requests, StartRunner(r) \/ NextAgent(r)
        PROVE  UNCHANGED <<pending, outcome>>
    BY <1>4 DEF StartRunner, NextAgent
  <1>5. CASE Next
    BY <1>1, <1>2, <1>3, <1>4, <1>5 DEF Next
  <1>6. CASE UNCHANGED vars
    BY <1>6 DEF vars
  <1> QED BY <1>5, <1>6

LEMMA LedgerInit == Init => Ledger!Init
  BY DEF Init, Ledger!Init, TokenLife

LEMMA LedgerStep == Inv /\ [Next]_vars => [Ledger!Next]_TokenLife
  <1> SUFFICES ASSUME Inv, [Next]_vars
               PROVE  [Ledger!Next]_TokenLife
    OBVIOUS
  <1>1. CASE UNCHANGED <<pending, outcome>>
    BY <1>1 DEF TokenLife
  <1>2. ASSUME NEW r \in Requests, drawn[r] <= MaxCalls, DrawToken(r), UNCHANGED outcome
        PROVE  Ledger!Next
    <2>1. NextToken(r) \in Tokens
      BY <1>2, DrawStep
    <2>2. NextToken(r) \notin pending /\ outcome[NextToken(r)] = "none"
      <3>1. NextToken(r)[1] = r /\ NextToken(r)[2] = drawn[r] + 1 /\ drawn[r] \in Int
        BY DEF NextToken, Inv, TypeOK
      <3> QED BY <2>1, <3>1 DEF Inv, StoreHonest
    <2>3. Ledger!Issue(NextToken(r))
      BY <1>2, <2>1, <2>2 DEF Ledger!Issue, TokenLife, DrawToken
    <2> QED BY <2>1, <2>3 DEF Ledger!Next
  <1>3. ASSUME NEW t \in Tokens, NEW d \in {"approved", "rejected"}, ResumeAdkPipeline(t, d)
        PROVE  Ledger!Next
    <2>1. t \in pending /\ pending' = pending \ {t} /\ outcome' = [outcome EXCEPT ![t] = d]
          /\ outcome[t] = "none" /\ outcome \in [Tokens -> {"none", "approved", "rejected", "lost"}]
      BY <1>3 DEF ResumeAdkPipeline, Inv, TypeOK, StoreHonest
    <2>2. Ledger!Answer(t, d)
      BY <2>1 DEF Ledger!Answer, TokenLife
    <2> QED BY <2>2 DEF Ledger!Next, Ledger!Answers
  <1>4. CASE Crash
    <2>1. \A t \in Tokens : /\ outcome[t] \in {"none", "approved", "rejected", "lost"}
                            /\ t \in pending => outcome[t] = "none"
                            /\ t \notin pending'
                            /\ outcome'[t] = IF t \in pending THEN "lost" ELSE outcome[t]
      BY <1>4 DEF Crash, Inv, TypeOK, StoreHonest
    <2>2. \A t \in Tokens : TokenLife'[t] = IF TokenLife[t] = "pending" THEN "lost"
                                                                       ELSE TokenLife[t]
      BY <2>1 DEF TokenLife
    <2>3. Ledger!Restart
      BY <2>2 DEF Ledger!Restart, TokenLife
    <2> QED BY <2>3 DEF Ledger!Next
  <1> QED BY <1>1, <1>2, <1>3, <1>4, StoreStep

\* The store of paused workflows keeps the promise of ApprovalLedger: whatever the
\* interleaving of runs, reviewers and restarts, a token is issued once and
\* answered at most once (resume_adk_pipeline pops it).
THEOREM StoreIsALedger == Spec => TokensAreLedgered
  BY LedgerInit, LedgerStep, RuntimeInvariant, PTL DEF Spec, TokensAreLedgered, Ledger!Spec

\* No step of the ledger changes an answer or a loss.
LEMMA LedgerStepFinal ==
    Ledger!Next => \A t \in Tokens : TokenLife[t] \in Ledger!Answers \cup {"lost"}
                                    => TokenLife'[t] = TokenLife[t]
  <1> SUFFICES ASSUME Ledger!Next, NEW t \in Tokens,
                      TokenLife[t] \in Ledger!Answers \cup {"lost"}
               PROVE  TokenLife'[t] = TokenLife[t]
    OBVIOUS
  <1>1. TokenLife[t] \in {"approved", "rejected", "lost"}
    BY DEF Ledger!Answers
  <1>2. CASE \E u \in Tokens : Ledger!Issue(u)
    BY <1>1, <1>2 DEF Ledger!Issue
  <1>3. CASE \E u \in Tokens, a \in Ledger!Answers : Ledger!Answer(u, a)
    BY <1>1, <1>3 DEF Ledger!Answer
  <1>4. CASE Ledger!Restart
    BY <1>1, <1>4 DEF Ledger!Restart
  <1> QED BY <1>2, <1>3, <1>4 DEF Ledger!Next

\* A reviewer's answer, like a loss, is final: no second reviewer, retry or
\* restart turns an approval into a rejection (resume_adk_pipeline's pop).
THEOREM AnswersAreFinal == Spec => Ledger!AnswersAreFinal
  <1>1. [Ledger!Next]_TokenLife =>
          [\A t \in Tokens : TokenLife[t] \in Ledger!Answers \cup {"lost"}
                             => TokenLife'[t] = TokenLife[t]]_TokenLife
    BY LedgerStepFinal
  <1> QED
    BY <1>1, StoreIsALedger, PTL DEF TokensAreLedgered, Ledger!Spec, Ledger!AnswersAreFinal
=============================================================================
