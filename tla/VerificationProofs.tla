-------------------------- MODULE VerificationProofs --------------------------
(***************************************************************************)
(* Theorems about Verification, for any wordings, any registered verifiers, *)
(* any state GitHub begins in, and any number of claims, check runs and     *)
(* moves.                                                                  *)
(***************************************************************************)
EXTENDS Verification, SequenceTheorems, WellFoundedInduction, TLAPS

\* While deployments are left to be asked about, they are deployments of the
\* commit, and the claim is an open one of that type.
Walking ==
    listed # Nobody =>
        \E c \in Open, left \in SUBSET DOMAIN github.deployments :
            /\ listed = <<c, left>> /\ left # {}
            /\ ClaimType(c) = "deployment_status"

\* The inductive invariant.
Kept == TypeOK /\ Walking /\ WitnessedByGitHub /\ NothingIsVerifiedUnheard

-----------------------------------------------------------------------------
(* Facts about the operators. *)

LEMMA SomebodyIsSomebody == \A c, left : <<c, left>> # Nobody
  BY DEF Nobody

LEMMA BoundedSeqFacts ==
    ASSUME NEW S, NEW s \in BoundedSeq(S)
    PROVE  /\ Len(s) \in 0..MaxRuns /\ DOMAIN s = 1..Len(s) /\ s \in Seq(S)
           /\ \A i \in DOMAIN s : s[i] \in S
           /\ \A i \in DOMAIN s, x \in S :
                 [s EXCEPT ![i] = x] \in BoundedSeq(S) /\ DOMAIN [s EXCEPT ![i] = x] = DOMAIN s
  <1>1. PICK n \in 0..MaxRuns : s \in [1..n -> S]
    BY DEF BoundedSeq
  <1>2. n \in Nat
    BY BoundsAssumption
  <1>3. s \in Seq(S) /\ Len(s) = n /\ DOMAIN s = 1..n
    BY <1>1, <1>2
  <1>4. \A i \in DOMAIN s, x \in S :
           [s EXCEPT ![i] = x] \in [1..n -> S] /\ DOMAIN [s EXCEPT ![i] = x] = DOMAIN s
    BY <1>1
  <1> QED BY <1>1, <1>3, <1>4 DEF BoundedSeq

LEMMA BoundedAppend ==
    ASSUME NEW S, NEW s \in BoundedSeq(S), NEW x \in S, Len(s) < MaxRuns
    PROVE  Append(s, x) \in BoundedSeq(S)
  <1>1. Len(s) \in Nat /\ s \in Seq(S) /\ DOMAIN s = 1..Len(s)
    BY BoundedSeqFacts, BoundsAssumption
  <1>2. Len(s) + 1 \in 0..MaxRuns
    BY <1>1, BoundsAssumption
  <1>3. Append(s, x) \in [1..Len(s) + 1 -> S]
    BY <1>1, AppendProperties, LenProperties
  <1> QED BY <1>2, <1>3 DEF BoundedSeq

LEMMA LeastExists ==
    ASSUME NEW T, T \subseteq Nat, T # {}
    PROVE  \E x \in T : \A y \in T : x <= y
  <1>1. PICK x \in T : \A y \in T : <<y, x>> \notin OpToRel(<, Nat)
    BY NatLessThanWellFounded, WFMin
  <1>2. \A y \in T : <<y, x>> \in Nat \X Nat
    OBVIOUS
  <1>3. \A y \in T : ~(y < x)
    BY <1>1, <1>2 DEF OpToRel
  <1> QED BY <1>3

\* Whatever the status is that a claim gets, it is one.
LEMMA AssessedFacts ==
    ASSUME NEW c, NEW b
    PROVE  /\ Assessed(c, b) \in Statuses /\ Assessed(c, b) # "open"
           /\ Assessed(c, b) = "independently_verified" => b
  BY DEF Assessed, Statuses

-----------------------------------------------------------------------------
(* One claim. *)

\* A claim that gets its status keeps the invariant, if what confirmed it was
\* heard, on a GitHub that is among its witnesses.
LEMMA SettleKeeps ==
    ASSUME Kept, NEW c \in Open, NEW confirmed, Settle(c, confirmed),
           UNCHANGED <<github, moves, subject, corroborated>>,
           heard \subseteq heard', heard' \subseteq Claims,
           witnessed' \in [Claims -> SUBSET GitHubs],
           \A e \in Claims : witnessed[e] \subseteq witnessed'[e],
           confirmed => c \in heard' /\ \E g \in witnessed'[c] : TrueOf(c, g)
    PROVE  Kept'
  <1>1. /\ status' = [status EXCEPT ![c] = Assessed(c, confirmed)]
        /\ listed' = Nobody
    BY DEF Settle
  <1>2. /\ c \in Claims /\ status[c] = "open"
        /\ status \in [Claims -> Statuses \cup {"open"}]
    BY DEF Kept, TypeOK, Open
  <1>3. /\ Claims' = Claims
        /\ status' \in [Claims -> Statuses \cup {"open"}]
        /\ \A e \in Claims : status'[e] = IF e = c THEN Assessed(c, confirmed) ELSE status[e]
    BY <1>1, <1>2, AssessedFacts DEF Claims
  <1>4. \A e \in Verified' : e \in Verified \/ (e = c /\ confirmed)
    BY <1>2, <1>3, AssessedFacts DEF Verified
  <1>5. TypeOK'
    BY <1>1, <1>3 DEF Kept, TypeOK
  <1>6. Walking'
    BY <1>1 DEF Walking, Nobody
  <1>7. WitnessedByGitHub'
    <2> SUFFICES ASSUME NEW e \in Verified' PROVE \E g \in witnessed'[e] : TrueOf(e, g)
      BY DEF WitnessedByGitHub
    <2>1. CASE e \in Verified
      BY <2>1 DEF Kept, WitnessedByGitHub, Verified
    <2>2. CASE e = c /\ confirmed
      BY <2>2
    <2> QED BY <1>4, <2>1, <2>2
  <1>8. NothingIsVerifiedUnheard'
    BY <1>4 DEF Kept, NothingIsVerifiedUnheard
  <1> QED BY <1>5, <1>6, <1>7, <1>8 DEF Kept

\* What Hear records.
LEMMA HearFacts ==
    ASSUME TypeOK, NEW c \in Claims, NEW body, Hear(c, body)
    PROVE  /\ heard \subseteq heard' /\ heard' \subseteq Claims
           /\ witnessed' \in [Claims -> SUBSET GitHubs]
           /\ \A e \in Claims : witnessed[e] \subseteq witnessed'[e]
           /\ github \in witnessed'[c]
           /\ body # <<>> => c \in heard'
  <1>1. /\ witnessed' = [witnessed EXCEPT ![c] = witnessed[c] \cup {github}]
        /\ witnessed \in [Claims -> SUBSET GitHubs] /\ github \in GitHubs
    BY DEF TypeOK, Hear
  <1>2. heard \subseteq heard' /\ heard' \subseteq Claims /\ (body # <<>> => c \in heard')
    BY DEF TypeOK, Hear
  <1>3. /\ witnessed' \in [Claims -> SUBSET GitHubs]
        /\ \A e \in Claims : witnessed'[e] = IF e = c THEN witnessed[c] \cup {github}
                                                     ELSE witnessed[e]
    BY <1>1
  <1> QED BY <1>2, <1>3

LEMMA PassOverKeeps == ASSUME Kept, NEW c \in Open, PassOver(c) PROVE Kept'
  BY SettleKeeps DEF PassOver, Kept, TypeOK

LEMMA VerifyCiStatusKeeps ==
    ASSUME Kept, NEW c \in Open, VerifyCiStatus(c) PROVE Kept'
  <1>1. PICK a \in Answers(github.checks) :
           Settle(c, a.ok /\ ChecksConfirm(c, a.body)) /\ Hear(c, a.body)
    BY DEF VerifyCiStatus
  <1>2. ClaimType(c) = "ci_status" /\ UNCHANGED <<github, moves, subject, corroborated>>
    BY DEF VerifyCiStatus, Asks
  <1>3. a.body = github.checks \/ a.body = <<>>
    BY DEF Answers
  <1> DEFINE confirmed == a.ok /\ ChecksConfirm(c, a.body)
  <1>4. confirmed => a.body # <<>> /\ TrueOf(c, github)
    BY <1>2, <1>3 DEF ChecksConfirm, TrueOf
  <1>5. Settle(c, confirmed) /\ c \in Claims
    BY <1>1 DEF Open
  <1> HIDE DEF confirmed
  <1> QED BY <1>1, <1>2, <1>4, <1>5, HearFacts, SettleKeeps DEF Kept

LEMMA VerifyDependencyChangeKeeps ==
    ASSUME Kept, NEW c \in Open, VerifyDependencyChange(c) PROVE Kept'
  <1>1. PICK a \in Answers(IF github.dependencies THEN <<"manifest">> ELSE <<>>) :
           Settle(c, a.ok /\ a.body # <<>>) /\ Hear(c, a.body)
    BY DEF VerifyDependencyChange
  <1>2. ClaimType(c) = "dependency_change" /\ UNCHANGED <<github, moves, subject, corroborated>>
    BY DEF VerifyDependencyChange, Asks
  <1>3. a.body # <<>> => github.dependencies
    BY DEF Answers
  <1> DEFINE confirmed == a.ok /\ a.body # <<>>
  <1>4. confirmed => a.body # <<>> /\ TrueOf(c, github)
    BY <1>2, <1>3 DEF TrueOf
  <1>5. Settle(c, confirmed) /\ c \in Claims
    BY <1>1 DEF Open
  <1> HIDE DEF confirmed
  <1> QED BY <1>1, <1>2, <1>4, <1>5, HearFacts, SettleKeeps DEF Kept

-----------------------------------------------------------------------------
(* The loop over the deployments. *)

\* The loop goes on with the deployments that are left.
LEMMA WalkKeeps ==
    ASSUME Kept, NEW c \in Open, ClaimType(c) = "deployment_status",
           NEW left \in SUBSET DOMAIN github.deployments, left # {},
           listed' = <<c, left>>,
           UNCHANGED <<github, moves, subject, corroborated, status>>,
           heard \subseteq heard', heard' \subseteq Claims,
           witnessed' \in [Claims -> SUBSET GitHubs],
           \A e \in Claims : witnessed[e] \subseteq witnessed'[e]
    PROVE  Kept'
  <1>1. Claims' = Claims /\ Open' = Open /\ Verified' = Verified
    BY DEF Claims, Open, Verified
  <1>2. left \subseteq 1..MaxRuns
    <2>1. github.deployments \in BoundedSeq(DeploymentStates)
      BY DEF Kept, TypeOK, GitHubs
    <2> QED BY <2>1, BoundedSeqFacts, BoundsAssumption
  <1>3. TypeOK'
    BY <1>1, <1>2 DEF Kept, TypeOK
  <1>4. Walking'
    BY <1>1 DEF Walking
  <1>5. WitnessedByGitHub'
    BY <1>1 DEF Kept, WitnessedByGitHub, Verified
  <1>6. NothingIsVerifiedUnheard'
    BY <1>1 DEF Kept, NothingIsVerifiedUnheard
  <1> QED BY <1>3, <1>4, <1>5, <1>6 DEF Kept

LEMMA ListDeploymentsKeeps ==
    ASSUME Kept, NEW c \in Open, ListDeployments(c) PROVE Kept'
  <1>1. PICK a \in Answers(github.deployments) :
           /\ IF a.body = <<>> THEN Settle(c, FALSE)
              ELSE listed' = <<c, DOMAIN a.body>> /\ UNCHANGED status
           /\ Hear(c, <<>>)
    BY DEF ListDeployments
  <1>2. /\ ClaimType(c) = "deployment_status" /\ c \in Claims
        /\ UNCHANGED <<github, moves, subject, corroborated>>
    BY DEF ListDeployments, Asks, Open
  <1>3. a.body = github.deployments \/ a.body = <<>>
    BY DEF Answers
  <1>4. CASE a.body = <<>>
    BY <1>1, <1>2, <1>4, HearFacts, SettleKeeps DEF Kept
  <1>5. CASE a.body # <<>>
    <2>1. DOMAIN a.body \in SUBSET DOMAIN github.deployments /\ DOMAIN a.body # {}
      <3>1. github.deployments \in BoundedSeq(DeploymentStates)
        BY DEF Kept, TypeOK, GitHubs
      <3>2. a.body \in Seq(DeploymentStates)
        BY <1>3, <1>5, <3>1, BoundedSeqFacts
      <3>3. Len(a.body) \in Nat \ {0} /\ DOMAIN a.body = 1..Len(a.body)
        BY <1>5, <3>2, EmptySeq, LenProperties
      <3> QED BY <1>3, <1>5, <3>3
    <2> QED BY <1>1, <1>2, <1>5, <2>1, HearFacts, WalkKeeps DEF Kept
  <1> QED BY <1>4, <1>5

LEMMA ReadDeploymentKeeps == ASSUME Kept, ReadDeployment PROVE Kept'
  <1> DEFINE c == listed[1]
             d == CHOOSE i \in listed[2] : \A j \in listed[2] : i <= j
             left == listed[2] \ {d}
             state == github.deployments[d]
  <1>1. PICK a \in Answers(IF state = "silent" THEN <<>> ELSE <<state>>), sense \in BOOLEAN :
           /\ LET confirms == sense /\ a.body # <<>> /\ DeploymentConfirms(c, a.body[1])
              IN IF confirms \/ left = {} \/ ~sense THEN Settle(c, confirms)
                 ELSE listed' = <<c, left>> /\ UNCHANGED status
           /\ Hear(c, a.body)
    BY DEF ReadDeployment
  <1>2. listed # Nobody /\ UNCHANGED <<github, moves, subject, corroborated>>
    BY DEF ReadDeployment
  <1>3. /\ c \in Open /\ c \in Claims /\ ClaimType(c) = "deployment_status"
        /\ listed[2] \subseteq DOMAIN github.deployments /\ listed[2] # {}
    BY <1>2 DEF Kept, Walking, Open
  <1>4. d \in DOMAIN github.deployments /\ left \in SUBSET DOMAIN github.deployments
    <2>1. github.deployments \in BoundedSeq(DeploymentStates)
      BY DEF Kept, TypeOK, GitHubs
    <2>2. listed[2] \subseteq Nat
      BY <1>3, <2>1, BoundedSeqFacts
    <2>3. \E i \in listed[2] : \A j \in listed[2] : i <= j
      BY <1>3, <2>2, LeastExists
    <2> QED BY <1>3, <2>3
  <1>5. a.body = <<state>> \/ a.body = <<>>
    BY DEF Answers
  <1> DEFINE confirms == sense /\ a.body # <<>> /\ DeploymentConfirms(c, a.body[1])
  <1>6. state \in States(github.deployments)
    BY <1>4 DEF States
  <1> HIDE DEF c, d, left, state
  <1>7. confirms => a.body # <<>> /\ TrueOf(c, github)
    BY <1>3, <1>5, <1>6 DEF DeploymentConfirms, TrueOf
  <1>8. \/ Settle(c, confirms)
        \/ left # {} /\ listed' = <<c, left>> /\ UNCHANGED status
    BY <1>1
  <1> HIDE DEF confirms
  <1>9. /\ heard \subseteq heard' /\ heard' \subseteq Claims
        /\ witnessed' \in [Claims -> SUBSET GitHubs]
        /\ \A e \in Claims : witnessed[e] \subseteq witnessed'[e]
        /\ github \in witnessed'[c]
        /\ a.body # <<>> => c \in heard'
    BY <1>1, <1>3, HearFacts DEF Kept
  <1>10. CASE Settle(c, confirms)
    <2>1. confirms => c \in heard' /\ \E g \in witnessed'[c] : TrueOf(c, g)
      BY <1>7, <1>9
    <2> QED BY <1>2, <1>3, <1>9, <1>10, <2>1, SettleKeeps
  <1>11. CASE left # {} /\ listed' = <<c, left>> /\ UNCHANGED status
    BY <1>2, <1>3, <1>4, <1>9, <1>11, WalkKeeps
  <1> QED BY <1>8, <1>10, <1>11

-----------------------------------------------------------------------------
(* GitHub goes on meanwhile. *)

LEMMA GitHubMovesKeeps == ASSUME Kept, GitHubMoves PROVE Kept'
  <1>1. /\ github.checks \in BoundedSeq(CheckStates)
        /\ github.deployments \in BoundedSeq(DeploymentStates)
        /\ github \in GitHubs
    BY DEF Kept, TypeOK, GitHubs
  <1>2. github' \in GitHubs /\ DOMAIN github'.deployments = DOMAIN github.deployments
    <2>1. ASSUME NEW i \in DOMAIN github.checks, NEW s \in CheckStates,
                 github' = [github EXCEPT !.checks[i] = s]
          PROVE  github' \in GitHubs /\ github'.deployments = github.deployments
      <3>1. [github.checks EXCEPT ![i] = s] \in BoundedSeq(CheckStates)
        BY <1>1, BoundedSeqFacts
      <3> QED BY <1>1, <2>1, <3>1 DEF GitHubs
    <2>2. ASSUME Len(github.checks) < MaxRuns,
                 github' = [github EXCEPT !.checks = Append(@, "running")]
          PROVE  github' \in GitHubs /\ github'.deployments = github.deployments
      <3>1. Append(github.checks, "running") \in BoundedSeq(CheckStates)
        BY <1>1, <2>2, BoundedAppend DEF CheckStates
      <3> QED BY <1>1, <2>2, <3>1 DEF GitHubs
    <2>3. ASSUME NEW i \in DOMAIN github.deployments, NEW s \in DeploymentStates \ {"silent"},
                 github' = [github EXCEPT !.deployments[i] = s]
          PROVE  github' \in GitHubs /\ DOMAIN github'.deployments = DOMAIN github.deployments
      <3> DEFINE after == [github.deployments EXCEPT ![i] = s]
      <3>1. after \in BoundedSeq(DeploymentStates) /\ DOMAIN after = DOMAIN github.deployments
        BY <1>1, BoundedSeqFacts
      <3>2. github' = [github EXCEPT !.deployments = after]
        BY <2>3
      <3> HIDE DEF after
      <3> QED BY <1>1, <3>1, <3>2 DEF GitHubs
    <2> QED BY <2>1, <2>2, <2>3 DEF GitHubMoves
  <1>3. /\ moves < MaxMoves /\ moves' = moves + 1
        /\ UNCHANGED <<subject, corroborated, status, listed, heard>>
        /\ witnessed' = IF listed = Nobody THEN witnessed
                        ELSE [witnessed EXCEPT ![listed[1]] = witnessed[listed[1]] \cup {github'}]
    BY DEF GitHubMoves
  <1>4. Claims' = Claims /\ Open' = Open /\ Verified' = Verified
    BY <1>3 DEF Claims, Open, Verified
  <1>5. moves' \in 0..MaxMoves
    BY <1>3, BoundsAssumption DEF Kept, TypeOK
  <1>6. /\ witnessed' \in [Claims -> SUBSET GitHubs]
        /\ \A e \in Claims : witnessed[e] \subseteq witnessed'[e]
    <2>1. witnessed \in [Claims -> SUBSET GitHubs]
      BY DEF Kept, TypeOK
    <2> QED BY <1>2, <1>3, <2>1
  <1>7. TypeOK'
    BY <1>2, <1>3, <1>4, <1>5, <1>6 DEF Kept, TypeOK
  <1>8. Walking'
    BY <1>2, <1>3, <1>4 DEF Kept, Walking
  <1>9. WitnessedByGitHub'
    BY <1>4, <1>6 DEF Kept, WitnessedByGitHub, Verified
  <1>10. NothingIsVerifiedUnheard'
    BY <1>3, <1>4 DEF Kept, NothingIsVerifiedUnheard
  <1> QED BY <1>7, <1>8, <1>9, <1>10 DEF Kept

-----------------------------------------------------------------------------

LEMMA InitKeeps == Init => Kept
  <1> SUFFICES ASSUME Init PROVE Kept
    OBVIOUS
  <1>1. PICK claims \in SUBSET Wordings :
           /\ corroborated \in SUBSET claims
           /\ status = [c \in claims |-> "open"]
           /\ witnessed = [c \in claims |-> {}]
    BY DEF Init
  <1>2. Claims = claims /\ Verified = {}
    BY <1>1 DEF Claims, Verified
  <1>3. TypeOK
    BY <1>1, <1>2, GitHubsAssumption, BoundsAssumption DEF Init, TypeOK
  <1> QED BY <1>2, <1>3 DEF Init, Kept, Walking, WitnessedByGitHub, NothingIsVerifiedUnheard

LEMMA NextKeeps == ASSUME Kept, [Next]_vars PROVE Kept'
  <1>1. ASSUME NEW c \in Open, Verify(c) PROVE Kept'
    BY <1>1, PassOverKeeps, VerifyCiStatusKeeps, VerifyDependencyChangeKeeps,
       ListDeploymentsKeeps DEF Verify
  <1>2. CASE UNCHANGED vars
    BY <1>2 DEF vars, Kept, TypeOK, Walking, WitnessedByGitHub, NothingIsVerifiedUnheard,
       Claims, Open, Verified
  <1> QED BY <1>1, <1>2, ReadDeploymentKeeps, GitHubMovesKeeps DEF Next

LEMMA AlwaysKept == Spec => []Kept
  BY InitKeeps, NextKeeps, PTL DEF Spec

-----------------------------------------------------------------------------
(* Theorems. *)

\* Verification keeps its types: the deployments still to be asked about belong
\* to a claim that is open, whatever happened to it or to them meanwhile.
THEOREM TypeCorrect == Spec => []TypeOK
  <1>1. Kept => TypeOK
    BY DEF Kept
  <1> QED BY <1>1, AlwaysKept, PTL

\* A verified claim has its witness: a GitHub that was there while it was being
\* verified and that bears it out, in part at least.
THEOREM VerifiedIsWitnessed == Spec => []WitnessedByGitHub
  <1>1. Kept => WitnessedByGitHub
    BY DEF Kept
  <1> QED BY <1>1, AlwaysKept, PTL

\* Silence, an empty list, a failed request or corroboration verifies nothing.
THEOREM VerifiedIsHeard == Spec => []NothingIsVerifiedUnheard
  <1>1. Kept => NothingIsVerifiedUnheard
    BY DEF Kept
  <1> QED BY <1>1, AlwaysKept, PTL
=============================================================================
