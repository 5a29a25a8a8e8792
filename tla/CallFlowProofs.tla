--------------------------- MODULE CallFlowProofs ---------------------------
(***************************************************************************)
(* Proofs about CallFlow and the OtpGate in it, for any workflows,         *)
(* transactions, utterances and limits.  The invariant of the gate relates *)
(* the counters of a code: a wrong guess is also an attempt, and an        *)
(* unlocked gate has guesses left; flags and counters are argued apart,    *)
(* the flags by Zenon and the counters by the SMT solver.  It holds of a   *)
(* call because its steps are steps of OtpGate.  The states of the         *)
(* orchestrator are good whatever operation they went through; that a turn *)
(* keeps them good needs to know where it is, which is Turn.               *)
(***************************************************************************)
EXTENDS CallFlow, TLAPS

-----------------------------------------------------------------------------
(* The one-time code.                                                      *)

Counting ==
  /\ otpMisses <= otpAttempts
  /\ ~otpLocked => otpMisses < MaxGuesses

(* A code has been sent when there is one. *)
Dated == otpCode => otpAge # "none"

OtpInv == OtpTypeOK /\ Counting /\ GuessesBounded /\ Dated

(* The digits are compared in this case only. *)
Compared == otpCode /\ otpAge # "expired" /\ ~otpLocked

(* The code opens the gate in no other state. *)
LEMMA OpensMeans ==
  ASSUME NEW right \in BOOLEAN, VerifyResult(right) = "otp_verified"
  PROVE  Compared /\ right
  BY DEF VerifyResult, Compared

(* The last wrong guess locks. *)
LEMMA LastGuess ==
  ASSUME NEW right \in BOOLEAN, Compared, ~right, Locks(otpAttempts + 1)
  PROVE  VerifyResult(right) = "otp_max_attempts"
  BY DEF VerifyResult, Compared

(* A code is sent only while the count is below the limit. *)
LEMMA SendMeans ==
  ASSUME SendResult = "otp_sent"
  PROVE  ~(otpSends >= MaxSends)
  BY DEF SendResult

(* The flags stay flags. *)
LEMMA FlagsStep ==
  ASSUME OtpFlags, [OtpNext]_otpVars
  PROVE  OtpFlags'
  <1>1. CASE SendOtp
    BY <1>1 DEF SendOtp, OtpFlags, Ages, otpVars
  <1>2. ASSUME NEW right \in BOOLEAN, VerifyOtp(right)
        PROVE  OtpFlags'
    BY <1>2 DEF VerifyOtp, OtpFlags
  <1>3. CASE RefundResets
    BY <1>3 DEF RefundResets, OtpFlags
  <1>4. CASE Age
    BY <1>4 DEF Age, OtpFlags, Ages
  <1>5. CASE UNCHANGED otpVars
    BY <1>5 DEF otpVars, OtpFlags
  <1> QED  BY <1>1, <1>2, <1>3, <1>4, <1>5 DEF OtpNext

(* What the counters do when verify_otp runs. *)
LEMMA VerifyCounts ==
  ASSUME NEW right \in BOOLEAN, VerifyOtp(right)
  PROVE  /\ otpSends' = otpSends
         /\ Compared => otpAttempts' = otpAttempts + 1 /\ otpAttempts < MaxTries
         /\ ~Compared => otpAttempts' = otpAttempts + 0
         /\ Compared /\ ~right => otpMisses' = otpMisses + 1
         /\ ~(Compared /\ ~right) => otpMisses' = otpMisses + 0
         /\ otpLocked => otpLocked'
         /\ Compared /\ ~right /\ Locks(otpAttempts + 1) => otpLocked'
  BY LastGuess DEF VerifyOtp, Compared

(* A guess keeps the counters in step. *)
LEMMA VerifyKeeps ==
  ASSUME NEW right \in BOOLEAN, OtpInv, VerifyOtp(right)
  PROVE  OtpCounters' /\ Counting' /\ GuessesBounded'
  <1> USE SendsAssumption, GuessesAssumption, TriesAssumption
  <1>1. OtpCounters /\ Counting /\ GuessesBounded
    BY DEF OtpInv, OtpTypeOK
  <1>2. OtpCounters'
    BY <1>1, VerifyCounts DEF OtpCounters
  <1>3. CASE Compared /\ ~right
    <2>1. ~otpLocked /\ otpMisses < MaxGuesses
      BY <1>1, <1>3 DEF Compared, Counting
    <2>2. otpAttempts' = otpAttempts + 1 /\ otpMisses' = otpMisses + 1
      BY <1>3, VerifyCounts
    <2>3. ~otpLocked' => otpAttempts + 1 < MaxGuesses
      BY <1>1, <1>3, VerifyCounts DEF Locks, OtpCounters
    <2> QED  BY <1>1, <1>2, <2>1, <2>2, <2>3, VerifyCounts
             DEF OtpCounters, Counting, GuessesBounded
  <1>4. CASE ~(Compared /\ ~right)
    <2>1. otpMisses' = otpMisses + 0 /\ otpSends' = otpSends
      BY <1>4, VerifyCounts
    <2>2. otpAttempts' = otpAttempts + 1 \/ otpAttempts' = otpAttempts + 0
      BY VerifyCounts
    <2>3. ~otpLocked' => otpMisses < MaxGuesses
      BY <1>1, VerifyCounts DEF Counting
    <2> QED  BY <1>1, <1>2, <2>1, <2>2, <2>3
             DEF OtpCounters, Counting, GuessesBounded
  <1> QED  BY <1>2, <1>3, <1>4

(* A new code starts the counters again. *)
LEMMA SendKeeps ==
  ASSUME OtpInv, SendOtp
  PROVE  OtpCounters' /\ Counting' /\ GuessesBounded'
  <1> USE SendsAssumption, GuessesAssumption, TriesAssumption
  <1>1. OtpCounters /\ Counting /\ GuessesBounded
    BY DEF OtpInv, OtpTypeOK
  <1>2. CASE SendResult = "otp_sent"
    <2>1. /\ otpAttempts' = 0 /\ otpMisses' = 0
          /\ otpSends' = otpSends + 1
          /\ ~(otpSends >= MaxSends)
      BY <1>2, SendMeans DEF SendOtp
    <2> QED  BY <1>1, <2>1 DEF OtpCounters, Counting, GuessesBounded
  <1>3. CASE SendResult # "otp_sent"
    <2>1. UNCHANGED otpVars
      BY <1>3 DEF SendOtp
    <2> QED  BY <1>1, <2>1 DEF otpVars, OtpCounters, Counting, GuessesBounded
  <1> QED  BY <1>2, <1>3

(* Every step keeps the invariant. *)
LEMMA OtpStep == OtpInv /\ [OtpNext]_otpVars => OtpInv'
  <1> SUFFICES ASSUME OtpInv, [OtpNext]_otpVars
               PROVE  OtpInv'
    OBVIOUS
  <1>1. OtpCounters /\ Counting /\ GuessesBounded
    BY DEF OtpInv, OtpTypeOK
  <1>2. OtpFlags'
    BY FlagsStep DEF OtpInv, OtpTypeOK
  <1>3. OtpCounters' /\ Counting' /\ GuessesBounded'
    <2>1. CASE SendOtp
      BY <2>1, SendKeeps
    <2>2. ASSUME NEW right \in BOOLEAN, VerifyOtp(right)
          PROVE  OtpCounters' /\ Counting' /\ GuessesBounded'
      BY <2>2, VerifyKeeps
    <2>3. CASE RefundResets
      BY <1>1, <2>3 DEF RefundResets, OtpCounters, Counting, GuessesBounded
    <2>4. CASE Age
      BY <1>1, <2>4 DEF Age, OtpCounters, Counting, GuessesBounded
    <2>5. CASE UNCHANGED otpVars
      BY <1>1, <2>5 DEF otpVars, OtpCounters, Counting, GuessesBounded
    <2> QED  BY <2>1, <2>2, <2>3, <2>4, <2>5 DEF OtpNext
  <1>4. Dated'
    BY DEF OtpInv, OtpNext, SendOtp, VerifyOtp, RefundResets, Age, otpVars, Dated
  <1> QED  BY <1>2, <1>3, <1>4 DEF OtpInv, OtpTypeOK

(* The inductive invariant of the gate. *)
THEOREM OtpInvariant == OtpSpec => []OtpInv
  <1>1. ASSUME OtpInit
        PROVE  OtpInv
    <2>1. OtpFlags
      BY <1>1, Zenon DEF OtpInit, OtpFlags, Ages
    <2>2. otpAttempts = 0 /\ otpSends = 0 /\ otpMisses = 0
      BY <1>1 DEF OtpInit
    <2>3. OtpCounters /\ Counting /\ GuessesBounded
      BY <2>2, SendsAssumption, GuessesAssumption, TriesAssumption
      DEF OtpCounters, Counting, GuessesBounded
    <2>4. Dated
      BY <1>1 DEF OtpInit, Dated
    <2> QED  BY <2>1, <2>3, <2>4 DEF OtpInv, OtpTypeOK
  <1> QED  BY <1>1, OtpStep, PTL DEF OtpSpec

(* send_otp and verify_otp keep the session's fields within their types,   *)
(* and its counters within the limits.                                     *)
THEOREM OtpTypeCorrect == OtpSpec => []OtpTypeOK
  BY OtpInvariant, PTL DEF OtpInv

(* However the tools are called, a session compares at most MaxGuesses     *)
(* wrong guesses with each of at most MaxSends codes.                      *)
THEOREM GuessesAreBounded == OtpSpec => []GuessesBounded
  BY OtpInvariant, PTL DEF OtpInv

(* The gate opens on a live, unlocked code only. *)
THEOREM GateOpensOnLiveCode == OtpSpec => OpensOnLiveCode
  <1> DEFINE A == ~otpVerified /\ otpVerified' =>
       otpAge \in {"cooling", "live"} /\ ~otpLocked /\ otpMisses < MaxGuesses
  <1>1. ASSUME OtpInv, [OtpNext]_otpVars, ~otpVerified, otpVerified'
        PROVE  otpAge \in {"cooling", "live"} /\ ~otpLocked
               /\ otpMisses < MaxGuesses
    <2>1. PICK right \in BOOLEAN : VerifyOtp(right)
      BY <1>1 DEF OtpNext, SendOtp, RefundResets, Age, otpVars
    <2>2. VerifyResult(right) = "otp_verified"
      BY <1>1, <2>1 DEF VerifyOtp
    <2>3. Compared
      BY <2>2, OpensMeans
    <2>4. otpAge \in {"cooling", "live"}
      BY <1>1, <2>3 DEF OtpInv, OtpTypeOK, OtpFlags, Ages, Compared, Dated
    <2>5. ~otpLocked /\ otpMisses < MaxGuesses
      BY <1>1, <2>3 DEF OtpInv, Compared, Counting
    <2> QED  BY <2>4, <2>5
  <1> QED  BY <1>1, OtpInvariant, PTL DEF OtpSpec, OpensOnLiveCode

(* Once the codes are used up and the last one is gone, locked or expired, *)
(* nothing verifies the caller.                                            *)
THEOREM SpentIsFinal == OtpSpec => SpentStaysSpent
  <1>1. ASSUME OtpInv, Spent, [OtpNext]_otpVars
        PROVE  Spent'
    <2>1. CASE SendOtp
      <3>1. ~(SendResult = "otp_sent")
        BY <1>1, SendMeans DEF Spent, OtpInv, OtpTypeOK, OtpCounters
      <3> QED  BY <1>1, <2>1, <3>1 DEF SendOtp, Spent, otpVars
    <2>2. ASSUME NEW right \in BOOLEAN, VerifyOtp(right)
          PROVE  Spent'
      <3>1. ~Compared
        BY <1>1 DEF Spent, Compared
      <3>2. ~otpVerified'
        BY <1>1, <2>2, <3>1, OpensMeans DEF Spent, VerifyOtp
      <3>3. ~otpCode' \/ otpLocked' \/ otpAge' = "expired"
        BY <1>1, <2>2 DEF Spent, VerifyOtp
      <3>4. otpSends' = MaxSends
        BY <1>1, <2>2 DEF Spent, VerifyOtp
      <3> QED  BY <3>2, <3>3, <3>4 DEF Spent
    <2>3. CASE RefundResets
      BY <1>1, <2>3 DEF RefundResets, Spent
    <2>4. CASE Age
      BY <1>1, <2>4 DEF Age, Spent
    <2>5. CASE UNCHANGED otpVars
      BY <1>1, <2>5 DEF otpVars, Spent
    <2> QED  BY <1>1, <2>1, <2>2, <2>3, <2>4, <2>5 DEF OtpNext
  <1> QED  BY <1>1, OtpInvariant, PTL DEF OtpSpec, SpentStaysSpent

-----------------------------------------------------------------------------
(* The orchestrator.                                                       *)

Places ==
  {"listen", "again", "dispatch", "advance", "act", "edge", "llm", "handoff"}

(* What a state of the orchestrator is after any operation. *)
Good(s, opened) ==
  /\ s \in States
  /\ s.mode = "GENERAL" => s.wf = "none"
  /\ s.mode = "WORKFLOW" =>
       /\ s.wf \in Workflows
       /\ s.node \in Nodes
       /\ s.attempts <= MaxAttempts(s.node)
       /\ s.wf \notin s.completed
  /\ s.verified => opened

(* Where the turn is and what that says of the state, of the result and of *)
(* the remembered successes.                                               *)
Turn ==
  /\ pc \in Places
  /\ said \in Utterances \cup {Filler}
  /\ pc = "listen" => said = Filler /\ offered = {} /\ result = "none"
  /\ pc = "dispatch" => result = "none"
  /\ pc \in {"advance", "act", "edge"} => state.mode = "WORKFLOW"
  /\ pc \in {"act", "edge"} => AutoAction(state.node) # "none"
  /\ state.mode = "ESCALATION" => pc \in {"listen", "dispatch", "handoff"}
  /\ pc = "edge" /\ state.node = "verify_otp"
       /\ Normalize(result) = "success" => hist.opened
  /\ \A d \in done : d.tool = "verify_otp" => hist.opened

Flags ==
  /\ identified \in BOOLEAN
  /\ escalated \in BOOLEAN
  /\ hist \in [named : Txns \cup {NoTxn}, opened : BOOLEAN]

FlowInv == Good(state, hist.opened) /\ Turn /\ Flags

-----------------------------------------------------------------------------
(* A call uses the code in no other way than OtpGate describes: each of    *)
(* its steps sends a code, checks one, resets the verification after a     *)
(* refund, lets time pass, or leaves the code alone.                       *)
THEOREM FlowUsesGate == Spec => OtpSpec
<1>1. Init => OtpInit
  BY DEF Init
<1>2. [Next]_vars => [OtpNext]_otpVars
  <2> SUFFICES ASSUME [Next]_vars PROVE [OtpNext]_otpVars
    OBVIOUS
  <2>1. CASE \E u \in Utterances : Hear(u)
    BY <2>1 DEF Hear, Monitor
  <2>2. CASE HearAgain
    BY <2>2 DEF HearAgain, Monitor
  <2>3. CASE Dispatch
    BY <2>3
    DEF Dispatch, DispatchEscalation, DispatchEnter, DispatchGeneral,
        DispatchWorkflow
  <2>4. CASE Visit
    BY <2>4 DEF Visit, AdvanceEnd, AdvanceAct, AdvanceWait
  <2>5. CASE CallSendOtp
    BY <2>5 DEF CallSendOtp, OtpNext
  <2>6. CASE CallVerifyOtp
    <3>1. (state.otp = otpSends) \in BOOLEAN
      OBVIOUS
    <3> QED
      BY <2>6, <3>1 DEF CallVerifyOtp, OtpNext
  <2>7. CASE \/ Reprompt \/ ToolFails \/ CallCached \/ CallVerifyAccount
             \/ CallLookup \/ CallWriteTool
    BY <2>7
    DEF Reprompt, ToolFails, CallCached, CallVerifyAccount, CallLookup,
        CallWriteTool
  <2>8. CASE FollowEdge
    BY <2>8 DEF FollowEdge
  <2>9. CASE LlmSendOtp
    BY <2>9 DEF LlmSendOtp, OtpNext
  <2>10. CASE LlmRefund
    BY <2>10 DEF LlmRefund, OtpNext
  <2>11. CASE \/ Speak \/ LlmQuery \/ LlmRefused \/ LlmEscalate
              \/ \E tool \in WriteTools : LlmWrite(tool)
    BY <2>11 DEF Speak, LlmQuery, LlmRefused, LlmEscalate, LlmWrite
  <2>12. CASE Handoff \/ Interrupt \/ Forget
    BY <2>12 DEF Handoff, Interrupt, Forget
  <2>13. CASE Wait
    BY <2>13 DEF Wait, OtpNext
  <2>14. CASE Transferred \/ UNCHANGED vars
    BY <2>14 DEF Transferred, vars
  <2> QED
    BY <2>1, <2>2, <2>3, <2>4, <2>5, <2>6, <2>7, <2>8, <2>9, <2>10, <2>11,
       <2>12, <2>13, <2>14 DEF Next, Work, CallTool, Llm
<1> QED
  BY <1>1, <1>2, PTL DEF Spec, OtpSpec

(* Whatever the workflows, the LLM and the caller do, a call compares at   *)
(* most MaxGuesses wrong guesses with each of at most MaxSends codes.      *)
THEOREM CallGuessesBounded == Spec => []GuessesBounded
  BY FlowUsesGate, GuessesAreBounded, PTL

-----------------------------------------------------------------------------
(* The graphs: a target is a node or the end, and the timeout of a node    *)
(* leads to a node.                                                        *)
LEMMA PostVerifyType ==
  ASSUME NEW w \in Workflows
  PROVE  w \in AllWorkflows /\ PostVerify[w] \in Nodes
<1>1. w \in AllWorkflows
  BY WorkflowsAssumption
<1> QED
  BY <1>1 DEF AllWorkflows, PostVerify, Nodes, TaskNodes, CollectTxn

LEMMA TargetType ==
  ASSUME NEW w \in Workflows, NEW n \in Nodes, n # "escalate_node", NEW key
  PROVE  Target(w, n, key) \in Nodes \cup {"__end__"}
<1>1. CASE n = "collect_phone"
  BY <1>1 DEF Target, Edges, VerificationEdges, Nodes, TaskNodes, CollectTxn
<1>2. CASE n = "send_otp"
  BY <1>2 DEF Target, Edges, VerificationEdges, Nodes, TaskNodes, CollectTxn
<1>3. CASE n = "verify_otp"
  BY <1>3, PostVerifyType DEF Target, Edges, VerificationEdges, Nodes
<1>4. CASE n = "issue_discovery"
  BY <1>4 DEF Target, Edges, SupportEdges, Nodes, TaskNodes, CollectTxn
<1>5. CASE n = "check_status"
  BY <1>5 DEF Target, Edges, StatusEdges, Nodes, TaskNodes, CollectTxn
<1>6. CASE n = "collect_txn_refund"
  BY <1>6 DEF Target, Edges, RefundEdges, Nodes, TaskNodes, CollectTxn
<1>7. CASE n = "collect_txn_dispute"
  BY <1>7 DEF Target, Edges, DisputeEdges, Nodes, TaskNodes, CollectTxn
<1>8. CASE n = "collect_txn_fraud"
  BY <1>8 DEF Target, Edges, FraudEdges, Nodes, TaskNodes, CollectTxn
<1>9. CASE n = "confirm_refund"
  BY <1>9 DEF Target, Edges, RefundEdges, Nodes, TaskNodes, CollectTxn
<1>10. CASE n = "file_dispute_action"
  BY <1>10 DEF Target, Edges, DisputeEdges, Nodes, TaskNodes, CollectTxn
<1>11. CASE n = "report_fraud_action"
  BY <1>11 DEF Target, Edges, FraudEdges, Nodes, TaskNodes, CollectTxn
<1>12. CASE n = "unlock_account_node"
  BY <1>12 DEF Target, Edges, UnlockEdges, Nodes, TaskNodes, CollectTxn
<1> QED
  BY <1>1, <1>2, <1>3, <1>4, <1>5, <1>6, <1>7, <1>8, <1>9, <1>10, <1>11,
     <1>12 DEF Nodes, TaskNodes, CollectTxn

LEMMA TimeoutTarget ==
  ASSUME NEW w \in Workflows, NEW n \in Nodes, n # "escalate_node"
  PROVE  Target(w, n, TimeoutEdge(n)) \in Nodes
<1>1. CASE n \in {"collect_phone", "send_otp", "verify_otp"}
  BY <1>1 DEF Target, Edges, VerificationEdges, TimeoutEdge, Nodes
<1>2. CASE n \in CollectTxn
  BY <1>2 DEF Target, Edges, RefundEdges, DisputeEdges, FraudEdges, TimeoutEdge, Nodes,
         CollectTxn
<1>3. CASE n \in {"issue_discovery", "check_status", "confirm_refund"}
  BY <1>3 DEF Target, Edges, SupportEdges, StatusEdges, RefundEdges, TimeoutEdge, Nodes
<1>4. CASE n \in {"file_dispute_action", "report_fraud_action", "unlock_account_node"}
  BY <1>4 DEF Target, Edges, DisputeEdges, FraudEdges, UnlockEdges, TimeoutEdge, Nodes
<1> QED
  BY <1>1, <1>2, <1>3, <1>4 DEF Nodes, TaskNodes, CollectTxn

LEMMA MaxAttemptsType ==
  ASSUME NEW n PROVE MaxAttempts(n) \in 1..20
  BY DEF MaxAttempts

LEMMA EntryType ==
  ASSUME NEW w \in Workflows, NEW router
  PROVE  EntryNode(w, router) \in Nodes
  BY PostVerifyType DEF EntryNode, Nodes

-----------------------------------------------------------------------------
(* The operations of OrchestratorState keep a good state good. *)
LEMMA EnterGood ==
  ASSUME NEW s, NEW opened, Good(s, opened), NEW w \in Workflows, NEW n \in Nodes,
         w \notin s.completed
  PROVE  /\ Good(EnterWorkflow(s, w, n), opened)
         /\ EnterWorkflow(s, w, n).mode = "WORKFLOW"
<1>1. 0 <= MaxAttempts(n) /\ w # "none"
  BY MaxAttemptsType, WorkflowsAssumption DEF AllWorkflows
<1> DEFINE t == EnterWorkflow(s, w, n)
<1>2. s \in States
  BY DEF Good
<1>3. t \in States
  <2>1. 0 \in 0..20 /\ w \in Workflows \cup {"none"} /\ n \in Nodes \cup {"none"}
    OBVIOUS
  <2>2. t = [s EXCEPT !.mode = "WORKFLOW", !.wf = w, !.node = n, !.attempts = 0]
    BY DEF EnterWorkflow
  <2> HIDE DEF t
  <2> QED
    BY <1>2, <2>1, <2>2 DEF States
<1>4. t.mode = "WORKFLOW" /\ t.wf = w /\ t.node = n /\ t.attempts = 0
  BY <1>2 DEF EnterWorkflow, States
<1>5. t.completed = s.completed /\ t.verified = s.verified
  BY <1>2 DEF EnterWorkflow, States
<1>6. t.attempts <= MaxAttempts(t.node)
  BY <1>1, <1>4
<1> HIDE DEF t
<1>7. Good(t, opened)
  BY <1>3, <1>4, <1>5, <1>6 DEF Good
<1> QED
  BY <1>4, <1>7 DEF t

LEMMA AdvanceGood ==
  ASSUME NEW s, NEW opened, Good(s, opened), s.mode = "WORKFLOW", NEW n \in Nodes
  PROVE  /\ Good(AdvanceTo(s, n), opened)
         /\ AdvanceTo(s, n).mode = "WORKFLOW"
         /\ AdvanceTo(s, n).node = n
<1>1. 0 <= MaxAttempts(n)
  BY MaxAttemptsType
<1> DEFINE t == AdvanceTo(s, n)
<1>2. s \in States
  BY DEF Good
<1>3. t \in States
  <2>1. 0 \in 0..20 /\ n \in Nodes \cup {"none"}
    OBVIOUS
  <2> QED
    BY <1>2, <2>1 DEF AdvanceTo, States
<1>4. t.mode = s.mode /\ t.wf = s.wf /\ t.node = n /\ t.attempts = 0
  BY <1>2 DEF AdvanceTo, States
<1>5. t.completed = s.completed /\ t.verified = s.verified
  BY <1>2 DEF AdvanceTo, States
<1>6. t.attempts <= MaxAttempts(t.node)
  BY <1>1, <1>4
<1> HIDE DEF t
<1>7. Good(t, opened)
  BY <1>3, <1>4, <1>5, <1>6 DEF Good
<1> QED
  BY <1>4, <1>7 DEF t

LEMMA ExitGood ==
  ASSUME NEW s, NEW opened, Good(s, opened)
  PROVE  /\ Good(ExitWorkflow(s), opened)
         /\ ExitWorkflow(s).mode = "GENERAL"
         /\ ExitWorkflow(s).verified = s.verified
         /\ ExitWorkflow(s).completed = s.completed \cup ({s.wf} \ {"none"})
<1> DEFINE t == ExitWorkflow(s)
<1>1. s \in States
  BY DEF Good
<1>2. NoPhone(s) \in {"none", "part"} /\ NoCode \in 0..WrongCode
  BY SendsAssumption DEF NoPhone, NoCode, WrongCode
<1>3. s.completed \cup ({s.wf} \ {"none"}) \in SUBSET Workflows
  BY <1>1 DEF States
<1>4. t \in States
  <2>1. 0 \in 0..20
    OBVIOUS
  <2> QED
    BY <1>1, <1>2, <1>3, <2>1 DEF ExitWorkflow, States
<1>5. /\ t.mode = "GENERAL" /\ t.wf = "none"
      /\ t.completed = s.completed \cup ({s.wf} \ {"none"})
      /\ t.verified = s.verified
  BY <1>1 DEF ExitWorkflow, States
<1> HIDE DEF t
<1>6. Good(t, opened)
  BY <1>4, <1>5 DEF Good
<1> QED
  BY <1>5, <1>6 DEF t

LEMMA ClearGood ==
  ASSUME NEW s, NEW opened, Good(s, opened)
  PROVE  /\ Good(ClearSlot(s), opened)
         /\ ClearSlot(s).mode = s.mode
         /\ ClearSlot(s).node = s.node
<1> DEFINE t == ClearSlot(s)
<1>1. s \in States
  BY DEF Good
<1>2. NoPhone(s) \in {"none", "part"} /\ NoCode \in 0..WrongCode
  BY SendsAssumption DEF NoPhone, NoCode, WrongCode
<1>3. t \in States
  BY <1>1, <1>2 DEF ClearSlot, States
<1>4. /\ t.mode = s.mode /\ t.wf = s.wf /\ t.node = s.node
      /\ t.attempts = s.attempts /\ t.completed = s.completed
      /\ t.verified = s.verified
  BY <1>1 DEF ClearSlot, States
<1> HIDE DEF t
<1>5. Good(t, opened)
  BY <1>3, <1>4 DEF Good
<1> QED
  BY <1>4, <1>5 DEF t

LEMMA CountGood ==
  ASSUME NEW s, NEW opened, Good(s, opened), s.mode = "WORKFLOW",
         ~(CountVisit(s).attempts > MaxAttempts(s.node))
  PROVE  /\ Good(CountVisit(s), opened)
         /\ CountVisit(s).mode = "WORKFLOW"
<1>1. MaxAttempts(s.node) \in 1..20
  BY MaxAttemptsType
<1> QED
  BY <1>1 DEF Good, CountVisit, States

LEMMA EscalateGood ==
  ASSUME NEW s, NEW opened, Good(s, opened)
  PROVE  Good([s EXCEPT !.mode = "ESCALATION"], opened)
  BY DEF Good, States

LEMMA PendingGood ==
  ASSUME NEW s, NEW opened, Good(s, opened), NEW b \in BOOLEAN
  PROVE  /\ Good([s EXCEPT !.pending = b], opened)
         /\ [s EXCEPT !.pending = b].mode = s.mode
  BY DEF Good, States

LEMMA PhoneGood ==
  ASSUME NEW s, NEW opened, Good(s, opened)
  PROVE  Good([s EXCEPT !.phone = "none"], opened)
  BY DEF Good, States

LEMMA TxnGood ==
  ASSUME NEW s, NEW opened, Good(s, opened), NEW t \in Txns \cup {NoTxn}
  PROVE  /\ Good([s EXCEPT !.txn = t], opened)
         /\ [s EXCEPT !.txn = t].mode = s.mode
         /\ [s EXCEPT !.txn = t].node = s.node
         /\ [s EXCEPT !.txn = t].wf = s.wf
  BY DEF Good, States

LEMMA TerminalGood ==
  ASSUME NEW s, NEW opened, Good(s, opened), NEW tool \in WriteTools
  PROVE  /\ Good([s EXCEPT !.terminal = @ \cup {tool}], opened)
         /\ [s EXCEPT !.terminal = @ \cup {tool}].mode = s.mode
  BY DEF Good, States

LEMMA LeaveGood ==
  ASSUME NEW s, NEW opened, Good(s, opened), NEW u
  PROVE  /\ Good(Leave(u, s), opened)
         /\ s.mode = "ESCALATION" => Leave(u, s) = s
         /\ Leave(u, s).mode = "ESCALATION" => s.mode = "ESCALATION"
  BY ExitGood DEF Leave

LEMMA PrefillsGood ==
  ASSUME NEW opened, Good(state, opened), NEW s \in Prefills(state)
  PROVE  /\ Good(s, opened)
         /\ s.mode = state.mode /\ s.node = state.node /\ s.wf = state.wf
<1>1. Inferred \in Txns \cup {NoTxn}
  BY TxnsAssumption
<1>2. CASE s = state
  BY <1>2
<1>3. CASE \E t \in {Inferred, NoTxn} : s = [state EXCEPT !.txn = t]
  <2>1. PICK t \in {Inferred, NoTxn} : s = [state EXCEPT !.txn = t]
    BY <1>3
  <2> QED
    BY <1>1, <2>1, TxnGood
<1> QED
  BY <1>2, <1>3 DEF Prefills

LEMMA ReadsGood ==
  ASSUME NEW opened, Good(state, opened), NEW s \in Reads(state)
  PROVE  Good(s, opened) /\ s.mode = state.mode
<1>1. Owned \subseteq Txns
  BY TxnsAssumption
<1>2. CASE s = state
  BY <1>2
<1>3. CASE \E t \in Owned : s = [state EXCEPT !.txn = t]
  <2>1. PICK t \in Owned : s = [state EXCEPT !.txn = t]
    BY <1>3
  <2> QED
    BY <1>1, <2>1, TxnGood
<1> QED
  BY <1>2, <1>3 DEF Reads
-----------------------------------------------------------------------------
(* Where a step leaves the turn. *)
LEMMA Settles ==
  ASSUME Turn, pc' \in {"listen", "dispatch", "handoff"}, result' = "none",
         said' \in Utterances \cup {Filler},
         pc' = "listen" => said' = Filler /\ offered' = {},
         done' \subseteq done, hist'.opened = hist.opened
  PROVE  Turn'
  BY DEF Turn, Places

LEMMA Ends ==
  ASSUME Turn, EndTurn, done' \subseteq done, hist'.opened = hist.opened
  PROVE  Turn'
  BY Settles DEF EndTurn

LEMMA Prompts ==
  ASSUME Turn, NEW tools, Prompt(tools), state'.mode # "ESCALATION",
         done' = done, hist' = hist
  PROVE  Turn'
<1>1. CASE tools = {}
  BY <1>1, Ends DEF Prompt
<1>2. CASE tools # {}
  BY <1>2 DEF Prompt, Turn, Places
<1> QED
  BY <1>1, <1>2

LEMMA Runs ==
  ASSUME Turn, GoTo("again"), state'.mode # "ESCALATION", done' = done, hist' = hist
  PROVE  Turn'
  BY DEF GoTo, Turn, Places

LEMMA Visits ==
  ASSUME Turn, GoTo("advance"), state'.mode = "WORKFLOW", done' = done, hist' = hist
  PROVE  Turn'
  BY DEF GoTo, Turn, Places

-----------------------------------------------------------------------------
(* The steps, in the order of Next. *)
LEMMA ExtractGood ==
  ASSUME NEW opened, Good(state, opened), OtpTypeOK,
         NEW u \in Utterances \cup {Filler},
         NEW ph \in HeardPhones(u), NEW code \in HeardCodes(u)
  PROVE  /\ Good(Extract(u, ph, code), opened)
         /\ Extract(u, ph, code).mode = state.mode
<1> DEFINE s == Extract(u, ph, code)
<1>1. state \in States
  BY DEF Good
<1>2. /\ u.phone \in {"none", "part", "known", "unknown"}
      /\ u.txn \in Txns \cup {NoTxn}
  BY UtterancesAssumption DEF Utterance, Filler
<1>3. ph \in FullPhones \cup {"none", "part"}
  BY <1>1, <1>2 DEF HeardPhones, FullPhones, States
<1>4. code \in 0..WrongCode
  <2>1. otpSends \in 0..MaxSends
    BY DEF OtpTypeOK, OtpCounters
  <2>2. state.otp \in 0..WrongCode
    BY <1>1 DEF States
  <2> QED
    BY <2>1, <2>2, SendsAssumption DEF HeardCodes, WrongCode
<1>5. s \in States
  <2> DEFINE txn == IF state.txn = NoTxn THEN u.txn ELSE state.txn
  <2>1. txn \in Txns \cup {NoTxn}
    BY <1>1, <1>2 DEF States
  <2>2. s = [state EXCEPT !.phone = ph, !.otp = code, !.txn = txn]
    BY DEF Extract
  <2> HIDE DEF s, txn
  <2> QED
    BY <1>1, <1>3, <1>4, <2>1, <2>2 DEF States
<1>6. /\ s.mode = state.mode /\ s.wf = state.wf /\ s.node = state.node
      /\ s.attempts = state.attempts /\ s.completed = state.completed
      /\ s.verified = state.verified
  BY <1>1 DEF Extract, States
<1> HIDE DEF s
<1>7. Good(s, opened)
  BY <1>5, <1>6 DEF Good
<1> QED
  BY <1>6, <1>7 DEF s

LEMMA MonitorStep ==
  ASSUME FlowInv, OtpTypeOK, NEW u \in Utterances \cup {Filler}, Monitor(u)
  PROVE  FlowInv'
<1>1. PICK ph \in HeardPhones(u), code \in HeardCodes(u) :
        LET s == Extract(u, ph, code)
            confirms == s.pending /\ u.signal \in {"transfer", "yes"}
            asks == ~s.pending /\ u.signal = "transfer" IN
        /\ hist' = [hist EXCEPT !.named = IF u.txn = NoTxn THEN @ ELSE u.txn]
        /\ IF s.mode = "ESCALATION"
           THEN state' = Leave(u, s) /\ Take(u, "dispatch")
           ELSE IF confirms
           THEN /\ state' = [s EXCEPT !.pending = FALSE, !.mode = "ESCALATION"]
                /\ Take(u, "handoff")
           ELSE IF asks
           THEN state' = [s EXCEPT !.pending = TRUE] /\ EndTurn
           ELSE /\ state' = Leave(u, [s EXCEPT !.pending = @ /\ ~Declines(u)])
                /\ Take(u, "dispatch")
        /\ UNCHANGED <<identified, done, escalated, interrupts, otpVars>>
  BY DEF Monitor
<1> DEFINE s == Extract(u, ph, code)
<1>2. Good(s, hist.opened)
  BY ExtractGood DEF FlowInv
<1>3. u.txn \in Txns \cup {NoTxn}
  BY UtterancesAssumption DEF Utterance, Filler
<1>4. hist' \in [named : Txns \cup {NoTxn}, opened : BOOLEAN]
  BY <1>1, <1>3 DEF FlowInv, Flags
<1>5. hist'.opened = hist.opened
  BY <1>1 DEF FlowInv, Flags
<1>6. (s.pending /\ ~Declines(u)) \in BOOLEAN /\ TRUE \in BOOLEAN /\ FALSE \in BOOLEAN
  OBVIOUS
<1> HIDE DEF s
<1>7. Good(state', hist.opened)
  <2>1. CASE state' = Leave(u, s)
    BY <2>1, <1>2, LeaveGood
  <2>2. CASE state' = [s EXCEPT !.pending = FALSE, !.mode = "ESCALATION"]
    BY <2>2, <1>2 DEF Good, States
  <2>3. CASE state' = [s EXCEPT !.pending = TRUE]
    BY <2>3, <1>2, PendingGood
  <2>4. CASE state' = Leave(u, [s EXCEPT !.pending = s.pending /\ ~Declines(u)])
    <3>1. Good([s EXCEPT !.pending = s.pending /\ ~Declines(u)], hist.opened)
      BY <1>2, <1>6, PendingGood
    <3> QED
      BY <2>4, <3>1, LeaveGood
  <2> QED
    BY <1>1, <2>1, <2>2, <2>3, <2>4 DEF s
<1>8. Turn'
  <2>1. Take(u, "dispatch") \/ Take(u, "handoff") \/ EndTurn
    BY <1>1
  <2>2. done' = done
    BY <1>1
  <2> QED
    BY <1>5, <2>1, <2>2, Settles DEF FlowInv, Take, EndTurn
<1>9. Flags'
  BY <1>1, <1>4 DEF FlowInv, Flags
<1> QED
  BY <1>5, <1>7, <1>8, <1>9 DEF FlowInv

LEMMA EnterStep ==
  ASSUME FlowInv, NEW w \in Workflows, w \notin state.completed, NEW router,
         state' = EnterWorkflow(state, w, EntryNode(w, router)),
         GoTo("advance"), UNCHANGED <<identified, done, escalated, hist>>
  PROVE  FlowInv'
<1>1. EntryNode(w, router) \in Nodes
  BY EntryType
<1>2. Good(state', hist.opened) /\ state'.mode = "WORKFLOW"
  BY <1>1, EnterGood DEF FlowInv
<1>3. Turn'
  BY <1>2, Visits DEF FlowInv
<1> QED
  BY <1>2, <1>3 DEF FlowInv, Flags

LEMMA PivotGood ==
  ASSUME FlowInv, NEW w \in Workflows, w \notin state.completed, w # state.wf,
         NEW router
  PROVE  LET t == EnterWorkflow(ExitWorkflow(state), w, EntryNode(w, router)) IN
         Good(t, hist.opened) /\ t.mode = "WORKFLOW"
<1> DEFINE e == ExitWorkflow(state)
<1>1. EntryNode(w, router) \in Nodes
  BY EntryType
<1>2. Good(e, hist.opened) /\ w \notin e.completed
  BY ExitGood DEF FlowInv
<1> HIDE DEF e
<1>3. /\ Good(EnterWorkflow(e, w, EntryNode(w, router)), hist.opened)
      /\ EnterWorkflow(e, w, EntryNode(w, router)).mode = "WORKFLOW"
  BY <1>1, <1>2, EnterGood
<1> QED
  BY <1>3 DEF e

LEMMA DispatchStep ==
  ASSUME FlowInv, Dispatch
  PROVE  FlowInv'
<1>1. CASE DispatchEscalation
  <2>1. Turn'
    BY <1>1, Settles DEF DispatchEscalation, GoTo, FlowInv, Turn
  <2> QED
    BY <1>1, <2>1 DEF DispatchEscalation, FlowInv, Flags
<1>2. CASE DispatchEnter
  <2>1. PICK r \in Routes :
          /\ MayEnter(state, r[1])
          /\ state' = EnterWorkflow(state, r[1], EntryNode(r[1], r[2]))
    BY <1>2 DEF DispatchEnter
  <2> QED
    BY <1>2, <2>1, EnterStep DEF DispatchEnter, MayEnter
<1>3. CASE DispatchGeneral
  <2>1. CASE EndTurn /\ UNCHANGED <<state, identified>>
    <3>1. Turn'
      BY <1>3, <2>1, Ends DEF DispatchGeneral, FlowInv
    <3> QED
      BY <1>3, <2>1, <3>1 DEF DispatchGeneral, FlowInv, Flags
  <2>2. CASE /\ identified' = TRUE
             /\ Prompt({"send_otp", "escalate_to_human"})
             /\ UNCHANGED state
    <3>1. state'.mode # "ESCALATION"
      BY <1>3, <2>2 DEF DispatchGeneral
    <3>2. Turn'
      BY <1>3, <2>2, <3>1, Prompts DEF DispatchGeneral, FlowInv
    <3> QED
      BY <1>3, <2>2, <3>2 DEF DispatchGeneral, FlowInv, Flags
  <2>3. CASE /\ state' = [state EXCEPT !.phone = "none"]
             /\ EndTurn
             /\ UNCHANGED identified
    <3>1. Turn'
      BY <1>3, <2>3, Ends DEF DispatchGeneral, FlowInv
    <3>2. Good(state', hist.opened)
      BY <2>3, PhoneGood DEF FlowInv
    <3> QED
      BY <1>3, <2>3, <3>1, <3>2 DEF DispatchGeneral, FlowInv, Flags
  <2> QED
    BY <1>3, <2>1, <2>2, <2>3 DEF DispatchGeneral
<1>4. CASE DispatchWorkflow
  <2>1. Good(state', hist.opened) /\ state'.mode = "WORKFLOW"
    <3>1. CASE Pivots
      BY <1>4, <3>1, PivotGood DEF DispatchWorkflow, Pivots, MayEnter
    <3>2. CASE ~Pivots
      BY <1>4, <3>2 DEF DispatchWorkflow, FlowInv
    <3> QED
      BY <3>1, <3>2
  <2>2. Turn'
    BY <1>4, <2>1, Visits DEF DispatchWorkflow, FlowInv
  <2> QED
    BY <1>4, <2>1, <2>2 DEF DispatchWorkflow, FlowInv, Flags
<1> QED
  BY <1>1, <1>2, <1>3, <1>4 DEF Dispatch

LEMMA VisitStep ==
  ASSUME FlowInv, Visit
  PROVE  FlowInv'
<1>1. CASE AdvanceEnd
  <2>1. Turn'
    BY <1>1, Ends DEF AdvanceEnd, FlowInv
  <2>2. Good(state', hist.opened)
    BY <1>1, ExitGood DEF AdvanceEnd, FlowInv
  <2> QED
    BY <1>1, <2>1, <2>2 DEF AdvanceEnd, FlowInv, Flags
<1>2. CASE AdvanceAct
  <2>1. PICK s \in Prefills(state) : state' = s
    BY <1>2 DEF AdvanceAct
  <2>2. /\ Good(state', hist.opened)
        /\ state'.mode = state.mode /\ state'.node = state.node
    BY <2>1, PrefillsGood DEF FlowInv
  <2>3. state'.mode = "WORKFLOW" /\ AutoAction(state'.node) # "none"
    BY <1>2, <2>2 DEF AdvanceAct, FlowInv, Turn
  <2>4. Turn'
    BY <1>2, <2>3 DEF AdvanceAct, GoTo, FlowInv, Turn, Places
  <2> QED
    BY <1>2, <2>2, <2>4 DEF AdvanceAct, FlowInv, Flags
<1>3. CASE AdvanceWait
  <2>1. PICK s \in Prefills(state) :
          IF CountVisit(s).attempts > MaxAttempts(s.node)
          THEN /\ state' = AdvanceTo(s, Target(s.wf, s.node, TimeoutEdge(s.node)))
               /\ EndTurn
          ELSE state' = CountVisit(s) /\ Prompt(AllowedTools(s.node))
    BY <1>3 DEF AdvanceWait
  <2>2. Good(s, hist.opened) /\ s.mode = state.mode /\ s.node = state.node
    BY <2>1, PrefillsGood DEF FlowInv
  <2>3. s.mode = "WORKFLOW" /\ s.node # "escalate_node"
    BY <1>3, <2>2 DEF AdvanceWait, FlowInv, Turn
  <2>4. s.wf \in Workflows /\ s.node \in Nodes
    BY <2>2, <2>3 DEF Good
  <2>5. CASE CountVisit(s).attempts > MaxAttempts(s.node)
    <3>1. Target(s.wf, s.node, TimeoutEdge(s.node)) \in Nodes
      BY <2>3, <2>4, TimeoutTarget
    <3>2. Good(state', hist.opened)
      BY <2>1, <2>2, <2>3, <2>5, <3>1, AdvanceGood
    <3>3. Turn'
      BY <1>3, <2>1, <2>5, Ends DEF AdvanceWait, FlowInv
    <3> QED
      BY <1>3, <3>2, <3>3 DEF AdvanceWait, FlowInv, Flags
  <2>6. CASE ~(CountVisit(s).attempts > MaxAttempts(s.node))
    <3>1. Good(state', hist.opened) /\ state'.mode = "WORKFLOW"
      BY <2>1, <2>2, <2>3, <2>6, CountGood
    <3>2. Turn'
      BY <1>3, <2>1, <2>6, <3>1, Prompts DEF AdvanceWait, FlowInv
    <3> QED
      BY <1>3, <3>1, <3>2 DEF AdvanceWait, FlowInv, Flags
  <2> QED
    BY <2>5, <2>6
<1> QED
  BY <1>1, <1>2, <1>3 DEF Visit

LEMMA Answered ==
  ASSUME FlowInv, pc = "act", NEW r, Returns(r), hist' = hist,
         state.node = "verify_otp" /\ Normalize(r) = "success" => hist.opened,
         \A d \in done' : d.tool = "verify_otp" => hist.opened,
         identified' \in BOOLEAN
  PROVE  FlowInv'
<1>1. Turn'
  BY DEF Returns, FlowInv, Turn, Places
<1> QED
  BY <1>1 DEF Returns, FlowInv, Flags

LEMMA OtherAnswers ==
  ASSUME FlowInv, Ready, AutoAction(state.node) # "verify_otp", NEW r, Returns(r),
         hist' = hist, \A d \in done' : d \in done \/ d.tool # "verify_otp",
         identified' \in BOOLEAN
  PROVE  FlowInv'
<1>1. state.node # "verify_otp"
  BY DEF AutoAction, CollectTxn
<1>2. \A d \in done' : d.tool = "verify_otp" => hist.opened
  BY DEF FlowInv, Turn
<1> QED
  BY <1>1, <1>2, Answered DEF Ready

LEMMA VerifyOtpStep ==
  ASSUME FlowInv, CallVerifyOtp
  PROVE  FlowInv'
<1> DEFINE r == VerifyResult(state.otp = otpSends)
<1>1. /\ pc = "act" /\ Returns(r)
      /\ done' = IF r = "otp_verified" THEN done \cup {CacheKey("verify_otp")}
                 ELSE done
      /\ hist' = [hist EXCEPT !.opened = @ \/ r = "otp_verified"]
      /\ identified' = identified
  BY DEF CallVerifyOtp, Calls, Ready
<1>2. Normalize(r) = "success" => r = "otp_verified"
  BY DEF VerifyResult, Normalize, Alias
<1> HIDE DEF r
<1>3. hist' \in [named : Txns \cup {NoTxn}, opened : BOOLEAN]
  BY <1>1 DEF FlowInv, Flags
<1>4. hist'.opened = (hist.opened \/ r = "otp_verified")
  BY <1>1 DEF FlowInv, Flags
<1>5. \A d \in done' : d.tool = "verify_otp" => hist'.opened
  BY <1>1, <1>4 DEF FlowInv, Turn
<1>6. Turn'
  BY <1>1, <1>2, <1>4, <1>5 DEF Returns, FlowInv, Turn, Places
<1>7. Good(state', hist'.opened)
  BY <1>1, <1>4 DEF Returns, FlowInv, Good
<1> QED
  BY <1>1, <1>3, <1>6, <1>7 DEF Returns, FlowInv, Flags

LEMMA ToolStep ==
  ASSUME FlowInv, CallTool
  PROVE  FlowInv'
<1>1. CASE Reprompt
  <2>1. Turn'
    BY <1>1, Ends DEF Reprompt, FlowInv
  <2>2. Good(state', hist.opened)
    BY <1>1, PhoneGood DEF Reprompt, FlowInv
  <2> QED
    BY <1>1, <2>1, <2>2 DEF Reprompt, FlowInv, Flags
<1>2. CASE ToolFails
  <2>1. Normalize("tool_error") # "success"
    BY DEF Normalize, Alias
  <2>2. \A d \in done' : d.tool = "verify_otp" => hist.opened
    BY <1>2 DEF ToolFails, FlowInv, Turn
  <2> QED
    BY <1>2, <2>1, <2>2, Answered DEF ToolFails, Ready, FlowInv, Flags
<1>3. CASE CallCached
  <2>1. state.node = "verify_otp" => hist.opened
    BY <1>3 DEF CallCached, CacheKey, AutoAction, CollectTxn, FlowInv, Turn
  <2>2. \A d \in done' : d.tool = "verify_otp" => hist.opened
    BY <1>3 DEF CallCached, FlowInv, Turn
  <2> QED
    BY <1>3, <2>1, <2>2, Answered DEF CallCached, Ready, FlowInv, Flags
<1>4. CASE CallVerifyAccount
  <2>1. Ready /\ AutoAction(state.node) # "verify_otp" /\ hist' = hist /\ done' = done
    BY <1>4 DEF CallVerifyAccount, Calls
  <2>2. identified' \in BOOLEAN
    BY <1>4 DEF CallVerifyAccount, FlowInv, Flags
  <2>3. \E r : Returns(r)
    BY <1>4 DEF CallVerifyAccount
  <2> QED
    BY <2>1, <2>2, <2>3, OtherAnswers
<1>5. CASE CallSendOtp
  <2>1. /\ Ready /\ AutoAction(state.node) # "verify_otp" /\ hist' = hist
        /\ identified' = identified /\ Returns(SendResult)
    BY <1>5 DEF CallSendOtp, Calls
  <2>2. \A d \in done' : d \in done \/ d.tool # "verify_otp"
    BY <1>5 DEF CallSendOtp, CacheKey
  <2> QED
    BY <2>1, <2>2, OtherAnswers DEF FlowInv, Flags
<1>6. CASE CallVerifyOtp
  BY <1>6, VerifyOtpStep
<1>7. CASE CallLookup
  <2>1. /\ Ready /\ AutoAction(state.node) # "verify_otp" /\ hist' = hist
        /\ identified' = identified /\ done' = done
    BY <1>7 DEF CallLookup, Calls
  <2>2. \E r : Returns(r)
    BY <1>7 DEF CallLookup
  <2> QED
    BY <2>1, <2>2, OtherAnswers DEF FlowInv, Flags
<1>8. CASE CallWriteTool
  <2>1. /\ Ready /\ AutoAction(state.node) # "verify_otp" /\ hist' = hist
        /\ identified' = identified /\ done' = done
    BY <1>8 DEF CallWriteTool, WriteTools
  <2>2. \E r : Returns(r)
    BY <1>8 DEF CallWriteTool
  <2> QED
    BY <2>1, <2>2, OtherAnswers DEF FlowInv, Flags
<1> QED
  BY <1>1, <1>2, <1>3, <1>4, <1>5, <1>6, <1>7, <1>8 DEF CallTool

LEMMA MarkGood ==
  ASSUME FlowInv, pc = "edge"
  PROVE  LET s == MarkVerified(state) IN
         /\ Good(s, hist.opened)
         /\ s.mode = "WORKFLOW" /\ s.node = state.node /\ s.wf = state.wf
<1>1. Good(state, hist.opened) /\ state.mode = "WORKFLOW" /\ state \in States
  BY DEF FlowInv, Turn, Good
<1>2. CASE state.node = "verify_otp" /\ Normalize(result) = "success"
  <2>1. hist.opened
    BY <1>2 DEF FlowInv, Turn
  <2> QED
    BY <1>1, <1>2, <2>1 DEF MarkVerified, Good, States
<1>3. CASE ~(state.node = "verify_otp" /\ Normalize(result) = "success")
  BY <1>1, <1>3 DEF MarkVerified
<1> QED
  BY <1>2, <1>3

LEMMA EdgeStep ==
  ASSUME FlowInv, FollowEdge
  PROVE  FlowInv'
<1> DEFINE s == MarkVerified(state)
           key == Normalize(result)
           next == Target(s.wf, s.node, key)
           moved == ClearSlot(AdvanceTo(s, next))
<1>1. pc = "edge" /\ UNCHANGED <<identified, done, escalated, hist>>
  BY DEF FollowEdge
<1>2. /\ Good(s, hist.opened)
      /\ s.mode = "WORKFLOW" /\ s.node = state.node /\ s.wf = state.wf
  BY <1>1, MarkGood
<1>3. Flags'
  BY <1>1 DEF FlowInv, Flags
<1>4. CASE key = "escalate"
  <2>1. state' = [s EXCEPT !.mode = "ESCALATION"] /\ GoTo("handoff")
    BY <1>4 DEF FollowEdge
  <2> HIDE DEF s
  <2>2. Good(state', hist.opened)
    BY <1>2, <2>1, EscalateGood
  <2>3. Turn'
    BY <1>1, <2>1 DEF GoTo, FlowInv, Turn, Places
  <2> QED
    BY <1>1, <1>3, <2>2, <2>3 DEF FlowInv
<1>5. CASE key # "escalate" /\ next = "__end__"
  <2>1. state' = ExitWorkflow(s) /\ EndTurn
    BY <1>5 DEF FollowEdge
  <2> HIDE DEF s
  <2>2. Good(state', hist.opened)
    BY <1>2, <2>1, ExitGood
  <2>3. Turn'
    BY <1>1, <2>1, Ends DEF FlowInv
  <2> QED
    BY <1>1, <1>3, <2>2, <2>3 DEF FlowInv
<1>6. CASE key # "escalate" /\ next # "__end__"
  <2>1. /\ state' = moved
        /\ IF AutoAction(next) # "none" /\ next \notin CollectNodes
           THEN pc' = "act" /\ result' = "none" /\ UNCHANGED <<said, offered>>
           ELSE Prompt(AllowedTools(next))
    BY <1>6 DEF FollowEdge
  <2>2. s.wf \in Workflows /\ s.node \in Nodes
    BY <1>2 DEF Good
  <2>3. s.node # "escalate_node"
    BY <1>1, <1>2 DEF FlowInv, Turn, AutoAction, CollectTxn
  <2> HIDE DEF s, key
  <2>4. next \in Nodes
    BY <1>6, <2>2, <2>3, TargetType
  <2> HIDE DEF next
  <2>5. Good(moved, hist.opened) /\ moved.mode = "WORKFLOW" /\ moved.node = next
    BY <1>2, <2>4, AdvanceGood, ClearGood
  <2>6. Turn'
    <3>1. CASE pc' = "act" /\ AutoAction(next) # "none" /\ UNCHANGED said
      BY <1>1, <2>1, <2>5, <3>1 DEF FlowInv, Turn, Places
    <3>2. CASE Prompt(AllowedTools(next))
      BY <1>1, <2>1, <2>5, <3>2, Prompts DEF FlowInv
    <3> QED
      BY <2>1, <3>1, <3>2
  <2> QED
    BY <1>1, <1>3, <2>1, <2>5, <2>6 DEF FlowInv
<1> QED
  BY <1>4, <1>5, <1>6

LEMMA LlmStep ==
  ASSUME FlowInv, Llm
  PROVE  FlowInv'
<1>1. pc = "llm" /\ state.mode # "ESCALATION"
  BY DEF Llm, Speak, LlmQuery, LlmSendOtp, LlmWrite, LlmRefund, LlmRefused,
         LlmEscalate, FlowInv, Turn
<1>2. CASE Speak \/ LlmSendOtp \/ LlmRefused \/ LlmEscalate
  <2>1. EndTurn \/ GoTo("again")
    BY <1>2 DEF Speak, LlmSendOtp, LlmRefused, LlmEscalate, Rerun
  <2>2. UNCHANGED <<state, done, hist, identified>>
    BY <1>2 DEF Speak, LlmSendOtp, LlmRefused, LlmEscalate
  <2>3. escalated' \in BOOLEAN
    BY <1>2 DEF Speak, LlmSendOtp, LlmRefused, LlmEscalate, FlowInv, Flags
  <2>4. Turn'
    BY <1>1, <2>1, <2>2, Ends, Runs DEF FlowInv
  <2> QED
    BY <2>2, <2>3, <2>4 DEF FlowInv, Flags
<1>3. CASE LlmQuery
  <2>1. Good(state', hist.opened) /\ state'.mode = state.mode
    BY <1>3, ReadsGood DEF LlmQuery, FlowInv
  <2>2. Turn'
    BY <1>1, <1>3, <2>1, Runs DEF LlmQuery, Rerun, FlowInv
  <2> QED
    BY <1>3, <2>1, <2>2 DEF LlmQuery, FlowInv, Flags
<1>4. CASE LlmRefund \/ \E tool \in WriteTools : LlmWrite(tool)
  <2>1. PICK tool \in WriteTools, s \in Reads(state) :
          state' = [s EXCEPT !.terminal = @ \cup {tool}]
    BY <1>4 DEF LlmRefund, LlmWrite, WriteTools
  <2>2. Good(s, hist.opened) /\ s.mode = state.mode
    BY <2>1, ReadsGood DEF FlowInv
  <2>3. Good(state', hist.opened) /\ state'.mode = state.mode
    BY <2>1, <2>2, TerminalGood
  <2>4. GoTo("again") /\ UNCHANGED <<done, hist, identified, escalated>>
    BY <1>4 DEF LlmRefund, LlmWrite, Rerun
  <2>5. Turn'
    BY <1>1, <2>3, <2>4, Runs DEF FlowInv
  <2> QED
    BY <2>3, <2>4, <2>5 DEF FlowInv, Flags
<1> QED
  BY <1>2, <1>3, <1>4 DEF Llm

LEMMA RestStep ==
  ASSUME FlowInv,
         Handoff \/ Interrupt \/ Wait \/ Forget \/ Transferred \/ UNCHANGED vars
  PROVE  FlowInv'
<1>1. CASE Handoff \/ Interrupt
  <2>1. EndTurn /\ UNCHANGED <<state, identified, done, hist>>
    BY <1>1 DEF Handoff, Interrupt
  <2>2. escalated' \in BOOLEAN
    BY <1>1 DEF Handoff, Interrupt, FlowInv, Flags
  <2>3. Turn'
    BY <2>1, Ends DEF FlowInv
  <2> QED
    BY <2>1, <2>2, <2>3 DEF FlowInv, Flags
<1>2. CASE Forget
  <2>1. /\ done' = {}
        /\ UNCHANGED <<pc, said, state, identified, offered, result, escalated, hist>>
    BY <1>2 DEF Forget
  <2> QED
    BY <2>1 DEF FlowInv, Turn, Flags
<1>3. CASE Wait \/ Transferred \/ UNCHANGED vars
  <2>1. UNCHANGED flowVars
    BY <1>3 DEF Wait, Transferred, vars
  <2> QED
    BY <2>1 DEF flowVars, FlowInv, Turn, Flags
<1> QED
  BY <1>1, <1>2, <1>3

-----------------------------------------------------------------------------
(* The invariant the rest follows from: the orchestrator's state is good   *)
(* after every step of a turn, and the turn knows where it is.             *)
THEOREM FlowInvariant == Spec => []FlowInv
<1>1. Init => FlowInv
  <2> SUFFICES ASSUME Init PROVE FlowInv
    OBVIOUS
  <2>1. InitState \in States
    BY SendsAssumption DEF InitState, States, NoCode, WrongCode, FullPhones
  <2>2. Good(state, hist.opened)
    BY <2>1 DEF Init, Good, InitState
  <2>3. Turn
    BY DEF Init, Turn, Places, InitState
  <2>4. Flags
    BY DEF Init, Flags
  <2> QED
    BY <2>2, <2>3, <2>4 DEF FlowInv
<1>2. FlowInv /\ OtpTypeOK /\ [Next]_vars => FlowInv'
  <2> SUFFICES ASSUME FlowInv, OtpTypeOK, [Next]_vars PROVE FlowInv'
    OBVIOUS
  <2>1. CASE \E u \in Utterances : Hear(u)
    BY <2>1, MonitorStep DEF Hear
  <2>2. CASE HearAgain
    <3>1. said \in Utterances \cup {Filler}
      BY DEF FlowInv, Turn
    <3> QED
      BY <2>2, <3>1, MonitorStep DEF HearAgain
  <2>3. CASE Dispatch
    BY <2>3, DispatchStep
  <2>4. CASE Visit
    BY <2>4, VisitStep
  <2>5. CASE CallTool
    BY <2>5, ToolStep
  <2>6. CASE FollowEdge
    BY <2>6, EdgeStep
  <2>7. CASE Llm
    BY <2>7, LlmStep
  <2>8. CASE Handoff \/ Interrupt \/ Wait \/ Forget \/ Transferred \/ UNCHANGED vars
    BY <2>8, RestStep
  <2> QED
    BY <2>1, <2>2, <2>3, <2>4, <2>5, <2>6, <2>7, <2>8 DEF Next, Work
<1>3. OtpInv => OtpTypeOK
  BY DEF OtpInv
<1> QED
  BY <1>1, <1>2, <1>3, FlowUsesGate, OtpInvariant, PTL DEF Spec

(* Type correctness: nothing of a turn is left between turns, and nothing  *)
(* of a workflow outside one.                                              *)
THEOREM FlowTypeCorrect == Spec => []FlowTypeOK
<1>1. OtpInv => OtpTypeOK
  BY DEF OtpInv
<1>2. FlowInv /\ OtpTypeOK => FlowTypeOK
  <2> SUFFICES ASSUME FlowInv, OtpTypeOK PROVE FlowTypeOK
    OBVIOUS
  <2>1. state.mode = "WORKFLOW" => state.wf # "none"
    BY WorkflowsAssumption DEF FlowInv, Good, AllWorkflows
  <2> QED
    BY <2>1 DEF FlowInv, Turn, Flags, Good, Places, FlowTypeOK
<1> QED
  BY <1>1, <1>2, FlowInvariant, FlowUsesGate, OtpInvariant, PTL

(* On either router and on a pivot, the workflow that is entered is none   *)
(* that this call completed or left.                                       *)
THEOREM NoWorkflowTwice == Spec => []NoReentry
<1>1. FlowInv => NoReentry
  BY DEF FlowInv, Good, NoReentry
<1> QED
  BY <1>1, FlowInvariant, PTL

(* However turns, reruns and retries add up, a node is not visited more    *)
(* often than its max_attempts.                                            *)
THEOREM AttemptsStayBounded == Spec => []AttemptsBounded
<1>1. FlowInv => AttemptsBounded
  BY DEF FlowInv, Good, AttemptsBounded
<1> QED
  BY <1>1, FlowInvariant, PTL

(* session_verified is set only after verify_otp accepted a code, directly *)
(* or as a remembered success.                                             *)
THEOREM VerifiedMeansCode == Spec => []VerifiedByCode
<1>1. FlowInv => VerifiedByCode
  BY DEF FlowInv, Good, VerifiedByCode
<1> QED
  BY <1>1, FlowInvariant, PTL

(* A call in ESCALATION mode stays in it, whatever is said, and no tool    *)
(* runs any more.                                                          *)
THEOREM EscalationIsFinal == Spec => EscalationFinal
<1> DEFINE Final ==
      state.mode = "ESCALATION" =>
        /\ state'.mode = "ESCALATION"
        /\ state'.terminal = state.terminal
        /\ result' = "none"
        /\ pc # "listen" => UNCHANGED otpVars
<1>1. FlowInv /\ OtpTypeOK /\ [Next]_vars => [Final]_vars
  <2> SUFFICES ASSUME FlowInv, OtpTypeOK, Next, state.mode = "ESCALATION"
               PROVE  Final
    OBVIOUS
  <2>1. pc \in {"listen", "dispatch", "handoff"}
    BY DEF FlowInv, Turn
  <2>2. pc \in {"listen", "dispatch"} => result = "none"
    BY DEF FlowInv, Turn
  <2>3. CASE \E u \in Utterances : Hear(u)
    <3>1. PICK u \in Utterances : Hear(u)
      BY <2>3
    <3>2. PICK ph \in HeardPhones(u), code \in HeardCodes(u) :
            Extract(u, ph, code).mode = "ESCALATION" =>
              state' = Leave(u, Extract(u, ph, code)) /\ Take(u, "dispatch")
      BY <3>1 DEF Hear, Monitor
    <3> DEFINE s == Extract(u, ph, code)
    <3>3. s.mode = "ESCALATION" /\ s.terminal = state.terminal
      BY DEF FlowInv, Good, States, Extract
    <3>4. pc = "listen"
      BY <3>1 DEF Hear
    <3> HIDE DEF s
    <3>5. Leave(u, s) = s
      BY <3>3 DEF Leave
    <3> QED
      BY <3>2, <3>3, <3>4, <3>5 DEF Take, s
  <2>4. CASE Dispatch
    BY <2>2, <2>4
    DEF Dispatch, DispatchEscalation, DispatchEnter, DispatchGeneral,
        DispatchWorkflow, GoTo
  <2>5. CASE Handoff \/ Interrupt
    BY <2>5 DEF Handoff, Interrupt, EndTurn
  <2>6. CASE Wait \/ Forget \/ Transferred
    BY <2>2, <2>6 DEF Wait, Forget, Transferred, flowVars, vars
  <2>7. ~HearAgain /\ ~Visit /\ ~FollowEdge
    BY <2>1 DEF HearAgain, Visit, AdvanceEnd, AdvanceAct, AdvanceWait, FollowEdge
  <2>8. ~CallTool
    BY <2>1
    DEF CallTool, Reprompt, ToolFails, CallCached, CallVerifyAccount, CallSendOtp,
        CallVerifyOtp, CallLookup, CallWriteTool, Calls, Ready
  <2>9. ~Llm
    BY <2>1
    DEF Llm, Speak, LlmQuery, LlmSendOtp, LlmWrite, LlmRefund, LlmRefused,
        LlmEscalate
  <2> QED
    BY <2>3, <2>4, <2>5, <2>6, <2>7, <2>8, <2>9 DEF Next, Work
<1>2. OtpInv => OtpTypeOK
  BY DEF OtpInv
<1> QED
  BY <1>1, <1>2, FlowInvariant, FlowUsesGate, OtpInvariant, PTL
  DEF Spec, EscalationFinal
=============================================================================
