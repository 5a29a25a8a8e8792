------------------------------ MODULE CallFlow ------------------------------
(***************************************************************************)
(* One call: the orchestrator (backend/voice/orchestrator.py), the         *)
(* workflow node executor (backend/workflow/node_executor.py) over the     *)
(* graphs that backend/seed.py installs, the tools' success cache          *)
(* (backend/voice/tool_recovery.py), the LLM turn and the transfer         *)
(* (backend/voice/wavvy_agent.py, agent_tools.py), on top of the one-time  *)
(* code of OtpGate.                                                        *)
(*                                                                         *)
(* A call handles one utterance at a time.  Hear and Dispatch read it,     *)
(* Visit is one visit of the active node, CallTool fires the node's auto   *)
(* action, FollowEdge evaluates the result, and the LLM speaks or calls    *)
(* the tools it was offered.  The steps end where the code awaits; there   *)
(* the caller may interrupt, which cancels the rest of the turn.  The      *)
(* words are abstracted to the verdicts of the extractor and the routers.  *)
(***************************************************************************)
EXTENDS OtpGate, FiniteSets

CONSTANTS
  Workflows,     \* the active workflows
  Txns,          \* the transactions that are talked about
  Owned,         \* those of the caller
  Inferred,      \* the one refundable transaction of the profile, or NoTxn
  NoTxn,
  Utterances,    \* what the caller may say
  MaxInterrupts  \* bound: turns the caller interrupts

AllWorkflows == {"support", "status", "refund", "dispute", "fraud", "unlock"}

Signals == {"transfer", "yes", "no", "cancel", "stop", "none"}

(* An utterance: what the escalation, yes / no and cancel patterns match,  *)
(* the slots it fills, the issue it states and which router sees it.       *)
Utterance ==
  [signal : Signals, phone : {"none", "part", "known", "unknown"},
   otp : {"none", "code", "wrong"}, txn : Txns \cup {NoTxn},
   issue : AllWorkflows \cup {"none"}, router : {"keyword", "embedding"}]

Filler == [signal |-> "none", phone |-> "none", otp |-> "none",
           txn |-> NoTxn, issue |-> "none", router |-> "keyword"]

ASSUME WorkflowsAssumption == Workflows \subseteq AllWorkflows
ASSUME TxnsAssumption ==
  /\ NoTxn \notin Txns
  /\ Owned \subseteq Txns
  /\ Inferred \in Owned \cup {NoTxn}
ASSUME UtterancesAssumption == Utterances \subseteq Utterance
ASSUME InterruptsAssumption == MaxInterrupts \in Nat

VARIABLES
  pc,         \* where the turn is; "listen" between turns
  said,       \* the utterance of the turn
  state,      \* OrchestratorState
  identified, \* customer_id and customer_profile are set
  offered,    \* the tools the LLM was given in this turn
  result,     \* the result of the auto action in flight
  done,       \* the successes in the idempotency store
  escalated,  \* CallSession.escalated
  interrupts, \* turns interrupted so far
  hist        \* history: the transaction named last, and whether a code was
              \* ever accepted

flowVars == <<pc, said, state, identified, offered, result, done, escalated,
              interrupts, hist>>
vars == <<flowVars, otpVars>>

-----------------------------------------------------------------------------
(* The workflow graphs. *)

PostVerify ==
  [support |-> "issue_discovery", status |-> "check_status",
   refund |-> "collect_txn_refund", dispute |-> "collect_txn_dispute",
   fraud |-> "collect_txn_fraud", unlock |-> "unlock_account_node"]

CollectTxn == {"collect_txn_refund", "collect_txn_dispute", "collect_txn_fraud"}
CollectNodes ==
  {"collect_phone", "verify_otp", "confirm_refund"} \cup CollectTxn
TaskNodes ==
  {"issue_discovery", "check_status", "confirm_refund", "file_dispute_action",
   "report_fraud_action", "unlock_account_node"} \cup CollectTxn
Nodes == {"collect_phone", "send_otp", "verify_otp", "escalate_node"} \cup TaskNodes

(* The tool of auto_actions; an end node fires nothing. *)
AutoAction(n) ==
  CASE n = "collect_phone" -> "verify_account"
    [] n = "send_otp" -> "send_otp"
    [] n = "verify_otp" -> "verify_otp"
    [] n \in CollectTxn -> "lookup_transaction"
    [] n = "file_dispute_action" -> "raise_dispute"
    [] n = "report_fraud_action" -> "report_fraud"
    [] n = "unlock_account_node" -> "unlock_account"
    [] OTHER -> "none"

(* The required variable of a node. *)
Needs(n) ==
  CASE n = "collect_phone" -> "phone"
    [] n = "verify_otp" -> "otp"
    [] n \in CollectTxn -> "txn"
    [] OTHER -> "none"

(* The allowed tools that change something; "search" stands for the        *)
(* queries whose answers name a transaction.                               *)
AllowedTools(n) ==
  CASE n = "issue_discovery" ->
         {"search", "initiate_refund", "raise_dispute", "report_fraud",
          "unlock_account", "escalate_to_human"}
    [] n = "check_status" -> {"search", "initiate_refund", "escalate_to_human"}
    [] n \in CollectTxn -> {"search"}
    [] n = "confirm_refund" -> {"initiate_refund"}
    [] n \in {"escalate_node", "unlock_account_node"} -> {"escalate_to_human"}
    [] OTHER -> {}

MaxAttempts(n) ==
  CASE n = "issue_discovery" -> 20
    [] n = "check_status" -> 5
    [] n \in {"collect_txn_refund", "collect_txn_dispute"} -> 4
    [] n \in {"send_otp", "file_dispute_action", "report_fraud_action",
              "escalate_node"} -> 1
    [] OTHER -> 3

(* The edges, graph by graph; all graphs begin with the same nodes. *)
VerificationEdges(w, n) ==
  CASE n = "collect_phone" ->
         [success |-> "send_otp", not_found |-> "collect_phone",
          failure |-> "escalate_node"]
    [] n = "send_otp" ->
         [success |-> "verify_otp", otp_cooldown |-> "escalate_node",
          otp_resend_limit |-> "escalate_node"]
    [] n = "verify_otp" ->
         [success |-> PostVerify[w], invalid_otp |-> "verify_otp",
          otp_locked |-> "escalate_node"]

SupportEdges == [success |-> "__end__", escalate |-> "escalate_node"]

StatusEdges ==
  [success |-> "__end__", not_found |-> "escalate_node",
   escalate |-> "escalate_node"]

RefundEdges(n) ==
  CASE n = "collect_txn_refund" ->
         [success |-> "confirm_refund", not_found |-> n,
          escalate |-> "escalate_node"]
    [] n = "confirm_refund" ->
         [success |-> "__end__", escalate |-> "escalate_node"]

DisputeEdges(n) ==
  CASE n = "collect_txn_dispute" ->
         [success |-> "file_dispute_action", not_found |-> n,
          escalate |-> "escalate_node"]
    [] n = "file_dispute_action" ->
         [success |-> "__end__", already_filed |-> "__end__",
          high_value_manual_required |-> "escalate_node",
          escalate |-> "escalate_node"]

FraudEdges(n) ==
  CASE n = "collect_txn_fraud" ->
         [success |-> "report_fraud_action", not_found |-> n,
          escalate |-> "escalate_node"]
    [] n = "report_fraud_action" ->
         [success |-> "__end__", fraud_transaction_reversed |-> "__end__",
          escalate |-> "escalate_node"]

UnlockEdges ==
  [success |-> "__end__", fraud_lock |-> "escalate_node",
   compliance_hold |-> "escalate_node", escalate |-> "escalate_node"]

Edges(w, n) ==
  CASE n \in {"collect_phone", "send_otp", "verify_otp"} -> VerificationEdges(w, n)
    [] n = "issue_discovery" -> SupportEdges
    [] n = "check_status" -> StatusEdges
    [] n \in {"collect_txn_refund", "confirm_refund"} -> RefundEdges(n)
    [] n \in {"collect_txn_dispute", "file_dispute_action"} -> DisputeEdges(n)
    [] n \in {"collect_txn_fraud", "report_fraud_action"} -> FraudEdges(n)
    [] n = "unlock_account_node" -> UnlockEdges

(* get_edge_target: a key that names no edge takes the success edge. *)
Target(w, n, key) ==
  LET e == Edges(w, n) IN IF key \in DOMAIN e THEN e[key] ELSE e["success"]

(* Variant: a code that is not read out is asked for again. *)
TimeoutEdgeAgain(n) ==
  CASE n = "collect_phone" -> "failure"
    [] n = "verify_otp" -> "invalid_otp"
    [] OTHER -> "escalate"

TimeoutEdge(n) ==
  CASE n = "collect_phone" -> "failure"
    [] n = "verify_otp" -> "otp_locked"
    [] OTHER -> "escalate"

(* The tool whose success completes a workflow from within another one. *)
TerminalTool ==
  [refund |-> "initiate_refund", dispute |-> "raise_dispute",
   fraud |-> "report_fraud", unlock |-> "unlock_account"]

WriteTools == {"initiate_refund", "raise_dispute", "report_fraud", "unlock_account"}

-----------------------------------------------------------------------------
(* OrchestratorState, with the buffer of a phone number in parts.  A       *)
(* six-digit code is the number of the code that was sent with these       *)
(* digits, or WrongCode.                                                   *)

FullPhones == {"known", "unknown", "malformed"}
WrongCode == MaxSends + 1
NoCode == 0

InitState ==
  [mode |-> "GENERAL", wf |-> "none", node |-> "none", attempts |-> 0,
   phone |-> "none", otp |-> NoCode, txn |-> NoTxn,
   completed |-> {}, terminal |-> {}, pending |-> FALSE, verified |-> FALSE]

States ==
  [mode : {"GENERAL", "WORKFLOW", "ESCALATION"},
   wf : Workflows \cup {"none"}, node : Nodes \cup {"none"}, attempts : 0..20,
   phone : FullPhones \cup {"none", "part"}, otp : 0..WrongCode,
   txn : Txns \cup {NoTxn}, completed : SUBSET Workflows,
   terminal : SUBSET WriteTools, pending : BOOLEAN, verified : BOOLEAN]

EnterWorkflow(s, w, n) ==
  [s EXCEPT !.mode = "WORKFLOW", !.wf = w, !.node = n, !.attempts = 0]

(* Variant: the attempts at the last node count at the next one. *)
AdvanceKeepsAttempts(s, n) == [s EXCEPT !.node = n]

AdvanceTo(s, n) == [s EXCEPT !.node = n, !.attempts = 0]


(* Clearing the slot leaves the parts of a number in their buffer. *)
NoPhone(s) == IF s.phone = "part" THEN "part" ELSE "none"

ExitWorkflow(s) ==
  [s EXCEPT !.mode = "GENERAL", !.wf = "none", !.node = "none",
            !.attempts = 0, !.phone = NoPhone(s), !.otp = NoCode, !.txn = NoTxn,
            !.completed = @ \cup ({s.wf} \ {"none"})]

(* Re-entering a collect node forgets what it collects. *)
ClearSlot(s) ==
  CASE Needs(s.node) = "phone" -> [s EXCEPT !.phone = NoPhone(s)]
    [] Needs(s.node) = "otp" -> [s EXCEPT !.otp = NoCode]
    [] Needs(s.node) = "txn" -> [s EXCEPT !.txn = NoTxn]
    [] OTHER -> s

SlotsComplete(s) ==
  CASE Needs(s.node) = "phone" -> s.phone \in FullPhones
    [] Needs(s.node) = "otp" -> s.otp # NoCode
    [] Needs(s.node) = "txn" -> s.txn # NoTxn
    [] OTHER -> TRUE

Authorised == otpVerified /\ identified

-----------------------------------------------------------------------------
Init ==
  /\ OtpInit
  /\ pc = "listen"
  /\ said = Filler
  /\ state = InitState
  /\ identified = FALSE
  /\ offered = {}
  /\ result = "none"
  /\ done = {}
  /\ escalated = FALSE
  /\ interrupts = 0
  /\ hist = [named |-> NoTxn, opened |-> FALSE]

(* The turn is over, the words it was about are gone. *)
EndTurn ==
  /\ pc' = "listen"
  /\ said' = Filler
  /\ offered' = {}
  /\ result' = "none"

(* The turn is about u and goes on at a step. *)
Take(u, step) ==
  /\ said' = u
  /\ pc' = step
  /\ offered' = {}
  /\ result' = "none"

GoTo(step) == pc' = step /\ UNCHANGED <<said, offered, result>>

(* The LLM gets the turn with these tools: with none it can only speak. *)
Prompt(tools) ==
  IF tools = {} THEN EndTurn
  ELSE /\ pc' = "llm"
       /\ offered' = tools
       /\ result' = "none"
       /\ UNCHANGED said

-----------------------------------------------------------------------------
(* Extraction fills the slots that are empty.  Fewer than ten digits, also *)
(* those of a code or a transaction, are kept as a part of a phone number  *)
(* until a second part makes ten or more: the caller's number, another     *)
(* one, or one that is too long.                                           *)
HeardPhones(u) ==
  IF state.phone \in FullPhones THEN {state.phone}
  ELSE IF u.phone \in FullPhones THEN {u.phone}
  ELSE IF u.phone = "none" /\ u.otp = "none" /\ u.txn = NoTxn THEN {state.phone}
  ELSE IF state.phone = "none" THEN {"part"}
  ELSE {"part", "unknown", "malformed"}
         \cup {p \in {"known"} : u.phone = "part"}

(* A code is read back from any message sent so far. *)
HeardCodes(u) ==
  IF state.otp # NoCode \/ u.otp = "none" THEN {state.otp}
  ELSE IF u.otp = "wrong" THEN {WrongCode}
  ELSE 1..otpSends

Extract(u, ph, code) ==
  [state EXCEPT !.phone = ph, !.otp = code,
                !.txn = IF @ = NoTxn THEN u.txn ELSE @]

(* The patterns that decline a transfer, and those that leave a workflow. *)
Declines(u) == u.signal \in {"no", "cancel"}
Leaves(u) == u.signal \in {"cancel", "stop"}

(* Variant: leaving is heard in every mode. *)
LeaveAny(u, s) == IF Leaves(u) THEN ExitWorkflow(s) ELSE s

Leave(u, s) ==
  IF Leaves(u) /\ s.mode = "WORKFLOW" THEN ExitWorkflow(s) ELSE s

(* The extraction and the global intent monitor, up to the first await. *)
Monitor(u) ==
  \E ph \in HeardPhones(u), code \in HeardCodes(u) :
    LET s == Extract(u, ph, code)
        confirms == s.pending /\ u.signal \in {"transfer", "yes"}
        asks == ~s.pending /\ u.signal = "transfer" IN
    /\ hist' = [hist EXCEPT !.named = IF u.txn = NoTxn THEN @ ELSE u.txn]
    /\ IF s.mode = "ESCALATION"
       THEN state' = Leave(u, s) /\ Take(u, "dispatch")
       ELSE IF confirms
       THEN /\ state' = [s EXCEPT !.pending = FALSE, !.mode = "ESCALATION"]
            /\ Take(u, "handoff")
       ELSE IF asks
       THEN state' = [s EXCEPT !.pending = TRUE] /\ EndTurn
       ELSE /\ state' = Leave(u, [s EXCEPT !.pending = @ /\ ~Declines(u)])
            /\ Take(u, "dispatch")
    /\ UNCHANGED <<identified, done, escalated, interrupts, otpVars>>

(* llm_node on a new utterance; an escalated call stays silent. *)
Hear(u) ==
  /\ pc = "listen"
  /\ ~escalated
  /\ u.otp = "code" => otpSends > 0
  /\ Monitor(u)

(* After a batch of tool calls the SDK runs llm_node again, and the same   *)
(* utterance is orchestrated a second time.                                *)
HearAgain == pc = "again" /\ Monitor(said)

-----------------------------------------------------------------------------
(* The mode dispatch. *)

GoalReached(s, w) ==
  w \in DOMAIN TerminalTool /\ TerminalTool[w] \in s.terminal

(* Variant: a workflow that was left may be started again. *)
MayEnterAgain(s, w) == w \in Workflows /\ ~GoalReached(s, w)

MayEnter(s, w) ==
  w \in Workflows /\ w \notin s.completed /\ ~GoalReached(s, w)

(* What the routers answer: the keyword router names the issue unless that *)
(* workflow is completed; then, or on unclear words, the embedding decides.*)
Routes ==
  IF said.issue = "none" THEN {}
  ELSE IF said.router = "keyword" /\ said.issue \notin state.completed
  THEN {<<said.issue, "keyword">>}
  ELSE IF said.router = "keyword" THEN {<<w, "embedding">> : w \in Workflows}
  ELSE {<<said.issue, "embedding">>}

(* A verified caller starts behind the verification, but the definition    *)
(* the embedding router returns has no nodes to find that place in.        *)
EntryNode(w, router) ==
  IF state.verified /\ router = "keyword" THEN PostVerify[w]
  ELSE "collect_phone"

DispatchEscalation ==
  /\ pc = "dispatch" /\ state.mode = "ESCALATION"
  /\ GoTo("handoff")
  /\ UNCHANGED <<state, identified, done, escalated, interrupts, hist, otpVars>>

DispatchEnter ==
  /\ pc = "dispatch" /\ state.mode = "GENERAL"
  /\ \E r \in Routes :
       /\ MayEnter(state, r[1])
       /\ state' = EnterWorkflow(state, r[1], EntryNode(r[1], r[2]))
  /\ GoTo("advance")
  /\ UNCHANGED <<identified, done, escalated, interrupts, hist, otpVars>>

(* No workflow: a phone number of an unidentified caller is looked up at   *)
(* once, and an account that is found gives the LLM some tools.            *)
DispatchGeneral ==
  /\ pc = "dispatch" /\ state.mode = "GENERAL"
  /\ \/ Routes = {}
     \/ \E r \in Routes : ~MayEnter(state, r[1])
     \/ \E r \in Routes : r[2] = "embedding"
  /\ IF state.phone \notin FullPhones \/ identified
     THEN EndTurn /\ UNCHANGED <<state, identified>>
     ELSE \/ /\ state.phone = "known"
             /\ identified' = TRUE
             /\ Prompt({"send_otp", "escalate_to_human"})
             /\ UNCHANGED state
          \/ /\ state' = [state EXCEPT !.phone = "none"]
             /\ EndTurn
             /\ UNCHANGED identified
  /\ UNCHANGED <<done, escalated, interrupts, hist, otpVars>>

(* A verified caller who clearly states another issue changes workflow. *)
Pivots ==
  /\ state.verified
  /\ said.router = "keyword"
  /\ said.issue # state.wf
  /\ MayEnter(state, said.issue)

DispatchWorkflow ==
  /\ pc = "dispatch" /\ state.mode = "WORKFLOW"
  /\ state' = IF Pivots
              THEN EnterWorkflow(ExitWorkflow(state), said.issue,
                                 EntryNode(said.issue, "keyword"))
              ELSE state
  /\ GoTo("advance")
  /\ UNCHANGED <<identified, done, escalated, interrupts, hist, otpVars>>

-----------------------------------------------------------------------------
(* advance: one visit of the active node. *)

(* The transaction of the profile stands in for one the caller has not     *)
(* named; a profile that changed since has none.                           *)
Prefills(s) ==
  IF Needs(s.node) = "txn" /\ s.txn = NoTxn /\ identified
  THEN {[s EXCEPT !.txn = t] : t \in {Inferred, NoTxn}}
  ELSE {s}

AdvanceEnd ==
  /\ pc = "advance" /\ state.node = "escalate_node"
  /\ state' = ExitWorkflow(state)
  /\ EndTurn
  /\ UNCHANGED <<identified, done, escalated, interrupts, hist, otpVars>>

AdvanceAct ==
  /\ pc = "advance" /\ AutoAction(state.node) # "none"
  /\ \E s \in Prefills(state) : SlotsComplete(s) /\ state' = s
  /\ GoTo("act")
  /\ UNCHANGED <<identified, done, escalated, interrupts, hist, otpVars>>

(* Variant: a visit is counted only when the LLM has no tool. *)
CountVisitNoTools(s) ==
  IF AllowedTools(s.node) = {} THEN [s EXCEPT !.attempts = @ + 1] ELSE s

CountVisit(s) == [s EXCEPT !.attempts = @ + 1]

(* The node waits for its slot, or is the LLM's: another attempt, or the   *)
(* timeout edge, after which the LLM has no tools.                         *)
AdvanceWait ==
  /\ pc = "advance" /\ state.node # "escalate_node"
  /\ \E s \in Prefills(state) :
       LET visited == CountVisit(s) IN
       /\ AutoAction(s.node) = "none" \/ ~SlotsComplete(s)
       /\ IF visited.attempts > MaxAttempts(s.node)
          THEN /\ state' = AdvanceTo(s, Target(s.wf, s.node, TimeoutEdge(s.node)))
               /\ EndTurn
          ELSE state' = visited /\ Prompt(AllowedTools(s.node))
  /\ UNCHANGED <<identified, done, escalated, interrupts, hist, otpVars>>

-----------------------------------------------------------------------------
(* _handle_auto_actions. *)

(* The validator clears a phone number that parts have made too long. *)
Reprompt ==
  /\ pc = "act" /\ state.phone = "malformed"
  /\ state' = [state EXCEPT !.phone = "none"]
  /\ EndTurn
  /\ UNCHANGED <<identified, done, escalated, interrupts, hist, otpVars>>

(* execute_with_recovery's key: the tool and everything that is known. *)
CacheKey(tool) ==
  [tool |-> tool, phone |-> state.phone, otp |-> state.otp,
   txn |-> state.txn, customer |-> identified]

Returns(r) ==
  /\ pc' = "edge"
  /\ result' = r
  /\ UNCHANGED <<said, offered, state, escalated, interrupts>>

Ready == pc = "act" /\ state.phone # "malformed"
Calls(tool) == Ready /\ AutoAction(state.node) = tool

(* An exception or a timeout. *)
ToolFails ==
  /\ Ready
  /\ Returns("tool_error")
  /\ UNCHANGED <<identified, done, hist, otpVars>>

CallVerifyAccount ==
  /\ Calls("verify_account")
  /\ IF state.phone = "known"
     THEN Returns("account_verified") /\ identified' = TRUE
     ELSE Returns("account_not_found") /\ UNCHANGED identified
  /\ UNCHANGED <<done, hist, otpVars>>

(* Variant: a remembered verification is restored on the session. *)
CallCachedRestores ==
  /\ Ready
  /\ CacheKey(AutoAction(state.node)) \in done
  /\ Returns(IF state.node = "send_otp" THEN "otp_sent" ELSE "otp_verified")
  /\ otpVerified' = (otpVerified \/ state.node = "verify_otp")
  /\ UNCHANGED <<identified, done, hist, otpCode, otpAge, otpAttempts,
                 otpLocked, otpSends, otpMisses>>

(* A success that is remembered stands for the call. *)
CallCached ==
  /\ Ready
  /\ CacheKey(AutoAction(state.node)) \in done
  /\ Returns(IF state.node = "send_otp" THEN "otp_sent" ELSE "otp_verified")
  /\ UNCHANGED <<identified, done, hist, otpVars>>

CallSendOtp ==
  /\ Calls("send_otp")
  /\ CacheKey("send_otp") \notin done
  /\ SendOtp
  /\ Returns(SendResult)
  /\ done' = IF SendResult = "otp_sent" THEN done \cup {CacheKey("send_otp")}
             ELSE done
  /\ UNCHANGED <<identified, hist>>

CallVerifyOtp ==
  LET right == state.otp = otpSends
      r == VerifyResult(right) IN
  /\ Calls("verify_otp")
  /\ CacheKey("verify_otp") \notin done
  /\ VerifyOtp(right)
  /\ Returns(r)
  /\ done' = IF r = "otp_verified" THEN done \cup {CacheKey("verify_otp")}
             ELSE done
  /\ hist' = [hist EXCEPT !.opened = @ \/ r = "otp_verified"]
  /\ UNCHANGED identified

CallLookup ==
  /\ Calls("lookup_transaction")
  /\ Returns(IF ~identified THEN "verification_required"
             ELSE IF state.txn \in Owned THEN "transaction_found"
             ELSE "transaction_not_found")
  /\ UNCHANGED <<identified, done, hist, otpVars>>

(* What a write tool answers an authorised caller depends on the rows,     *)
(* which CaseLedger models; each kind of answer is possible here.          *)
Answers(tool) ==
  CASE tool = "raise_dispute" /\ state.txn \in Owned ->
         {"dispute_filed", "dispute_duplicate", "fraud_review_required",
          "refund_already_initiated", "high_value_manual_required"}
    [] tool = "report_fraud" /\ state.txn \in Owned ->
         {"fraud_case_opened", "fraud_already_reported",
          "fraud_transaction_reversed"}
    [] tool = "unlock_account" ->
         {"account_unlocked", "fraud_lock", "compliance_hold"}
    [] OTHER -> {"transaction_not_found"}

CallWriteTool ==
  /\ Ready /\ AutoAction(state.node) \in WriteTools
  /\ \E r \in IF Authorised THEN Answers(AutoAction(state.node))
              ELSE {"verification_required"} :
       Returns(r)
  /\ UNCHANGED <<identified, done, hist, otpVars>>

(* _FAST_KEY_ALIASES. *)
Alias ==
  [account_verified |-> "success", account_not_found |-> "not_found",
   otp_sent |-> "success", otp_verified |-> "success",
   otp_wrong |-> "invalid_otp", otp_expired |-> "invalid_otp",
   otp_max_attempts |-> "otp_locked", transaction_found |-> "success",
   transaction_not_found |-> "not_found", dispute_filed |-> "success",
   refund_already_initiated |-> "already_refunded",
   dispute_duplicate |-> "already_filed",
   fraud_already_reported |-> "success",
   fraud_review_required |-> "escalate",
   verification_required |-> "escalate", account_unlocked |-> "success"]

Normalize(key) == IF key \in DOMAIN Alias THEN Alias[key] ELSE key

(* Variant: verified whenever the workflow goes on. *)
MarkVerifiedOnAdvance(s) ==
  IF s.node = "verify_otp" /\ Target(s.wf, s.node, Normalize(result)) \in TaskNodes
  THEN [s EXCEPT !.verified = TRUE] ELSE s

MarkVerified(s) ==
  IF s.node = "verify_otp" /\ Normalize(result) = "success"
  THEN [s EXCEPT !.verified = TRUE] ELSE s

(* The edge of the result, after the awaited notice to the caller's page.  *)
(* A next node that needs nothing fires in the same turn.                  *)
FollowEdge ==
  LET s == MarkVerified(state)
      key == Normalize(result)
      next == Target(s.wf, s.node, key)
      moved == ClearSlot(AdvanceTo(s, next)) IN
  /\ pc = "edge"
  /\ IF key = "escalate"
     THEN state' = [s EXCEPT !.mode = "ESCALATION"] /\ GoTo("handoff")
     ELSE IF next = "__end__"
     THEN state' = ExitWorkflow(s) /\ EndTurn
     ELSE /\ state' = moved
          /\ IF AutoAction(next) # "none" /\ next \notin CollectNodes
             THEN pc' = "act" /\ result' = "none" /\ UNCHANGED <<said, offered>>
             ELSE Prompt(AllowedTools(next))
  /\ UNCHANGED <<identified, done, escalated, interrupts, hist, otpVars>>

-----------------------------------------------------------------------------
(* The LLM. *)

Speak ==
  /\ pc = "llm"
  /\ EndTurn
  /\ UNCHANGED <<state, identified, done, escalated, interrupts, hist, otpVars>>

(* No tool returns JSON, so no result reaches pending_tool_result, and the *)
(* node stays; a transaction in the text fills the slot.                   *)
Rerun == GoTo("again")

(* An answer that names a transaction fills the empty slot. *)
Reads(s) ==
  IF s.mode # "WORKFLOW" \/ s.txn # NoTxn THEN {s}
  ELSE {s} \cup {[s EXCEPT !.txn = t] : t \in Owned}

LlmQuery ==
  /\ pc = "llm" /\ "search" \in offered
  /\ state' \in Reads(state)
  /\ Rerun
  /\ UNCHANGED <<identified, done, escalated, interrupts, hist, otpVars>>

LlmSendOtp ==
  /\ pc = "llm" /\ "send_otp" \in offered
  /\ SendOtp
  /\ Rerun
  /\ UNCHANGED <<state, identified, done, escalated, interrupts, hist>>

(* A write that succeeds, or a refund that exists, reaches the goal. *)
LlmWrite(tool) ==
  /\ pc = "llm" /\ tool \in offered /\ tool # "initiate_refund"
  /\ Authorised
  /\ \E s \in Reads(state) : state' = [s EXCEPT !.terminal = @ \cup {tool}]
  /\ Rerun
  /\ UNCHANGED <<identified, done, escalated, interrupts, hist, otpVars>>

LlmRefund ==
  /\ pc = "llm" /\ "initiate_refund" \in offered
  /\ Authorised
  /\ \E s \in Reads(state) :
       state' = [s EXCEPT !.terminal = @ \cup {"initiate_refund"}]
  /\ RefundResets \/ UNCHANGED otpVars
  /\ Rerun
  /\ UNCHANGED <<identified, done, escalated, interrupts, hist>>

(* Not authorised, or refused for the state of the rows. *)
LlmRefused ==
  /\ pc = "llm" /\ offered \cap WriteTools # {}
  /\ Rerun
  /\ UNCHANGED <<state, identified, done, escalated, interrupts, hist, otpVars>>

(* escalate_to_human finds a specialist, or not. *)
LlmEscalate ==
  /\ pc = "llm" /\ "escalate_to_human" \in offered
  /\ \/ escalated' = TRUE /\ EndTurn
     \/ Rerun /\ UNCHANGED escalated
  /\ UNCHANGED <<state, identified, done, interrupts, hist, otpVars>>

-----------------------------------------------------------------------------
(* The transfer of ESCALATION mode, without the LLM: 3.5 seconds later     *)
(* escalate_to_human finds a specialist, or the next utterance retries.    *)
Handoff ==
  /\ pc = "handoff"
  /\ EndTurn
  /\ escalated' \in BOOLEAN
  /\ UNCHANGED <<state, identified, done, interrupts, hist, otpVars>>

(* The dispatch awaits the knowledge base and the embedding router, except *)
(* at a node that collects or that has auto actions.                       *)
DispatchAwaits ==
  state.mode = "WORKFLOW" =>
    /\ state.node \notin CollectNodes \cup {"escalate_node"}
    /\ AutoAction(state.node) = "none"

(* The caller speaks: the turn is cancelled at the await it has reached,   *)
(* and what it has changed so far stays.                                   *)
Interrupt ==
  /\ \/ pc \in {"act", "edge"}
     \/ pc = "dispatch" /\ DispatchAwaits
  /\ interrupts < MaxInterrupts
  /\ interrupts' = interrupts + 1
  /\ EndTurn
  /\ UNCHANGED <<state, identified, done, escalated, hist, otpVars>>

(* The clock of the code, and ten minutes in which no success is cached. *)
Wait ==
  /\ pc = "listen" /\ ~escalated
  /\ Age
  /\ UNCHANGED flowVars

Forget ==
  /\ pc = "listen" /\ ~escalated /\ otpAge # "cooling"
  /\ done # {} /\ done' = {}
  /\ UNCHANGED <<pc, said, state, identified, offered, result, escalated,
                 interrupts, hist, otpVars>>

(* The specialist has the call; the worker only relays. *)
Transferred == pc = "listen" /\ escalated /\ UNCHANGED vars

Dispatch ==
  \/ DispatchEscalation \/ DispatchEnter \/ DispatchGeneral \/ DispatchWorkflow

Visit == AdvanceEnd \/ AdvanceAct \/ AdvanceWait

CallTool ==
  \/ Reprompt \/ ToolFails \/ CallCached \/ CallVerifyAccount \/ CallSendOtp
  \/ CallVerifyOtp \/ CallLookup \/ CallWriteTool

Llm ==
  \/ Speak \/ LlmQuery \/ LlmSendOtp \/ LlmRefund \/ LlmRefused \/ LlmEscalate
  \/ \E tool \in WriteTools : LlmWrite(tool)

(* A step of the worker, within a turn. *)
Work == HearAgain \/ Dispatch \/ Visit \/ CallTool \/ FollowEdge \/ Llm \/ Handoff

Next ==
  \/ \E u \in Utterances : Hear(u)
  \/ Work
  \/ Interrupt
  \/ Wait
  \/ Forget
  \/ Transferred

Spec == Init /\ [][Next]_vars

FairSpec == Spec /\ WF_vars(Work)

-----------------------------------------------------------------------------
(* The variables are of these types; between turns nothing of a turn is    *)
(* left, and outside a workflow nothing of a workflow is.                  *)
FlowTypeOK ==
  /\ OtpTypeOK
  /\ pc \in {"listen", "again", "dispatch", "advance", "act", "edge", "llm",
             "handoff"}
  /\ said \in Utterances \cup {Filler}
  /\ state \in States
  /\ identified \in BOOLEAN
  /\ escalated \in BOOLEAN
  /\ pc = "listen" => said = Filler /\ offered = {} /\ result = "none"
  /\ state.mode = "GENERAL" => state.wf = "none"
  /\ state.mode = "WORKFLOW" => state.wf # "none"

(* No node is visited more often than its max_attempts, whatever adds to   *)
(* the count: the turns, the second orchestration after a tool call, the   *)
(* retries of a collect node.                                              *)
AttemptsBounded ==
  state.mode = "WORKFLOW" => state.attempts <= MaxAttempts(state.node)

(* A workflow that was completed or left in this call is never the active  *)
(* one again, on either router and on a pivot.                             *)
NoReentry == state.mode = "WORKFLOW" => state.wf \notin state.completed

(* session_verified means that the tool accepted a code of this call: a    *)
(* task behind the verification is entered directly only then, although    *)
(* errors, unknown results and remembered successes also lead on.          *)
VerifiedByCode == state.verified => hist.opened

(* A transfer that was agreed to is final: the call never returns to a     *)
(* workflow or to general talk, no tool runs any more and nothing is       *)
(* written while the specialist is awaited.                                *)
EscalationFinal ==
  [][state.mode = "ESCALATION" =>
       /\ state'.mode = "ESCALATION"
       /\ state'.terminal = state.terminal
       /\ result' = "none"
       /\ pc # "listen" => UNCHANGED otpVars]_vars

(* Every turn ends, with the LLM free to call tools: each round of tools   *)
(* orchestrates the utterance again, and the attempts of the node run out. *)
TurnEnds == pc # "listen" ~> pc = "listen"

(* A caller who goes on talking, whatever they say, does not stay at the   *)
(* code for ever: the node's attempts, the tool's lock, the expiry of the  *)
(* code or its acceptance lead out.                                        *)
KeepsTalking == []<><<\E u \in Utterances : Hear(u)>>_vars
LeavesVerification ==
  KeepsTalking => ~<>[](state.mode = "WORKFLOW" /\ state.node = "verify_otp")

(* A caller who goes on talking and from some point on says nothing the    *)
(* workflow can use is not kept in it: its nodes time out or act, and the  *)
(* call returns to general talk or is transferred.                         *)
QuietCallerLeaves ==
  KeepsTalking /\ <>[](said = Filler) => ~<>[](state.mode = "WORKFLOW")

-----------------------------------------------------------------------------
(* What the repository says and the flow of the code refutes. *)

(* Behind verify_otp the directive says "Identity confirmed" (seed.py:783):*)
(* a task node is active only in a verified session.                       *)
TaskNodesVerified == state.node \in TaskNodes => state.verified

(* The profile's transaction is used when "the entity extractor hasn't     *)
(* captured one from speech yet" (node_executor.py:194): a dispute is      *)
(* filed on the transaction the caller named.                              *)
NamedTxnWins ==
  [][pc = "act" /\ state.node = "file_dispute_action" /\ pc' = "edge"
       /\ hist.named # NoTxn
     => state.txn = hist.named]_vars

(* After send_otp "the code IS now on its way" (seed.py:712).              *)
CodeIsOnItsWay ==
  [][pc = "edge" /\ state.node = "send_otp" /\ state'.node = "verify_otp"
       /\ result = "otp_sent"
     => otpCode /\ otpAge # "expired"]_vars

=============================================================================
