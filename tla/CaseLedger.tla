----------------------------- MODULE CaseLedger -----------------------------
(***************************************************************************)
(* The rows of Postgres that a support call may change: transactions,      *)
(* refunds, disputes, fraud cases, account holds and the account status of *)
(* a customer.  Three kinds of process change them at the same time:       *)
(*                                                                         *)
(*   - the tools of a voice call (backend/tools/wavvy_tools.py), run by    *)
(*     the LiveKit worker on behalf of the LLM or of a workflow node;      *)
(*   - the actions of a human specialist (backend/orchestration/           *)
(*     action_registry.py), run by the FastAPI process;                    *)
(*   - a re-run of the seed script beside them (README.md:356: "upsert-    *)
(*     only (safe mid-session)").                                          *)
(*                                                                         *)
(* They are async functions that read in one database session and write    *)
(* after one or more awaits, under READ COMMITTED and without SELECT ...   *)
(* FOR UPDATE, so a step here is one SELECT or one committed transaction   *)
(* and anything may happen between two steps of one tool.  The rows of one *)
(* transaction appear together at its commit; but a tool takes the         *)
(* customer of a row from the session when it comes to that row, and may   *)
(* find another one at the next.                                           *)
(***************************************************************************)
EXTENDS Integers, FiniteSets

CONSTANTS
  Calls,       \* the voice calls of the worker, each with a CallSession
  Tasks,       \* tool invocations a call may have in flight
  CallOf,      \* the call a task works for
  Agents,      \* the specialists' consoles
  Customers,
  Txns,        \* rows of transactions
  Owner,       \* transactions.customer_id
  HighValue,   \* the transactions of 50000 or more
  InitStatus,  \* statuses a transaction may have before any tool ran
  NoCustomer, NoTxn,
  MaxHolds,    \* bound: manual holds a customer is given, in Freeze
  MaxDisputes, \* bound: open disputes on a transaction, in InsertDispute
  MaxReseeds   \* bound: re-runs of the seed script, in Reseed

Statuses ==
  {"failed", "completed", "flagged", "kyc_hold",
   "pending",           \* and cancelled, expired, processing, compliance_hold
   "refund_initiated",  \* and refund_processing
   "refund_completed",
   "disputed",
   "chargeback",        \* initiated, won or lost
   "fraud_reported",    \* and fraud_confirmed
   "fraud_reversed"}

ASSUME CallOfAssumption == CallOf \in [Tasks -> Calls]
ASSUME OwnerAssumption == Owner \in [Txns -> Customers]
ASSUME NoneAssumption ==
  NoCustomer \notin Customers /\ NoTxn \notin Txns
ASSUME DisjointAssumption == Tasks \cap Agents = {}
ASSUME InitStatusAssumption ==
  InitStatus \subseteq {"failed", "completed", "flagged", "kyc_hold", "pending"}
ASSUME BoundAssumption ==
  MaxHolds \in Nat \ {0} /\ MaxDisputes \in Nat /\ MaxReseeds \in Nat

VARIABLES
  status,         \* transactions.status
  refunds,        \* rows of refunds, all of them active
  disputes,       \* rows of disputes with status open
  frauds,         \* rows of fraud_cases under_review, by transaction and customer
  cleared,        \* rows of fraud_cases with status cleared, likewise
  account,        \* customers.account_status
  fraudFlag,      \* customers.fraud_hold_active
  teamEscalated,  \* customers.fraud_team_escalated
  fraudHolds,     \* active account_holds of type fraud
  manualHolds,    \* active account_holds of type manual
  customer,       \* CallSession.customer_id
  otpVerified,    \* CallSession.otp_verified
  codeAccepted,   \* a verify_otp of the call succeeded, and is remembered
  sessionVerified,\* OrchestratorState.session_verified
  refundCase,     \* CallSession.refund_case_id is set
  op,             \* the tool a task or an agent has in flight
  seeding,        \* a re-run of the seed script is between its two commits
  reseeds,        \* re-runs so far
  torn            \* history: the customers whose flag and holds something
                  \* else than one report or one removal has set

txnVars  == <<status, refunds, disputes, frauds, cleared>>
custVars == <<account, fraudFlag, teamEscalated, fraudHolds, manualHolds>>
sessVars == <<customer, otpVerified, codeAccepted, sessionVerified, refundCase>>
seedVars == <<seeding, reseeds>>
vars     == <<txnVars, custVars, sessVars, op, seedVars, torn>>

Procs == Tasks \cup Agents

VoiceTools == {"refund", "dispute", "fraud", "unlock"}
AgentTools == {"issue_refund", "reopen_dispute", "agent_unlock", "freeze",
               "remove_hold", "fraud_team"}

Somebody == Customers \cup {NoCustomer}

Idle == [tool |-> "none", step |-> "idle", txn |-> NoTxn,
         cust |-> NoCustomer, saw |-> "pending",
         filedOn |-> NoCustomer, flagOn |-> NoCustomer, sure |-> FALSE]

(* filedOn and flagOn are the customers a report has put its case and its  *)
(* flag on; sure is a history: the session was verified at the read, and   *)
(* no action looks at it.                                                  *)
Ops == [tool : VoiceTools \cup AgentTools \cup {"none"},
        step : {"idle", "check", "write", "flag", "hold"},
        txn : Txns \cup {NoTxn},
        cust : Somebody,
        saw : Statuses,
        filedOn : Somebody,
        flagOn : Somebody,
        sure : BOOLEAN]

TxnType ==
  /\ status \in [Txns -> Statuses]
  /\ refunds \in [Txns -> Nat]
  /\ disputes \in [Txns -> Nat]
  /\ frauds \in [Txns \X Customers -> Nat]
  /\ cleared \in [Txns \X Customers -> Nat]

CustType ==
  /\ account \in [Customers -> {"active", "locked", "frozen"}]
  /\ fraudFlag \in [Customers -> BOOLEAN]
  /\ teamEscalated \in [Customers -> BOOLEAN]
  /\ fraudHolds \in [Customers -> Nat]
  /\ manualHolds \in [Customers -> Nat]

SessType ==
  /\ customer \in [Calls -> Somebody]
  /\ otpVerified \in [Calls -> BOOLEAN]
  /\ codeAccepted \in [Calls -> BOOLEAN]
  /\ sessionVerified \in [Calls -> BOOLEAN]
  /\ refundCase \in [Calls -> BOOLEAN]

SeedType == seeding \in BOOLEAN /\ reseeds \in Nat /\ torn \subseteq Somebody

(* The rows, the sessions and the tools in flight are of these types. *)
TypeOK == TxnType /\ CustType /\ SessType /\ SeedType /\ op \in [Procs -> Ops]

-----------------------------------------------------------------------------
(* The seed data, and what calls before these ones left of it: a           *)
(* transaction may already have a refund row while its status says nothing *)
(* of it (TXN-2200), a customer may be locked by a manual hold (Mike       *)
(* Torres) or under a fraud hold with one open case (Raj Patel, TXN-9901), *)
(* which a specialist may have cleared.  No status claims a case that has  *)
(* no row.                                                                 *)
Init ==
  /\ status \in [Txns -> InitStatus]
  /\ refunds \in [Txns -> {0, 1}]
  /\ disputes = [t \in Txns |-> 0]
  /\ \E case \in [Txns -> {"none", "open", "cleared"}] :
       /\ frauds = [tk \in Txns \X Customers |->
            IF tk[2] = Owner[tk[1]] /\ case[tk[1]] = "open" THEN 1 ELSE 0]
       /\ cleared = [tk \in Txns \X Customers |->
            IF tk[2] = Owner[tk[1]] /\ case[tk[1]] = "cleared" THEN 1 ELSE 0]
  /\ account \in [Customers -> {"active", "locked"}]
  /\ fraudFlag =
       [k \in Customers |-> \E t \in Txns : frauds[<<t, k>>] = 1]
  /\ teamEscalated = [k \in Customers |-> FALSE]
  /\ fraudHolds = [k \in Customers |-> IF fraudFlag[k] THEN 1 ELSE 0]
  /\ manualHolds =
       [k \in Customers |-> IF account[k] = "locked" THEN 1 ELSE 0]
  /\ customer = [c \in Calls |-> NoCustomer]
  /\ otpVerified = [c \in Calls |-> FALSE]
  /\ codeAccepted = [c \in Calls |-> FALSE]
  /\ sessionVerified = [c \in Calls |-> FALSE]
  /\ refundCase = [c \in Calls |-> FALSE]
  /\ op = [p \in Procs |-> Idle]
  /\ seeding = FALSE /\ reseeds = 0 /\ torn = {}

-----------------------------------------------------------------------------
(* The steps of a tool. *)

InStep(p, tool, step) == op[p].tool = tool /\ op[p].step = step

(* The tool starts: the reads made before its first decision succeeded. *)
Begin(p, tool, step, k, t, saw) ==
  op' = [op EXCEPT ![p] =
           [Idle EXCEPT !.tool = tool, !.step = step, !.txn = t, !.cust = k,
                        !.saw = saw,
                        !.sure = p \in Tasks /\ sessionVerified[CallOf[p]]]]

Advance(p, step) == op' = [op EXCEPT ![p].step = step]

Finish(p) == op' = [op EXCEPT ![p] = Idle]

Plus1(f, x) == [f EXCEPT ![x] = @ + 1]

(* The gate of every sensitive voice tool. *)
Authorised(c) == otpVerified[c] /\ customer[c] # NoCustomer

(* Every exit that writes nothing: a check that rejects, an exception, the *)
(* cancellation by execute_with_recovery's timeout before the commit, the  *)
(* unique index that refuses an INSERT.                                    *)
Abort(p) ==
  /\ op[p] # Idle
  /\ Finish(p)
  /\ UNCHANGED <<txnVars, custVars, sessVars, seedVars, torn>>

-----------------------------------------------------------------------------
(* The identity of a call.  Which node a call is at is CallFlow's; here a  *)
(* tool may run whenever it is not ruled out for good.                     *)

rest == <<txnVars, custVars, op, seedVars, torn>>

(* Variant: collect_phone is visited again in a verified session. *)
VerifyAccountAgain(c, k) ==
  /\ customer' = [customer EXCEPT ![c] = k]
  /\ UNCHANGED <<rest, otpVerified, codeAccepted, sessionVerified, refundCase>>

(* The collect_phone node, skipped once the session is verified; the turn  *)
(* of general talk that finds a number asks too, while no customer is      *)
(* known.  Another number replaces the customer and leaves otp_verified.   *)
VerifyAccount(c, k) ==
  /\ ~sessionVerified[c] \/ customer[c] = NoCustomer
  /\ customer' = [customer EXCEPT ![c] = k]
  /\ UNCHANGED <<rest, otpVerified, codeAccepted, sessionVerified, refundCase>>

(* A new code, unless the cooldown, the limit or a remembered answer       *)
(* forbids: the old acceptance does not count for it.                      *)
SendOtp(c) ==
  /\ otpVerified' = [otpVerified EXCEPT ![c] = FALSE]
  /\ UNCHANGED <<rest, customer, codeAccepted, sessionVerified, refundCase>>

(* The tool verify_otp receives the right code.  A verify_account that     *)
(* timed out also leads here, so the customer may be unknown.              *)
AcceptCode(c) ==
  /\ otpVerified' = [otpVerified EXCEPT ![c] = TRUE]
  /\ codeAccepted' = [codeAccepted EXCEPT ![c] = TRUE]
  /\ UNCHANGED <<rest, customer, sessionVerified, refundCase>>

(* The edge after a success of verify_otp, its own or a remembered one,    *)
(* and after an awaited publish_event: a turn that is cut there leaves     *)
(* otp_verified without session_verified, perhaps for good.                *)
MarkVerified(c) ==
  /\ codeAccepted[c]
  /\ sessionVerified' = [sessionVerified EXCEPT ![c] = TRUE]
  /\ UNCHANGED <<rest, customer, otpVerified, codeAccepted, refundCase>>

(* The room closes and the worker drops the session; the slot serves the   *)
(* next call.                                                              *)
EndCall(c) ==
  /\ \A p \in Tasks : CallOf[p] = c => op[p] = Idle
  /\ customer' = [customer EXCEPT ![c] = NoCustomer]
  /\ otpVerified' = [otpVerified EXCEPT ![c] = FALSE]
  /\ codeAccepted' = [codeAccepted EXCEPT ![c] = FALSE]
  /\ sessionVerified' = [sessionVerified EXCEPT ![c] = FALSE]
  /\ refundCase' = [refundCase EXCEPT ![c] = FALSE]
  /\ UNCHANGED rest

-----------------------------------------------------------------------------
(* initiate_refund of a voice call. *)

RefundRead(p, t) ==
  LET c == CallOf[p] IN
  /\ op[p] = Idle
  /\ Authorised(c) /\ ~refundCase[c]
  /\ Owner[t] = customer[c]
  /\ Begin(p, "refund", "check", customer[c], t, status[t])
  /\ UNCHANGED <<txnVars, custVars, sessVars, seedVars, torn>>

NotRefundable ==
  {"refund_initiated", "refund_completed", "completed", "flagged", "kyc_hold"}

(* The refunds table is read after the status, and decided first. *)
RefundCheck(p) ==
  /\ InStep(p, "refund", "check")
  /\ refunds[op[p].txn] = 0
  /\ op[p].saw \notin NotRefundable
  /\ Advance(p, "write")
  /\ UNCHANGED <<txnVars, custVars, sessVars, seedVars, torn>>

(* Variant: without the index, the application checks alone guard the row. *)
InsertRefundNoIndex(t) ==
  /\ refunds' = Plus1(refunds, t)
  /\ status' = [status EXCEPT ![t] = "refund_initiated"]
  /\ UNCHANGED <<disputes, frauds, cleared>>

(* UPDATE transactions and INSERT INTO refunds in one transaction; the     *)
(* unique index of migration 012 refuses a second active row.              *)
InsertRefund(t) ==
  /\ refunds[t] = 0
  /\ refunds' = Plus1(refunds, t)
  /\ status' = [status EXCEPT ![t] = "refund_initiated"]
  /\ UNCHANGED <<disputes, frauds, cleared>>

RefundCommit(p) ==
  LET c == CallOf[p] IN
  /\ InStep(p, "refund", "write")
  /\ InsertRefund(op[p].txn)
  /\ refundCase' = [refundCase EXCEPT ![c] = TRUE]
  /\ otpVerified' = [otpVerified EXCEPT ![c] = FALSE]
  /\ Finish(p)
  /\ UNCHANGED <<custVars, customer, codeAccepted, sessionVerified, seedVars, torn>>

(* The commit took effect but the tool was cancelled, or lost the          *)
(* connection, before it returned: the session keeps its old fields.       *)
RefundUnacked(p) ==
  /\ InStep(p, "refund", "write")
  /\ InsertRefund(op[p].txn)
  /\ Finish(p)
  /\ UNCHANGED <<custVars, sessVars, seedVars, torn>>

-----------------------------------------------------------------------------
(* raise_dispute of a voice call. *)

NotDisputable ==
  {"disputed", "chargeback", "flagged", "refund_initiated", "refund_completed"}

DisputeRead(p, t) ==
  LET c == CallOf[p] IN
  /\ op[p] = Idle
  /\ Authorised(c)
  /\ Owner[t] = customer[c]
  /\ status[t] \notin NotDisputable
  /\ t \notin HighValue
  /\ Begin(p, "dispute", "write", customer[c], t, "pending")
  /\ UNCHANGED <<txnVars, custVars, sessVars, seedVars, torn>>

InsertDispute(t) ==
  /\ disputes[t] < MaxDisputes
  /\ disputes' = Plus1(disputes, t)
  /\ status' = [status EXCEPT ![t] = "disputed"]
  /\ UNCHANGED <<refunds, frauds, cleared>>

DisputeWrite(p) ==
  /\ InStep(p, "dispute", "write")
  /\ InsertDispute(op[p].txn)
  /\ Finish(p)
  /\ UNCHANGED <<custVars, sessVars, seedVars, torn>>

-----------------------------------------------------------------------------
(* report_fraud of a voice call. *)

FraudRead(p, t) ==
  LET c == CallOf[p] IN
  /\ op[p] = Idle
  /\ Authorised(c)
  /\ Owner[t] = customer[c]
  /\ status[t] \notin {"fraud_reported", "fraud_reversed"}
  /\ Begin(p, "fraud", "check", customer[c], t, "pending")
  /\ UNCHANGED <<txnVars, custVars, sessVars, seedVars, torn>>

(* A cleared case is not among resolved, closed and rejected: it blocks a  *)
(* new report as an open one does, whoever it was filed on.                *)
FraudCheck(p) ==
  /\ InStep(p, "fraud", "check")
  /\ \A k \in Customers : frauds[<<op[p].txn, k>>] + cleared[<<op[p].txn, k>>] = 0
  /\ Advance(p, "write")
  /\ UNCHANGED <<txnVars, custVars, sessVars, seedVars, torn>>

(* The case, the flag and the hold are three statements of one database    *)
(* transaction, and each takes session.customer_id when it is its turn.    *)
FraudCase(p) ==
  /\ InStep(p, "fraud", "write")
  /\ op' = [op EXCEPT ![p].step = "flag", ![p].filedOn = customer[CallOf[p]]]
  /\ UNCHANGED <<txnVars, custVars, sessVars, seedVars, torn>>

FraudFlag(p) ==
  /\ InStep(p, "fraud", "flag")
  /\ op' = [op EXCEPT ![p].step = "hold", ![p].flagOn = customer[CallOf[p]]]
  /\ UNCHANGED <<txnVars, custVars, sessVars, seedVars, torn>>

(* The customers a report names in its rows; torn if not always the same. *)
Named(p) == {op[p].filedOn, op[p].flagOn, customer[CallOf[p]]}

FraudCommit(p) ==
  LET k == customer[CallOf[p]] IN
  /\ InStep(p, "fraud", "hold")
  /\ status' = [status EXCEPT ![op[p].txn] = "fraud_reported"]
  /\ frauds' = Plus1(frauds, <<op[p].txn, op[p].filedOn>>)
  /\ fraudFlag' = [fraudFlag EXCEPT ![op[p].flagOn] = TRUE]
  /\ fraudHolds' = Plus1(fraudHolds, k)
  /\ torn' = IF Named(p) = {k} THEN torn ELSE torn \cup Named(p)
  /\ Finish(p)
  /\ UNCHANGED <<refunds, disputes, cleared, account, teamEscalated,
                 manualHolds, sessVars, seedVars>>

-----------------------------------------------------------------------------
(* unlock_account of a voice call.  The manual holds stay as they are. *)

UnlockRead(p) ==
  LET k == customer[CallOf[p]] IN
  /\ op[p] = Idle
  /\ Authorised(CallOf[p])
  /\ ~fraudFlag[k]
  /\ account[k] # "frozen"
  /\ Begin(p, "unlock", "write", k, NoTxn, "pending")
  /\ UNCHANGED <<txnVars, custVars, sessVars, seedVars, torn>>

UnlockWrite(p) ==
  /\ InStep(p, "unlock", "write")
  /\ account' = [account EXCEPT ![customer[CallOf[p]]] = "active"]
  /\ Finish(p)
  /\ UNCHANGED <<txnVars, fraudFlag, teamEscalated, fraudHolds, manualHolds,
                 sessVars, seedVars, torn>>

-----------------------------------------------------------------------------
(* The actions of a specialist.  Each loads the customer (and the          *)
(* transaction), decides, and writes in the same database session.         *)

(* _issue_refund looks at the refunds of the transaction, not its status. *)
IssueRefundRead(a, t) ==
  /\ op[a] = Idle
  /\ refunds[t] = 0
  /\ Begin(a, "issue_refund", "write", Owner[t], t, "pending")
  /\ UNCHANGED <<txnVars, custVars, sessVars, seedVars, torn>>

IssueRefundWrite(a) ==
  /\ InStep(a, "issue_refund", "write")
  /\ InsertRefund(op[a].txn)
  /\ Finish(a)
  /\ UNCHANGED <<custVars, sessVars, seedVars, torn>>

ReopenDisputeRead(a, t) ==
  /\ op[a] = Idle
  /\ disputes[t] = 0
  /\ Begin(a, "reopen_dispute", "write", Owner[t], t, "pending")
  /\ UNCHANGED <<txnVars, custVars, sessVars, seedVars, torn>>

ReopenDisputeWrite(a) ==
  /\ InStep(a, "reopen_dispute", "write")
  /\ InsertDispute(op[a].txn)
  /\ Finish(a)
  /\ UNCHANGED <<custVars, sessVars, seedVars, torn>>

AgentUnlockRead(a, k) ==
  /\ op[a] = Idle
  /\ account[k] = "locked"
  /\ Begin(a, "agent_unlock", "write", k, NoTxn, "pending")
  /\ UNCHANGED <<txnVars, custVars, sessVars, seedVars, torn>>

AgentUnlockWrite(a) ==
  LET k == op[a].cust IN
  /\ InStep(a, "agent_unlock", "write")
  /\ account' = [account EXCEPT ![k] = "active"]
  /\ manualHolds' = [manualHolds EXCEPT ![k] = 0]
  /\ Finish(a)
  /\ UNCHANGED <<txnVars, fraudFlag, teamEscalated, fraudHolds, sessVars,
                 seedVars, torn>>

FreezeRead(a, k) ==
  /\ op[a] = Idle
  /\ account[k] # "frozen"
  /\ Begin(a, "freeze", "write", k, NoTxn, "pending")
  /\ UNCHANGED <<txnVars, custVars, sessVars, seedVars, torn>>

FreezeWrite(a) ==
  LET k == op[a].cust IN
  /\ InStep(a, "freeze", "write")
  /\ manualHolds[k] < MaxHolds
  /\ account' = [account EXCEPT ![k] = "frozen"]
  /\ manualHolds' = Plus1(manualHolds, k)
  /\ Finish(a)
  /\ UNCHANGED <<txnVars, fraudFlag, teamEscalated, fraudHolds, sessVars,
                 seedVars, torn>>

RemoveHoldRead(a, k) ==
  /\ op[a] = Idle
  /\ fraudFlag[k]
  /\ Begin(a, "remove_hold", "write", k, NoTxn, "pending")
  /\ UNCHANGED <<txnVars, custVars, sessVars, seedVars, torn>>

(* Variant: the cases are deleted. *)
RemoveHoldDeletes(a) ==
  LET k == op[a].cust IN
  /\ InStep(a, "remove_hold", "write")
  /\ fraudFlag' = [fraudFlag EXCEPT ![k] = FALSE]
  /\ fraudHolds' = [fraudHolds EXCEPT ![k] = 0]
  /\ frauds' = [tk \in Txns \X Customers |-> IF tk[2] = k THEN 0 ELSE frauds[tk]]
  /\ Finish(a)
  /\ UNCHANGED <<status, refunds, disputes, cleared, account, teamEscalated,
                 manualHolds, sessVars, seedVars, torn>>

(* Every case of the customer that is under review is cleared. *)
ClearCases(k) ==
  /\ cleared' = [tk \in Txns \X Customers |->
                   IF tk[2] = k THEN cleared[tk] + frauds[tk] ELSE cleared[tk]]
  /\ frauds' = [tk \in Txns \X Customers |-> IF tk[2] = k THEN 0 ELSE frauds[tk]]

(* Variant: one hold is lifted, the one the specialist saw. *)
RemoveOneHold(a) ==
  LET k == op[a].cust IN
  /\ InStep(a, "remove_hold", "write")
  /\ fraudFlag' = [fraudFlag EXCEPT ![k] = FALSE]
  /\ fraudHolds' = [fraudHolds EXCEPT ![k] = IF @ > 0 THEN @ - 1 ELSE 0]
  /\ ClearCases(k)
  /\ Finish(a)
  /\ UNCHANGED <<status, refunds, disputes, account, teamEscalated,
                 manualHolds, sessVars, seedVars, torn>>

(* Clears every case of the customer that is under review by then, not     *)
(* only those the specialist saw.                                          *)
RemoveHoldWrite(a) ==
  LET k == op[a].cust IN
  /\ InStep(a, "remove_hold", "write")
  /\ fraudFlag' = [fraudFlag EXCEPT ![k] = FALSE]
  /\ fraudHolds' = [fraudHolds EXCEPT ![k] = 0]
  /\ ClearCases(k)
  /\ Finish(a)
  /\ UNCHANGED <<status, refunds, disputes, account, teamEscalated,
                 manualHolds, sessVars, seedVars, torn>>

(* _escalate_fraud_team opens a case with no hold, once per customer; the  *)
(* transaction is optional, and a case on none blocks no later report.     *)
FraudTeamRead(a, k, t) ==
  /\ op[a] = Idle
  /\ ~teamEscalated[k]
  /\ t # NoTxn => Owner[t] = k
  /\ Begin(a, "fraud_team", "write", k, t, "pending")
  /\ UNCHANGED <<txnVars, custVars, sessVars, seedVars, torn>>

FraudTeamWrite(a) ==
  LET t == op[a].txn
      k == op[a].cust IN
  /\ InStep(a, "fraud_team", "write")
  /\ teamEscalated' = [teamEscalated EXCEPT ![k] = TRUE]
  /\ frauds' = IF t = NoTxn THEN frauds ELSE Plus1(frauds, <<t, k>>)
  /\ Finish(a)
  /\ UNCHANGED <<status, refunds, disputes, cleared, account, fraudFlag,
                 fraudHolds, manualHolds, sessVars, seedVars, torn>>

-----------------------------------------------------------------------------
(* Variant: the tables of the cases are filled anew, the statuses are kept. *)
ReseedCasesOnly ==
  /\ ~seeding /\ reseeds < MaxReseeds
  /\ seeding' = TRUE /\ reseeds' = reseeds + 1
  /\ refunds' = [t \in Txns |-> 0]
  /\ disputes' = [t \in Txns |-> 0]
  /\ torn' = Customers
  /\ UNCHANGED <<status, frauds, cleared, custVars, sessVars, op>>

(* The seed script runs again.  Its first transaction gives customers and  *)
(* transactions the seeded values again, which are left open here as in    *)
(* Init; its second one reopens the one seeded case.  The other seeded     *)
(* rows are there already, in whatever state, and are not touched.         *)
Reseed ==
  /\ ~seeding /\ reseeds < MaxReseeds
  /\ seeding' = TRUE /\ reseeds' = reseeds + 1
  /\ status' \in [Txns -> InitStatus]
  /\ account' \in [Customers -> {"active", "locked"}]
  /\ fraudFlag' \in [Customers -> BOOLEAN]
  /\ torn' = Customers
  /\ UNCHANGED <<refunds, disputes, frauds, cleared, teamEscalated, fraudHolds,
                 manualHolds, sessVars, op>>

ReopenCase(t) ==
  LET case == <<t, Owner[t]>> IN
  /\ cleared[case] > 0
  /\ cleared' = [cleared EXCEPT ![case] = @ - 1]
  /\ frauds' = Plus1(frauds, case)

ReseedCases ==
  /\ seeding
  /\ seeding' = FALSE
  /\ (\E t \in Txns : ReopenCase(t)) \/ UNCHANGED <<frauds, cleared>>
  /\ UNCHANGED <<status, refunds, disputes, custVars, sessVars, op, reseeds, torn>>

-----------------------------------------------------------------------------
CallStep(c) ==
  \/ \E k \in Customers : VerifyAccount(c, k)
  \/ SendOtp(c)
  \/ AcceptCode(c)
  \/ MarkVerified(c)
  \/ EndCall(c)

VoiceStep(p) ==
  \/ \E t \in Txns : RefundRead(p, t)
  \/ RefundCheck(p)
  \/ RefundCommit(p)
  \/ RefundUnacked(p)
  \/ \E t \in Txns : DisputeRead(p, t)
  \/ DisputeWrite(p)
  \/ \E t \in Txns : FraudRead(p, t)
  \/ FraudCheck(p)
  \/ FraudCase(p)
  \/ FraudFlag(p)
  \/ FraudCommit(p)
  \/ UnlockRead(p)
  \/ UnlockWrite(p)

AgentStep(a) ==
  \/ \E t \in Txns : IssueRefundRead(a, t)
  \/ IssueRefundWrite(a)
  \/ \E t \in Txns : ReopenDisputeRead(a, t)
  \/ ReopenDisputeWrite(a)
  \/ \E k \in Customers : AgentUnlockRead(a, k)
  \/ AgentUnlockWrite(a)
  \/ \E k \in Customers : FreezeRead(a, k)
  \/ FreezeWrite(a)
  \/ \E k \in Customers : RemoveHoldRead(a, k)
  \/ RemoveHoldWrite(a)
  \/ \E k \in Customers, t \in Txns \cup {NoTxn} : FraudTeamRead(a, k, t)
  \/ FraudTeamWrite(a)

Next ==
  \/ \E c \in Calls : CallStep(c)
  \/ \E p \in Tasks : VoiceStep(p)
  \/ \E a \in Agents : AgentStep(a)
  \/ \E p \in Procs : Abort(p)
  \/ Reseed
  \/ ReseedCases

Spec == Init /\ [][Next]_vars

-----------------------------------------------------------------------------
(* A transaction never has two active refunds, whoever asks and however    *)
(* the checks of initiate_refund and _issue_refund interleave with the     *)
(* inserts (migration 012: "makes duplicate creation structurally          *)
(* impossible").                                                           *)
OneActiveRefund == \A t \in Txns : refunds[t] <= 1

(* A status that names a case is backed by a row of that case: neither the *)
(* tools that overwrite each other's status, nor the removal of a hold,    *)
(* nor a re-run of the seed script leaves a status that no row explains.   *)
(* The converse is not promised: a re-run, or the next case, resets the    *)
(* status beside a row, and so initiate_refund asks the refunds first      *)
(* (wavvy_tools.py:593).  What someone writes by hand, or a rebuild of the *)
(* tables, is outside; get_refund_status has an answer for a refund whose  *)
(* row it does not see (wavvy_tools.py:1013).                              *)
StatusBacked ==
  \A t \in Txns :
    /\ status[t] = "refund_initiated" => refunds[t] >= 1
    /\ status[t] = "disputed" => disputes[t] >= 1
    /\ status[t] = "fraud_reported" =>
         \E k \in Customers : frauds[<<t, k>>] + cleared[<<t, k>>] >= 1

(* The flag on the customer, the fraud holds and the open cases agree,     *)
(* although report_fraud and _remove_fraud_hold each write three tables:   *)
(* the flag is up exactly while a fraud hold is active, and then a case of *)
(* that customer is under review.  Not so for the customers between whom a *)
(* report was torn, nor after a re-run of the seed script.                 *)
FraudHoldCoherent ==
  \A k \in Customers \ torn :
    /\ fraudFlag[k] <=> fraudHolds[k] > 0
    /\ fraudFlag[k] => \E t \in Txns : frauds[<<t, k>>] > 0

(* A frozen account has an active manual hold that says why: no unlock     *)
(* lifts the hold of a freeze and leaves the account frozen.               *)
FrozenHasHold ==
  \A k \in Customers : account[k] = "frozen" => manualHolds[k] > 0

(* A voice call files cases only after a code was accepted in it; and in a *)
(* session that was verified when the tool read the transaction, every row *)
(* the tool writes, some awaits later, names the owner of the transaction, *)
(* whatever the caller said meanwhile.  In one that was not, neither is    *)
(* promised of more than the code (section 12 of the README).              *)
WriteAuthorised(p) ==
  LET t == op[p].txn
      c == CallOf[p] IN
  /\ op[p] # Idle /\ op'[p] = Idle
  /\ t # NoTxn
  /\ <<refunds, disputes, frauds>> # <<refunds', disputes', frauds'>>
  => /\ codeAccepted[c]
     /\ op[p].sure =>
          /\ customer[c] = Owner[t]
          /\ op[p].tool = "fraud" => Named(p) = {Owner[t]}

WritesAuthorised == [][\A p \in Tasks : WriteAuthorised(p)]_vars

(* To a reader of the rows every tool files its case in one step, with all *)
(* that goes with it, whatever ran between its reads and its write: the    *)
(* ledger implements CaseFile.                                             *)
File == INSTANCE CaseFile
CasesFiled == File!FileSpec

-----------------------------------------------------------------------------
(* What the repository says and the interleavings of the code refute. *)

(* raise_dispute: "Idempotent -- duplicate disputes return                 *)
(* fast_response_key" (wavvy_tools.py:702).                                *)
NoDuplicateDispute ==
  [][\A p \in Tasks :
       InStep(p, "dispute", "write") /\ disputes' # disputes /\ op'[p] = Idle
         => disputes[op[p].txn] = 0]_vars

(* "Account has a regulatory freeze -- cannot unlock from this console"    *)
(* (action_registry.py:81); unlock_account answers compliance_hold.        *)
FrozenStaysFrozen ==
  [][\A k \in Customers : account[k] = "frozen" => account'[k] = "frozen"]_vars

(* report_fraud: "Requires OTP verification (proves caller owns the        *)
(* account)" (wavvy_tools.py:794).                                         *)
CasesOnOwner ==
  \A t \in Txns, k \in Customers : frauds[<<t, k>>] > 0 => k = Owner[t]

(* The case, the flag and the hold of a report are on one customer         *)
(* (wavvy_tools.py:878: "Place a fraud hold on the account so the Agent    *)
(* Console can later lift it").                                            *)
NoTornReport == torn = {}

(* "upsert-only (safe mid-session)" (README.md:356), of the seed script:   *)
(* no flag is lowered beside an active hold.                               *)
SeedIsSafe == \A k \in Customers : fraudHolds[k] > 0 => fraudFlag[k]

=============================================================================
