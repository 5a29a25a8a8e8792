-------------------------- MODULE CaseLedgerProofs --------------------------
(***************************************************************************)
(* What CaseLedger keeps for every set of calls, tools in flight,          *)
(* specialists, customers and transactions, and without the bound of a     *)
(* run.  The rows are related to each other by an invariant that is not    *)
(* inductive alone: a tool writes what it decided some steps before, so    *)
(* InFlight says what is still true of a tool between its read and its     *)
(* write.                                                                  *)
(***************************************************************************)
EXTENDS CaseLedger, TLAPS

CustomerTools ==
  {"agent_unlock", "freeze", "remove_hold", "fraud_team"}
CaseTools == {"refund", "dispute", "fraud"}

(* A tool that passed the gate has the accepted code behind it, and some   *)
(* customer.  If the session was verified at its read, the customer of the *)
(* call stays until the call ends: it is the owner of the transaction that *)
(* was read, and every row of a report names that customer.                *)
TaskInFlight(p) ==
  LET c == CallOf[p] IN
  /\ op[p].tool \in VoiceTools \cup {"none"}
  /\ op[p].tool \in VoiceTools =>
       /\ codeAccepted[c]
       /\ customer[c] \in Customers
       /\ op[p].sure => sessionVerified[c]
  /\ op[p].tool \in CaseTools =>
       /\ op[p].txn \in Txns
       /\ op[p].sure => Owner[op[p].txn] = customer[c]
  /\ op[p].step \in {"flag", "hold"} =>
       /\ op[p].tool = "fraud"
       /\ op[p].filedOn \in Customers
       /\ op[p].sure => op[p].filedOn = customer[c]
  /\ op[p].step = "hold" =>
       /\ op[p].flagOn \in Customers
       /\ op[p].sure => op[p].flagOn = customer[c]

AgentInFlight(a) ==
  /\ op[a].tool \in AgentTools \cup {"none"}
  /\ op[a].tool \in {"issue_refund", "reopen_dispute"} => op[a].txn \in Txns
  /\ op[a].tool \in CustomerTools => op[a].cust \in Customers
  /\ op[a].tool = "fraud_team" =>
       op[a].txn = NoTxn \/ (op[a].txn \in Txns /\ Owner[op[a].txn] = op[a].cust)

InFlight ==
  /\ \A c \in Calls : otpVerified[c] \/ sessionVerified[c] => codeAccepted[c]
  /\ \A p \in Tasks : TaskInFlight(p)
  /\ \A a \in Agents : AgentInFlight(a)

(* Between its two commits the seed script has touched every customer. *)
SeedInFlight == seeding => torn = Customers

IInv ==
  /\ TypeOK
  /\ InFlight
  /\ SeedInFlight
  /\ OneActiveRefund
  /\ StatusBacked
  /\ FraudHoldCoherent
  /\ FrozenHasHold

-----------------------------------------------------------------------------
LEMMA IdleOps == Idle \in Ops
BY DEF Idle, Ops, Statuses, Somebody

(* The ways a step leaves op: a tool starts, moves on, names a customer in *)
(* a row, and ends.                                                        *)
LEMMA BeginOps ==
  ASSUME op \in [Procs -> Ops], NEW p \in Procs,
         NEW tool \in VoiceTools \cup AgentTools, NEW step \in {"check", "write"},
         NEW k \in Somebody, NEW t \in Txns \cup {NoTxn},
         NEW saw \in Statuses, Begin(p, tool, step, k, t, saw)
  PROVE  op' \in [Procs -> Ops]
<1> DEFINE b == p \in Tasks /\ sessionVerified[CallOf[p]]
<1>1. b \in BOOLEAN
  OBVIOUS
<1> HIDE DEF b
<1>2. [Idle EXCEPT !.tool = tool, !.step = step, !.txn = t, !.cust = k,
                   !.saw = saw, !.sure = b] \in Ops
  BY <1>1, IdleOps DEF Ops
<1> QED
  BY <1>2 DEF Begin, b

LEMMA AdvanceOps ==
  ASSUME op \in [Procs -> Ops], NEW p \in Procs, Advance(p, "write")
  PROVE  op' \in [Procs -> Ops]
BY DEF Advance, Ops

LEMMA FiledOps ==
  ASSUME op \in [Procs -> Ops], NEW p \in Procs, NEW k \in Somebody,
         \/ op' = [op EXCEPT ![p].step = "flag", ![p].filedOn = k]
         \/ op' = [op EXCEPT ![p].step = "hold", ![p].flagOn = k]
  PROVE  op' \in [Procs -> Ops]
BY DEF Ops

(* What the two naming steps make of the operation. *)
Filed(r, k) == [r EXCEPT !.step = "flag", !.filedOn = k]
Flagged(r, k) == [r EXCEPT !.step = "hold", !.flagOn = k]

LEMMA FiledFields ==
  ASSUME NEW r \in Ops, NEW k
  PROVE  /\ Filed(r, k).step = "flag" /\ Filed(r, k).filedOn = k
         /\ Filed(r, k).tool = r.tool /\ Filed(r, k).txn = r.txn
         /\ Filed(r, k).sure = r.sure
<1>1. Filed(r, k).step = "flag" BY DEF Ops, Filed
<1>2. Filed(r, k).filedOn = k BY DEF Ops, Filed
<1>3. Filed(r, k).tool = r.tool BY DEF Ops, Filed
<1>4. Filed(r, k).txn = r.txn BY DEF Ops, Filed
<1>5. Filed(r, k).sure = r.sure BY DEF Ops, Filed
<1> QED
  BY <1>1, <1>2, <1>3, <1>4, <1>5

LEMMA FlaggedFields ==
  ASSUME NEW r \in Ops, NEW k
  PROVE  /\ Flagged(r, k).step = "hold" /\ Flagged(r, k).flagOn = k
         /\ Flagged(r, k).tool = r.tool /\ Flagged(r, k).txn = r.txn
         /\ Flagged(r, k).sure = r.sure /\ Flagged(r, k).filedOn = r.filedOn
<1>1. Flagged(r, k).step = "hold" BY DEF Ops, Flagged
<1>2. Flagged(r, k).flagOn = k BY DEF Ops, Flagged
<1>3. Flagged(r, k).tool = r.tool BY DEF Ops, Flagged
<1>4. Flagged(r, k).txn = r.txn BY DEF Ops, Flagged
<1>5. Flagged(r, k).sure = r.sure BY DEF Ops, Flagged
<1>6. Flagged(r, k).filedOn = r.filedOn BY DEF Ops, Flagged
<1> QED
  BY <1>1, <1>2, <1>3, <1>4, <1>5, <1>6

LEMMA FinishOps ==
  ASSUME op \in [Procs -> Ops], NEW p \in Procs, Finish(p)
  PROVE  op' \in [Procs -> Ops]
BY IdleOps DEF Finish

LEMMA Plus1Type ==
  ASSUME NEW S, NEW f \in [S -> Nat], NEW x
  PROVE  Plus1(f, x) \in [S -> Nat]
<1>1. \A y \in S : (IF y = x THEN f[x] + 1 ELSE f[y]) \in Nat
  OBVIOUS
<1>2. Plus1(f, x) = [y \in S |-> IF y = x THEN f[x] + 1 ELSE f[y]]
  BY DEF Plus1
<1> QED
  BY <1>1, <1>2

(* The counts of a table by transaction and customer. *)
Counts == [Txns \X Customers -> Nat]

LEMMA CountsPlus1 ==
  ASSUME NEW f \in Counts, NEW t \in Txns, NEW k \in Customers
  PROVE  /\ Plus1(f, <<t, k>>) \in Counts
         /\ Plus1(f, <<t, k>>)[<<t, k>>] = f[<<t, k>>] + 1
         /\ \A u \in Txns, j \in Customers :
              /\ f[<<u, j>>] \in Nat
              /\ u # t \/ j # k => Plus1(f, <<t, k>>)[<<u, j>>] = f[<<u, j>>]
<1>1. Plus1(f, <<t, k>>) \in Counts
  BY Plus1Type DEF Counts
<1>2. <<t, k>> \in Txns \X Customers
  OBVIOUS
<1>3. Plus1(f, <<t, k>>)[<<t, k>>] = f[<<t, k>>] + 1
  BY <1>2 DEF Plus1, Counts
<1>4. ASSUME NEW u \in Txns, NEW j \in Customers
      PROVE  /\ f[<<u, j>>] \in Nat
             /\ u # t \/ j # k => Plus1(f, <<t, k>>)[<<u, j>>] = f[<<u, j>>]
  <2>1. <<u, j>> \in Txns \X Customers
    OBVIOUS
  <2>2. u # t \/ j # k => <<u, j>> # <<t, k>>
    OBVIOUS
  <2> QED
    BY <2>1, <2>2 DEF Plus1, Counts
<1> QED
  BY <1>1, <1>3, <1>4

LEMMA CountsGrow ==
  ASSUME NEW f \in Counts, NEW t \in Txns, NEW k \in Customers,
         NEW u \in Txns, NEW j \in Customers
  PROVE  /\ f[<<u, j>>] \in Nat
         /\ Plus1(f, <<t, k>>)[<<u, j>>] \in Nat
         /\ Plus1(f, <<t, k>>)[<<u, j>>] >= f[<<u, j>>]
<1>1. CASE u = t /\ j = k
  <2>1. Plus1(f, <<t, k>>)[<<t, k>>] = f[<<t, k>>] + 1 /\ f[<<t, k>>] \in Nat
    BY CountsPlus1
  <2> QED
    BY <1>1, <2>1
<1>2. CASE u # t \/ j # k
  <2>1. Plus1(f, <<t, k>>)[<<u, j>>] = f[<<u, j>>] /\ f[<<u, j>>] \in Nat
    BY <1>2, CountsPlus1
  <2> QED
    BY <2>1
<1> QED
  BY <1>1, <1>2

LEMMA ExceptType ==
  ASSUME NEW S, NEW T, NEW f \in [S -> T], NEW x, NEW v \in T
  PROVE  [f EXCEPT ![x] = v] \in [S -> T]
OBVIOUS

LEMMA InsertRefundType ==
  ASSUME TxnType, NEW t, InsertRefund(t)
  PROVE  TxnType'
<1>1. "refund_initiated" \in Statuses
  BY DEF Statuses
<1>2. status' \in [Txns -> Statuses]
  BY <1>1, ExceptType DEF InsertRefund, TxnType
<1>3. refunds' \in [Txns -> Nat]
  BY Plus1Type DEF InsertRefund, TxnType
<1> QED
  BY <1>2, <1>3 DEF InsertRefund, TxnType

LEMMA InsertDisputeType ==
  ASSUME TxnType, NEW t, InsertDispute(t)
  PROVE  TxnType'
<1>1. "disputed" \in Statuses
  BY DEF Statuses
<1>2. status' \in [Txns -> Statuses]
  BY <1>1, ExceptType DEF InsertDispute, TxnType
<1>3. disputes' \in [Txns -> Nat]
  BY Plus1Type DEF InsertDispute, TxnType
<1> QED
  BY <1>2, <1>3 DEF InsertDispute, TxnType

LEMMA ClearCasesType ==
  ASSUME frauds \in Counts, cleared \in Counts, NEW k, ClearCases(k)
  PROVE  frauds' \in Counts /\ cleared' \in Counts
<1>1. \A tk \in Txns \X Customers :
        /\ (IF tk[2] = k THEN 0 ELSE frauds[tk]) \in Nat
        /\ (IF tk[2] = k THEN cleared[tk] + frauds[tk] ELSE cleared[tk]) \in Nat
  BY DEF Counts
<1> QED
  BY <1>1 DEF ClearCases, Counts

LEMMA SameType ==
  /\ TxnType /\ UNCHANGED txnVars => TxnType'
  /\ CustType /\ UNCHANGED custVars => CustType'
  /\ SessType /\ UNCHANGED sessVars => SessType'
  /\ SeedType /\ UNCHANGED <<seedVars, torn>> => SeedType'
BY DEF TxnType, CustType, SessType, SeedType, txnVars, custVars, sessVars, seedVars

LEMMA TypeInit == Init => TypeOK
<1> SUFFICES ASSUME Init PROVE TypeOK
  OBVIOUS
<1>1. TxnType
  <2>1. InitStatus \subseteq Statuses
    BY InitStatusAssumption DEF Statuses
  <2>2. status \in [Txns -> Statuses]
    BY <2>1 DEF Init
  <2>3. \A f \in [Txns -> {0, 1}] : f \in [Txns -> Nat]
    OBVIOUS
  <2>4. frauds \in [Txns \X Customers -> Nat] /\ cleared \in [Txns \X Customers -> Nat]
    BY DEF Init
  <2> QED
    BY <2>2, <2>3, <2>4 DEF Init, TxnType
<1>2. CustType
  BY DEF Init, CustType
<1>3. SessType /\ SeedType
  BY DEF Init, SessType, SeedType, Somebody
<1>4. op \in [Procs -> Ops]
  BY IdleOps DEF Init
<1> QED
  BY <1>1, <1>2, <1>3, <1>4 DEF TypeOK

LEMMA TypeCall ==
  ASSUME TypeOK, NEW c \in Calls, CallStep(c)
  PROVE  TypeOK'
<1>1. UNCHANGED rest
  BY DEF CallStep, VerifyAccount, SendOtp, AcceptCode, MarkVerified, EndCall, rest
<1>2. SessType'
  BY DEF TypeOK, SessType, Somebody,
         CallStep, VerifyAccount, SendOtp, AcceptCode, MarkVerified, EndCall
<1> QED
  BY <1>1, <1>2, SameType DEF TypeOK, rest

LEMMA TypeVoice ==
  ASSUME TypeOK, NEW p \in Tasks, VoiceStep(p)
  PROVE  TypeOK'
<1>1. p \in Procs /\ CallOf[p] \in Calls /\ op[p] \in Ops
  BY CallOfAssumption DEF Procs, TypeOK
<1>2. customer[CallOf[p]] \in Somebody
  BY <1>1 DEF TypeOK, SessType
<1>3. ASSUME NEW t \in Txns,
             RefundRead(p, t) \/ DisputeRead(p, t) \/ FraudRead(p, t)
      PROVE  TypeOK'
  <2>1. status[t] \in Statuses /\ "pending" \in Statuses
    BY DEF TypeOK, TxnType, Statuses
  <2>2. op' \in [Procs -> Ops]
    BY <1>1, <1>2, <1>3, <2>1, BeginOps
    DEF RefundRead, DisputeRead, FraudRead, VoiceTools, TypeOK
  <2> QED
    BY <1>3, <2>2, SameType DEF RefundRead, DisputeRead, FraudRead, TypeOK
<1>4. CASE UnlockRead(p)
  <2>1. op' \in [Procs -> Ops]
    BY <1>1, <1>2, <1>4, BeginOps DEF UnlockRead, VoiceTools, Statuses, TypeOK
  <2> QED
    BY <1>4, <2>1, SameType DEF UnlockRead, TypeOK
<1>5. CASE RefundCheck(p) \/ FraudCheck(p)
  <2>1. op' \in [Procs -> Ops]
    BY <1>1, <1>5, AdvanceOps DEF RefundCheck, FraudCheck, TypeOK
  <2> QED
    BY <1>5, <2>1, SameType DEF RefundCheck, FraudCheck, TypeOK
<1>6. CASE FraudCase(p) \/ FraudFlag(p)
  <2>1. op' \in [Procs -> Ops]
    BY <1>1, <1>2, <1>6, FiledOps DEF FraudCase, FraudFlag, TypeOK
  <2> QED
    BY <1>6, <2>1, SameType DEF FraudCase, FraudFlag, TypeOK
<1>7. CASE RefundCommit(p)
  <2>1. SessType'
    BY <1>7 DEF RefundCommit, TypeOK, SessType
  <2>2. op' \in [Procs -> Ops]
    BY <1>1, <1>7, FinishOps DEF RefundCommit, TypeOK
  <2> QED
    BY <1>7, <2>1, <2>2, SameType, InsertRefundType DEF RefundCommit, TypeOK
<1>8. CASE RefundUnacked(p)
  BY <1>1, <1>8, SameType, InsertRefundType, FinishOps
  DEF RefundUnacked, TypeOK
<1>9. CASE DisputeWrite(p)
  BY <1>1, <1>9, SameType, InsertDisputeType, FinishOps
  DEF DisputeWrite, TypeOK
<1>10. CASE FraudCommit(p)
  <2>1. "fraud_reported" \in Statuses
    BY DEF Statuses
  <2>2. TxnType'
    <3>1. status' \in [Txns -> Statuses]
      BY <1>10, <2>1, ExceptType DEF FraudCommit, TypeOK, TxnType
    <3>2. frauds' \in [Txns \X Customers -> Nat]
      <4>1. frauds \in [Txns \X Customers -> Nat]
        BY DEF TypeOK, TxnType
      <4>2. frauds' = Plus1(frauds, <<op[p].txn, op[p].filedOn>>)
        BY <1>10 DEF FraudCommit
      <4> QED
        BY <4>1, <4>2, Plus1Type
    <3> QED
      BY <1>10, <3>1, <3>2 DEF FraudCommit, TypeOK, TxnType
  <2>3. CustType'
    BY <1>10, Plus1Type DEF FraudCommit, TypeOK, CustType
  <2>4. Named(p) \subseteq Somebody
    BY <1>1, <1>2 DEF Named, Ops
  <2>5. SeedType'
    BY <1>10, <2>4 DEF FraudCommit, TypeOK, SeedType, seedVars
  <2> QED
    BY <1>1, <1>10, <2>2, <2>3, <2>5, SameType, FinishOps DEF FraudCommit, TypeOK
<1>11. CASE UnlockWrite(p)
  <2>1. CustType'
    BY <1>11 DEF UnlockWrite, TypeOK, CustType
  <2> QED
    BY <1>1, <1>11, <2>1, SameType, FinishOps DEF UnlockWrite, TypeOK
<1> QED
  BY <1>3, <1>4, <1>5, <1>6, <1>7, <1>8, <1>9, <1>10, <1>11 DEF VoiceStep

LEMMA TypeAgent ==
  ASSUME TypeOK, NEW a \in Agents, AgentStep(a)
  PROVE  TypeOK'
<1>1. a \in Procs /\ op[a] \in Ops
  BY DEF Procs, TypeOK
<1>2. ASSUME NEW t \in Txns, IssueRefundRead(a, t) \/ ReopenDisputeRead(a, t)
      PROVE  TypeOK'
  <2>1. Owner[t] \in Somebody /\ "pending" \in Statuses
    BY OwnerAssumption DEF Statuses, Somebody
  <2>2. op' \in [Procs -> Ops]
    BY <1>1, <1>2, <2>1, BeginOps
    DEF IssueRefundRead, ReopenDisputeRead, AgentTools, TypeOK
  <2> QED
    BY <1>2, <2>2, SameType DEF IssueRefundRead, ReopenDisputeRead, TypeOK
<1>3. ASSUME NEW k \in Customers,
             AgentUnlockRead(a, k) \/ FreezeRead(a, k) \/ RemoveHoldRead(a, k)
      PROVE  TypeOK'
  <2>1. op' \in [Procs -> Ops]
    BY <1>1, <1>3, BeginOps
    DEF AgentUnlockRead, FreezeRead, RemoveHoldRead, AgentTools, Statuses,
        Somebody, TypeOK
  <2> QED
    BY <1>3, <2>1, SameType
    DEF AgentUnlockRead, FreezeRead, RemoveHoldRead, TypeOK
<1>4. ASSUME NEW k \in Customers, NEW t \in Txns \cup {NoTxn},
             FraudTeamRead(a, k, t)
      PROVE  TypeOK'
  <2>1. op' \in [Procs -> Ops]
    BY <1>1, <1>4, BeginOps DEF FraudTeamRead, AgentTools, Statuses, Somebody, TypeOK
  <2> QED
    BY <1>4, <2>1, SameType DEF FraudTeamRead, TypeOK
<1>5. CASE IssueRefundWrite(a)
  BY <1>1, <1>5, SameType, InsertRefundType, FinishOps
  DEF IssueRefundWrite, TypeOK
<1>6. CASE ReopenDisputeWrite(a)
  BY <1>1, <1>6, SameType, InsertDisputeType, FinishOps
  DEF ReopenDisputeWrite, TypeOK
<1>7. CASE AgentUnlockWrite(a)
  <2>1. CustType'
    BY <1>7 DEF AgentUnlockWrite, TypeOK, CustType
  <2> QED
    BY <1>1, <1>7, <2>1, SameType, FinishOps DEF AgentUnlockWrite, TypeOK
<1>8. CASE FreezeWrite(a)
  <2>1. CustType'
    BY <1>8, Plus1Type DEF FreezeWrite, TypeOK, CustType
  <2> QED
    BY <1>1, <1>8, <2>1, SameType, FinishOps DEF FreezeWrite, TypeOK
<1>9. CASE RemoveHoldWrite(a)
  <2>1. TxnType'
    BY <1>9, ClearCasesType DEF RemoveHoldWrite, TypeOK, TxnType, Counts
  <2>2. CustType'
    BY <1>9 DEF RemoveHoldWrite, TypeOK, CustType
  <2> QED
    BY <1>1, <1>9, <2>1, <2>2, SameType, FinishOps DEF RemoveHoldWrite, TypeOK
<1>10. CASE FraudTeamWrite(a)
  <2>1. TxnType'
    BY <1>10, Plus1Type DEF FraudTeamWrite, TypeOK, TxnType
  <2>2. CustType'
    BY <1>10 DEF FraudTeamWrite, TypeOK, CustType
  <2> QED
    BY <1>1, <1>10, <2>1, <2>2, SameType, FinishOps DEF FraudTeamWrite, TypeOK
<1> QED
  BY <1>2, <1>3, <1>4, <1>5, <1>6, <1>7, <1>8, <1>9, <1>10 DEF AgentStep

LEMMA TypeSeed ==
  ASSUME TypeOK, Reseed \/ ReseedCases
  PROVE  TypeOK'
<1>1. CASE Reseed
  <2>1. InitStatus \subseteq Statuses
    BY InitStatusAssumption DEF Statuses
  <2>2. status' \in [Txns -> Statuses]
    BY <1>1, <2>1 DEF Reseed
  <2>3. TxnType'
    BY <1>1, <2>2 DEF Reseed, TypeOK, TxnType
  <2>4. account' \in [Customers -> {"active", "locked", "frozen"}]
    BY <1>1 DEF Reseed
  <2>5. CustType'
    BY <1>1, <2>4 DEF Reseed, TypeOK, CustType
  <2>6. SeedType'
    BY <1>1 DEF Reseed, TypeOK, SeedType, Somebody
  <2> QED
    BY <1>1, <2>3, <2>5, <2>6, SameType DEF Reseed, TypeOK
<1>2. ASSUME NEW t \in Txns, ReopenCase(t)
      PROVE  frauds' \in Counts /\ cleared' \in Counts
  <2>1. <<t, Owner[t]>> \in Txns \X Customers
    BY OwnerAssumption
  <2>2. frauds \in Counts /\ cleared \in Counts
    BY DEF TypeOK, TxnType, Counts
  <2>3. cleared[<<t, Owner[t]>>] - 1 \in Nat
    BY <1>2, <2>1, <2>2 DEF ReopenCase, Counts
  <2> QED
    BY <1>2, <2>2, <2>3, Plus1Type, ExceptType DEF ReopenCase, Counts
<1>3. CASE ReseedCases
  <2>1. TxnType'
    BY <1>2, <1>3 DEF ReseedCases, TypeOK, TxnType, Counts
  <2>2. SeedType'
    BY <1>3 DEF ReseedCases, TypeOK, SeedType
  <2> QED
    BY <1>3, <2>1, <2>2, SameType DEF ReseedCases, TypeOK
<1> QED
  BY <1>1, <1>3

LEMMA TypeStep == TypeOK /\ [Next]_vars => TypeOK'
<1> SUFFICES ASSUME TypeOK, [Next]_vars PROVE TypeOK'
  OBVIOUS
<1>1. CASE \E c \in Calls : CallStep(c)
  BY <1>1, TypeCall
<1>2. CASE \E p \in Tasks : VoiceStep(p)
  BY <1>2, TypeVoice
<1>3. CASE \E a \in Agents : AgentStep(a)
  BY <1>3, TypeAgent
<1>4. CASE \E p \in Procs : Abort(p)
  BY <1>4, FinishOps, SameType DEF Abort, TypeOK
<1>5. CASE UNCHANGED vars
  BY <1>5, SameType DEF TypeOK, vars
<1> QED
  BY <1>1, <1>2, <1>3, <1>4, <1>5, TypeSeed DEF Next

(* Every variable keeps its type. *)
THEOREM TypeCorrect == Spec => []TypeOK
<1>1. Init => TypeOK
  BY TypeInit
<1>2. TypeOK /\ [Next]_vars => TypeOK'
  BY TypeStep
<1> QED
  BY <1>1, <1>2, PTL DEF Spec

-----------------------------------------------------------------------------
(* InFlight: what holds between the read and the write of a tool. *)

LEMMA ProcTyped ==
  ASSUME TypeOK, NEW p \in Tasks
  PROVE  /\ p \in Procs /\ p \notin Agents
         /\ CallOf[p] \in Calls
         /\ op[p] \in Ops
BY CallOfAssumption, DisjointAssumption DEF Procs, TypeOK

LEMMA FlightFinish ==
  ASSUME TypeOK, InFlight, NEW q \in Procs, Finish(q),
         UNCHANGED <<customer, codeAccepted, sessionVerified>>,
         \A c \in Calls : otpVerified'[c] => otpVerified[c]
  PROVE  InFlight'
<1>1. op'[q] = Idle /\ \A p \in Procs : p # q => op'[p] = op[p]
  BY DEF Finish, TypeOK
<1>2. ASSUME NEW p \in Tasks PROVE TaskInFlight(p)'
  <2>1. CASE p = q
    BY <1>1, <2>1 DEF TaskInFlight, Idle, VoiceTools, CaseTools
  <2>2. CASE p # q
    BY <1>1, <2>2, ProcTyped DEF InFlight, TaskInFlight
  <2> QED
    BY <2>1, <2>2
<1>3. ASSUME NEW a \in Agents PROVE AgentInFlight(a)'
  BY <1>1 DEF InFlight, AgentInFlight, Idle, AgentTools, CustomerTools, Procs
<1> QED
  BY <1>2, <1>3 DEF InFlight

LEMMA FlightBeginTask ==
  ASSUME TypeOK, InFlight, UNCHANGED sessVars, NEW q \in Tasks,
         NEW tool \in VoiceTools, NEW step \in {"check", "write"}, NEW k, NEW t, NEW saw,
         Begin(q, tool, step, k, t, saw),
         codeAccepted[CallOf[q]], customer[CallOf[q]] \in Customers,
         tool # "unlock" => t \in Txns /\ Owner[t] = customer[CallOf[q]]
  PROVE  InFlight'
<1>1. /\ op'[q].tool = tool /\ op'[q].step = step /\ op'[q].txn = t
      /\ op'[q].sure => sessionVerified[CallOf[q]]
      /\ \A p \in Procs : p # q => op'[p] = op[p]
  BY ProcTyped DEF Begin, Idle, TypeOK
<1>2. ASSUME NEW p \in Tasks PROVE TaskInFlight(p)'
  <2>1. CASE p = q
    BY <1>1, <2>1 DEF TaskInFlight, VoiceTools, CaseTools, sessVars
  <2>2. CASE p # q
    BY <1>1, <2>2, ProcTyped DEF InFlight, TaskInFlight, sessVars
  <2> QED
    BY <2>1, <2>2
<1>3. ASSUME NEW a \in Agents PROVE AgentInFlight(a)'
  BY <1>1, ProcTyped DEF InFlight, AgentInFlight, Procs
<1> QED
  BY <1>2, <1>3 DEF InFlight, sessVars

(* A check that passes leaves everything but the step of the tool. *)
LEMMA FlightAdvance ==
  ASSUME TypeOK, InFlight, UNCHANGED sessVars, NEW q \in Tasks, Advance(q, "write")
  PROVE  InFlight'
<1>1. /\ op'[q] = [op[q] EXCEPT !.step = "write"]
      /\ \A p \in Procs : p # q => op'[p] = op[p]
  BY ProcTyped DEF Advance, TypeOK
<1>2. ASSUME NEW p \in Tasks PROVE TaskInFlight(p)'
  <2>1. CASE p = q
    <3>1. /\ op'[q].step = "write" /\ op'[q].tool = op[q].tool
          /\ op'[q].txn = op[q].txn /\ op'[q].sure = op[q].sure
      BY <1>1, ProcTyped DEF Ops
    <3> QED
      BY <2>1, <3>1 DEF InFlight, TaskInFlight, sessVars
  <2>2. CASE p # q
    BY <1>1, <2>2, ProcTyped DEF InFlight, TaskInFlight, sessVars
  <2> QED
    BY <2>1, <2>2
<1>3. ASSUME NEW a \in Agents PROVE AgentInFlight(a)'
  BY <1>1, ProcTyped DEF InFlight, AgentInFlight, Procs
<1> QED
  BY <1>2, <1>3 DEF InFlight, sessVars

(* A report names the customer the call has now, in its case or its flag. *)
LEMMA FlightNames ==
  ASSUME TypeOK, InFlight, NEW q \in Tasks, FraudCase(q) \/ FraudFlag(q)
  PROVE  InFlight'
<1> DEFINE c == CallOf[q]
<1>1. /\ \A p \in Procs : p # q => op'[p] = op[p]
      /\ UNCHANGED sessVars
  BY ProcTyped DEF FraudCase, FraudFlag, TypeOK
<1>2. /\ op'[q].tool = "fraud" /\ op[q].tool = "fraud"
      /\ op'[q].txn = op[q].txn /\ op'[q].sure = op[q].sure
      /\ \/ op'[q].step = "flag" /\ op'[q].filedOn = customer[c]
         \/ op'[q].step = "hold" /\ op'[q].flagOn = customer[c]
              /\ op[q].step = "flag" /\ op'[q].filedOn = op[q].filedOn
  <2>1. CASE FraudCase(q)
    <3>1. op'[q] = Filed(op[q], customer[c])
      BY <2>1, ProcTyped DEF FraudCase, TypeOK, Filed
    <3>2. op[q] \in Ops
      BY ProcTyped
    <3>3. /\ op'[q].step = "flag" /\ op'[q].filedOn = customer[c]
          /\ op'[q].tool = op[q].tool /\ op'[q].txn = op[q].txn
          /\ op'[q].sure = op[q].sure
      BY <3>1, <3>2, FiledFields
    <3>4. op[q].tool = "fraud"
      BY <2>1 DEF FraudCase, InStep
    <3> QED
      BY <3>3, <3>4
  <2>2. CASE FraudFlag(q)
    <3>1. op'[q] = Flagged(op[q], customer[c])
      BY <2>2, ProcTyped DEF FraudFlag, TypeOK, Flagged
    <3>2. op[q] \in Ops
      BY ProcTyped
    <3>3. /\ op'[q].step = "hold" /\ op'[q].flagOn = customer[c]
          /\ op'[q].tool = op[q].tool /\ op'[q].txn = op[q].txn
          /\ op'[q].sure = op[q].sure /\ op'[q].filedOn = op[q].filedOn
      BY <3>1, <3>2, FlaggedFields
    <3>4. op[q].tool = "fraud" /\ op[q].step = "flag"
      BY <2>2 DEF FraudFlag, InStep
    <3> QED
      BY <3>3, <3>4
  <2> QED
    BY <2>1, <2>2
<1>3. ASSUME NEW p \in Tasks PROVE TaskInFlight(p)'
  <2>1. CASE p = q
    BY <1>1, <1>2, <2>1 DEF InFlight, TaskInFlight, VoiceTools, CaseTools, sessVars
  <2>2. CASE p # q
    BY <1>1, <2>2, ProcTyped DEF InFlight, TaskInFlight, sessVars
  <2> QED
    BY <2>1, <2>2
<1>4. ASSUME NEW a \in Agents PROVE AgentInFlight(a)'
  BY <1>1, ProcTyped DEF InFlight, AgentInFlight, Procs
<1> QED
  BY <1>1, <1>3, <1>4 DEF InFlight, sessVars

LEMMA FlightBeginAgent ==
  ASSUME TypeOK, InFlight, UNCHANGED sessVars, NEW b \in Agents,
         NEW tool \in AgentTools, NEW step, NEW k, NEW t, NEW saw,
         Begin(b, tool, step, k, t, saw),
         tool \in {"issue_refund", "reopen_dispute"} => t \in Txns,
         tool \in CustomerTools => k \in Customers,
         tool = "fraud_team" => t = NoTxn \/ (t \in Txns /\ Owner[t] = k)
  PROVE  InFlight'
<1>1. /\ op'[b].tool = tool /\ op'[b].txn = t /\ op'[b].cust = k
      /\ \A p \in Procs : p # b => op'[p] = op[p]
  BY DEF Begin, Idle, TypeOK, Procs
<1>2. ASSUME NEW p \in Tasks PROVE TaskInFlight(p)'
  BY <1>1, ProcTyped DEF InFlight, TaskInFlight, sessVars
<1>3. ASSUME NEW a \in Agents PROVE AgentInFlight(a)'
  <2>1. CASE a = b
    BY <1>1, <2>1 DEF AgentInFlight
  <2>2. CASE a # b
    BY <1>1, <2>2 DEF InFlight, AgentInFlight, Procs
  <2> QED
    BY <2>1, <2>2
<1> QED
  BY <1>2, <1>3 DEF InFlight, sessVars

LEMMA FlightInit == Init => InFlight
<1> SUFFICES ASSUME Init PROVE InFlight
  OBVIOUS
<1>1. \A p \in Procs : op[p] = Idle
  BY DEF Init
<1>2. ASSUME NEW p \in Tasks PROVE TaskInFlight(p)
  BY <1>1 DEF TaskInFlight, Idle, Procs, VoiceTools, CaseTools
<1>3. ASSUME NEW a \in Agents PROVE AgentInFlight(a)
  BY <1>1 DEF AgentInFlight, Idle, Procs, AgentTools, CustomerTools
<1> QED
  BY <1>2, <1>3 DEF Init, InFlight

(* Only the tools of a call look at its session: a step of the call keeps  *)
(* what they rely on, the customer of a verified session above all.        *)
LEMMA FlightCall ==
  ASSUME TypeOK, InFlight, NEW c \in Calls, CallStep(c)
  PROVE  InFlight'
<1>1. UNCHANGED op
  BY DEF CallStep, VerifyAccount, SendOtp, AcceptCode, MarkVerified, EndCall, rest
<1>2. \A d \in Calls : otpVerified'[d] \/ sessionVerified'[d] => codeAccepted'[d]
  BY DEF CallStep, VerifyAccount, SendOtp, AcceptCode, MarkVerified, EndCall,
         InFlight, TypeOK, SessType
<1>3. ASSUME NEW p \in Tasks, CallOf[p] # c
      PROVE  TaskInFlight(p)'
  <2>1. /\ customer'[CallOf[p]] = customer[CallOf[p]]
        /\ codeAccepted'[CallOf[p]] = codeAccepted[CallOf[p]]
        /\ sessionVerified'[CallOf[p]] = sessionVerified[CallOf[p]]
    BY <1>3, ProcTyped
    DEF CallStep, VerifyAccount, SendOtp, AcceptCode, MarkVerified, EndCall,
        TypeOK, SessType
  <2> QED
    BY <1>1, <2>1 DEF InFlight, TaskInFlight
<1>4. ASSUME NEW p \in Tasks, CallOf[p] = c
      PROVE  TaskInFlight(p)'
  <2>1. TaskInFlight(p)
    BY DEF InFlight
  <2>2. ASSUME NEW k \in Customers, VerifyAccount(c, k)
        PROVE  TaskInFlight(p)'
    <3>1. /\ customer'[c] = k /\ UNCHANGED <<codeAccepted, sessionVerified>>
          /\ ~sessionVerified[c] \/ customer[c] = NoCustomer
      BY <2>2 DEF VerifyAccount, TypeOK, SessType
    <3>2. CASE op[p].tool = "none"
      BY <1>1, <2>1, <3>2, ProcTyped DEF TaskInFlight, VoiceTools, CaseTools
    <3>3. CASE op[p].tool \in VoiceTools
      <4>1. ~op[p].sure
        BY <1>4, <2>1, <3>1, <3>3, NoneAssumption DEF TaskInFlight
      <4> QED
        BY <1>1, <1>4, <2>1, <3>1, <4>1 DEF TaskInFlight
    <3> QED
      BY <2>1, <3>2, <3>3 DEF TaskInFlight
  <2>3. CASE SendOtp(c) \/ AcceptCode(c) \/ MarkVerified(c)
    <3>1. /\ UNCHANGED customer
          /\ codeAccepted[c] => codeAccepted'[c]
          /\ sessionVerified[c] => sessionVerified'[c]
      BY <2>3 DEF SendOtp, AcceptCode, MarkVerified, TypeOK, SessType
    <3> QED
      BY <1>1, <1>4, <2>1, <3>1 DEF TaskInFlight
  <2>4. CASE EndCall(c)
    BY <1>1, <1>4, <2>4 DEF EndCall, TaskInFlight, Idle, VoiceTools, CaseTools
  <2> QED
    BY <2>2, <2>3, <2>4 DEF CallStep
<1>5. ASSUME NEW a \in Agents PROVE AgentInFlight(a)'
  BY <1>1 DEF InFlight, AgentInFlight
<1> QED
  BY <1>2, <1>3, <1>4, <1>5 DEF InFlight

LEMMA FlightVoice ==
  ASSUME TypeOK, InFlight, NEW p \in Tasks, VoiceStep(p)
  PROVE  InFlight'
<1>1. p \in Procs /\ CallOf[p] \in Calls
  BY ProcTyped
<1>2. Authorised(CallOf[p]) =>
        codeAccepted[CallOf[p]] /\ customer[CallOf[p]] \in Customers
  BY <1>1 DEF Authorised, InFlight, TypeOK, SessType, Somebody
<1>3. ASSUME NEW t \in Txns,
             RefundRead(p, t) \/ DisputeRead(p, t) \/ FraudRead(p, t)
      PROVE  InFlight'
  BY <1>2, <1>3, FlightBeginTask
  DEF RefundRead, DisputeRead, FraudRead, VoiceTools
<1>4. CASE UnlockRead(p)
  BY <1>2, <1>4, FlightBeginTask DEF UnlockRead, VoiceTools
<1>5. CASE RefundCheck(p) \/ FraudCheck(p)
  BY <1>5, FlightAdvance DEF RefundCheck, FraudCheck
<1>6. CASE FraudCase(p) \/ FraudFlag(p)
  BY <1>6, FlightNames
<1>7. CASE RefundCommit(p)
  <2>1. \A c \in Calls : otpVerified'[c] => otpVerified[c]
    BY <1>7 DEF RefundCommit, TypeOK, SessType
  <2> QED
    BY <1>1, <1>7, <2>1, FlightFinish DEF RefundCommit
<1>8. CASE RefundUnacked(p) \/ DisputeWrite(p) \/ FraudCommit(p) \/ UnlockWrite(p)
  BY <1>1, <1>8, FlightFinish
  DEF RefundUnacked, DisputeWrite, FraudCommit, UnlockWrite, sessVars
<1> QED
  BY <1>3, <1>4, <1>5, <1>6, <1>7, <1>8 DEF VoiceStep

LEMMA FlightAgent ==
  ASSUME TypeOK, InFlight, NEW a \in Agents, AgentStep(a)
  PROVE  InFlight'
<1>1. ASSUME NEW t \in Txns, IssueRefundRead(a, t) \/ ReopenDisputeRead(a, t)
      PROVE  InFlight'
  BY <1>1, FlightBeginAgent
  DEF IssueRefundRead, ReopenDisputeRead, AgentTools, CustomerTools
<1>2. ASSUME NEW k \in Customers,
             AgentUnlockRead(a, k) \/ FreezeRead(a, k) \/ RemoveHoldRead(a, k)
      PROVE  InFlight'
  BY <1>2, FlightBeginAgent
  DEF AgentUnlockRead, FreezeRead, RemoveHoldRead, AgentTools
<1>3. ASSUME NEW k \in Customers, NEW t \in Txns \cup {NoTxn},
             FraudTeamRead(a, k, t)
      PROVE  InFlight'
  BY <1>3, FlightBeginAgent DEF FraudTeamRead, AgentTools
<1>4. CASE \/ IssueRefundWrite(a) \/ ReopenDisputeWrite(a)
           \/ AgentUnlockWrite(a) \/ FreezeWrite(a)
           \/ RemoveHoldWrite(a) \/ FraudTeamWrite(a)
  BY <1>4, FlightFinish
  DEF IssueRefundWrite, ReopenDisputeWrite, AgentUnlockWrite, FreezeWrite,
      RemoveHoldWrite, FraudTeamWrite, sessVars, Procs
<1> QED
  BY <1>1, <1>2, <1>3, <1>4 DEF AgentStep

LEMMA FlightStep == TypeOK /\ InFlight /\ [Next]_vars => InFlight'
<1> SUFFICES ASSUME TypeOK, InFlight, [Next]_vars PROVE InFlight'
  OBVIOUS
<1>1. CASE \E p \in Procs : Abort(p)
  BY <1>1, FlightFinish DEF Abort, sessVars
<1>2. CASE Reseed \/ ReseedCases \/ UNCHANGED vars
  <2>1. UNCHANGED <<sessVars, op>>
    BY <1>2 DEF Reseed, ReseedCases, vars
  <2> QED
    BY <2>1 DEF sessVars, InFlight, TaskInFlight, AgentInFlight
<1> QED
  BY <1>1, <1>2, FlightCall, FlightVoice, FlightAgent DEF Next

LEMMA SeedStep == SeedInFlight /\ TypeOK /\ InFlight /\ [Next]_vars => SeedInFlight'
<1> SUFFICES ASSUME SeedInFlight, TypeOK, InFlight, [Next]_vars PROVE SeedInFlight'
  OBVIOUS
<1>1. CASE \E p \in Tasks : FraudCommit(p)
  <2>1. PICK p \in Tasks : FraudCommit(p)
    BY <1>1
  <2>2. Named(p) \subseteq Customers
    BY <2>1 DEF InFlight, TaskInFlight, Named, FraudCommit, InStep, VoiceTools
  <2> QED
    BY <2>1, <2>2 DEF FraudCommit, SeedInFlight, seedVars
<1>2. CASE Reseed \/ ReseedCases
  BY <1>2 DEF Reseed, ReseedCases, SeedInFlight
<1>3. CASE ~((\E p \in Tasks : FraudCommit(p)) \/ Reseed \/ ReseedCases)
  <2>1. ASSUME NEW c \in Calls, CallStep(c) PROVE UNCHANGED <<seedVars, torn>>
    BY <2>1
    DEF CallStep, VerifyAccount, SendOtp, AcceptCode, MarkVerified, EndCall, rest
  <2>2. ASSUME NEW p \in Tasks, VoiceStep(p) PROVE UNCHANGED <<seedVars, torn>>
    BY <1>3, <2>2
    DEF VoiceStep, RefundRead, RefundCheck, RefundCommit, RefundUnacked,
        DisputeRead, DisputeWrite, FraudRead, FraudCheck, FraudCase, FraudFlag,
        UnlockRead, UnlockWrite
  <2>3. ASSUME NEW a \in Agents, AgentStep(a) PROVE UNCHANGED <<seedVars, torn>>
    BY <2>3
    DEF AgentStep, IssueRefundRead, IssueRefundWrite, ReopenDisputeRead,
        ReopenDisputeWrite, AgentUnlockRead, AgentUnlockWrite, FreezeRead,
        FreezeWrite, RemoveHoldRead, RemoveHoldWrite, FraudTeamRead,
        FraudTeamWrite
  <2>4. ASSUME NEW p \in Procs, Abort(p) PROVE UNCHANGED <<seedVars, torn>>
    BY <2>4 DEF Abort
  <2>5. UNCHANGED <<seedVars, torn>>
    BY <1>3, <2>1, <2>2, <2>3, <2>4 DEF Next, vars
  <2> QED
    BY <2>5 DEF SeedInFlight, seedVars
<1> QED
  BY <1>1, <1>2, <1>3

-----------------------------------------------------------------------------
(* The rows: the tables agree with each other. *)

Rows == OneActiveRefund /\ StatusBacked /\ FraudHoldCoherent /\ FrozenHasHold

LEMMA CountsTyped ==
  ASSUME TypeOK
  PROVE  /\ frauds \in Counts /\ cleared \in Counts
         /\ \A t \in Txns, k \in Customers :
              frauds[<<t, k>>] \in Nat /\ cleared[<<t, k>>] \in Nat
         /\ \A k \in Customers : fraudHolds[k] \in Nat
BY DEF TypeOK, TxnType, CustType, Counts

LEMMA RowsInit == Init => Rows
<1> SUFFICES ASSUME Init PROVE Rows
  OBVIOUS
<1>1. OneActiveRefund
  BY DEF Init, OneActiveRefund
<1>2. StatusBacked
  BY InitStatusAssumption DEF Init, StatusBacked
<1>3. FraudHoldCoherent
  <2>1. ASSUME NEW k \in Customers
        PROVE  /\ fraudFlag[k] <=> \E t \in Txns : frauds[<<t, k>>] = 1
               /\ fraudHolds[k] = IF fraudFlag[k] THEN 1 ELSE 0
    BY DEF Init
  <2> QED
    BY <2>1 DEF FraudHoldCoherent
<1>4. FrozenHasHold
  BY DEF Init, FrozenHasHold
<1> QED
  BY <1>1, <1>2, <1>3, <1>4 DEF Rows

LEMMA RowsSame == Rows /\ UNCHANGED <<txnVars, custVars, torn>> => Rows'
BY DEF Rows, OneActiveRefund, StatusBacked, FraudHoldCoherent, FrozenHasHold,
   txnVars, custVars

LEMMA RowsRefund ==
  ASSUME TypeOK, Rows, NEW t \in Txns, InsertRefund(t), UNCHANGED <<custVars, torn>>
  PROVE  Rows'
<1>1. /\ refunds'[t] = 1 /\ status'[t] = "refund_initiated"
      /\ \A u \in Txns : u # t =>
           refunds'[u] = refunds[u] /\ status'[u] = status[u]
  BY DEF InsertRefund, Plus1, TypeOK, TxnType
<1>2. UNCHANGED <<disputes, frauds, cleared>>
  BY DEF InsertRefund
<1>3. OneActiveRefund'
  BY <1>1 DEF Rows, OneActiveRefund
<1>4. StatusBacked'
  BY <1>1, <1>2 DEF Rows, StatusBacked
<1> QED
  BY <1>2, <1>3, <1>4 DEF Rows, FraudHoldCoherent, FrozenHasHold, custVars

LEMMA RowsDispute ==
  ASSUME TypeOK, Rows, NEW t \in Txns, InsertDispute(t), UNCHANGED <<custVars, torn>>
  PROVE  Rows'
<1>1. /\ disputes'[t] >= 1 /\ status'[t] = "disputed"
      /\ \A u \in Txns : u # t =>
           disputes'[u] = disputes[u] /\ status'[u] = status[u]
  BY DEF InsertDispute, Plus1, TypeOK, TxnType
<1>2. UNCHANGED <<refunds, frauds, cleared>>
  BY DEF InsertDispute
<1>3. StatusBacked'
  BY <1>1, <1>2 DEF Rows, StatusBacked
<1> QED
  BY <1>2, <1>3
  DEF Rows, OneActiveRefund, FraudHoldCoherent, FrozenHasHold, custVars

(* No step but those of the seed script takes a case away, and that one    *)
(* only opens it again.                                                    *)
LEMMA BackedByCases ==
  ASSUME TypeOK, TypeOK', StatusBacked, UNCHANGED <<status, refunds, disputes>>,
         \A t \in Txns, k \in Customers :
           frauds'[<<t, k>>] + cleared'[<<t, k>>] >= frauds[<<t, k>>] + cleared[<<t, k>>]
  PROVE  StatusBacked'
<1>1. ASSUME NEW t \in Txns, status'[t] = "fraud_reported"
      PROVE  \E k \in Customers : frauds'[<<t, k>>] + cleared'[<<t, k>>] >= 1
  <2>1. PICK k \in Customers : frauds[<<t, k>>] + cleared[<<t, k>>] >= 1
    BY <1>1 DEF StatusBacked
  <2>2. /\ frauds[<<t, k>>] \in Nat /\ cleared[<<t, k>>] \in Nat
        /\ frauds'[<<t, k>>] \in Nat /\ cleared'[<<t, k>>] \in Nat
    BY CountsTyped, TypeOK' DEF TypeOK, TxnType
  <2> QED
    BY <2>1, <2>2
<1> QED
  BY <1>1 DEF StatusBacked

LEMMA ClearedCases ==
  ASSUME TypeOK, NEW k \in Customers, ClearCases(k)
  PROVE  \A t \in Txns, j \in Customers :
           /\ frauds'[<<t, j>>] + cleared'[<<t, j>>] = frauds[<<t, j>>] + cleared[<<t, j>>]
           /\ j # k => frauds'[<<t, j>>] = frauds[<<t, j>>]
<1> SUFFICES ASSUME NEW t \in Txns, NEW j \in Customers
             PROVE  /\ frauds'[<<t, j>>] + cleared'[<<t, j>>]
                         = frauds[<<t, j>>] + cleared[<<t, j>>]
                    /\ j # k => frauds'[<<t, j>>] = frauds[<<t, j>>]
  OBVIOUS
<1>1. /\ cleared'[<<t, j>>] =
           IF j = k THEN cleared[<<t, j>>] + frauds[<<t, j>>] ELSE cleared[<<t, j>>]
      /\ frauds'[<<t, j>>] = IF j = k THEN 0 ELSE frauds[<<t, j>>]
  BY DEF ClearCases
<1>2. frauds[<<t, j>>] \in Nat /\ cleared[<<t, j>>] \in Nat
  BY CountsTyped
<1> QED
  BY <1>1, <1>2

LEMMA ReopenedCase ==
  ASSUME TypeOK, NEW t \in Txns, ReopenCase(t)
  PROVE  /\ \A u \in Txns, j \in Customers :
              frauds'[<<u, j>>] + cleared'[<<u, j>>] = frauds[<<u, j>>] + cleared[<<u, j>>]
         /\ \A u \in Txns, j \in Customers :
              frauds'[<<u, j>>] \in Nat /\ cleared'[<<u, j>>] \in Nat
<1> DEFINE k == Owner[t]
<1>1. k \in Customers
  BY OwnerAssumption
<1>2. frauds' = Plus1(frauds, <<t, k>>) /\ cleared[<<t, k>>] > 0
  BY DEF ReopenCase
<1> SUFFICES ASSUME NEW u \in Txns, NEW j \in Customers
             PROVE  /\ frauds'[<<u, j>>] + cleared'[<<u, j>>]
                         = frauds[<<u, j>>] + cleared[<<u, j>>]
                    /\ frauds'[<<u, j>>] \in Nat /\ cleared'[<<u, j>>] \in Nat
  OBVIOUS
<1>3. frauds[<<u, j>>] \in Nat /\ cleared[<<u, j>>] \in Nat /\ cleared[<<t, k>>] \in Nat
  BY <1>1, CountsTyped
<1>4. CASE u = t /\ j = k
  <2>1. cleared'[<<t, k>>] = cleared[<<t, k>>] - 1
    BY <1>1 DEF ReopenCase, TypeOK, TxnType
  <2>2. frauds'[<<t, k>>] = frauds[<<t, k>>] + 1
    BY <1>1, <1>2, CountsPlus1, CountsTyped
  <2> QED
    BY <1>2, <1>3, <1>4, <2>1, <2>2
<1>5. CASE u # t \/ j # k
  <2>1. <<u, j>> # <<t, k>> /\ <<u, j>> \in Txns \X Customers
    BY <1>5
  <2>2. cleared'[<<u, j>>] = cleared[<<u, j>>]
    BY <2>1 DEF ReopenCase, TypeOK, TxnType
  <2>3. frauds'[<<u, j>>] = frauds[<<u, j>>]
    BY <1>1, <1>2, <1>5, CountsPlus1, CountsTyped
  <2> QED
    BY <1>3, <2>2, <2>3
<1> QED
  BY <1>4, <1>5

(* The rows of a report.  Whom it names twice or not at all keeps a flag   *)
(* and holds that agree; whom it names for a part only is torn.            *)
LEMMA RowsFraud ==
  ASSUME TypeOK, TypeOK', InFlight, Rows, NEW p \in Tasks, FraudCommit(p)
  PROVE  Rows'
<1> DEFINE k == customer[CallOf[p]]
           f == op[p].filedOn
           g == op[p].flagOn
           t == op[p].txn
<1>1. t \in Txns /\ k \in Customers /\ f \in Customers /\ g \in Customers
  BY DEF FraudCommit, InFlight, TaskInFlight, InStep, VoiceTools, CaseTools
<1>2. /\ frauds' = Plus1(frauds, <<t, f>>)
      /\ UNCHANGED <<refunds, disputes, cleared, account, manualHolds>>
  BY DEF FraudCommit
<1>3. /\ status'[t] = "fraud_reported"
      /\ \A u \in Txns : u # t => status'[u] = status[u]
  BY <1>1 DEF FraudCommit, TypeOK, TxnType
<1>4. /\ fraudFlag'[g] = TRUE
      /\ \A j \in Customers : j # g => fraudFlag'[j] = fraudFlag[j]
      /\ fraudHolds'[k] = fraudHolds[k] + 1
      /\ \A j \in Customers : j # k => fraudHolds'[j] = fraudHolds[j]
  BY <1>1 DEF FraudCommit, Plus1, TypeOK, CustType
<1>5. torn' = IF {f, g, k} = {k} THEN torn ELSE torn \cup {f, g, k}
  BY DEF FraudCommit, Named
<1>6. /\ frauds'[<<t, f>>] = frauds[<<t, f>>] + 1
      /\ \A u \in Txns, j \in Customers :
           /\ frauds[<<u, j>>] \in Nat /\ cleared[<<u, j>>] \in Nat
           /\ frauds'[<<u, j>>] \in Nat
           /\ frauds'[<<u, j>>] >= frauds[<<u, j>>]
  <2>1. frauds'[<<t, f>>] = frauds[<<t, f>>] + 1
    BY <1>1, <1>2, CountsPlus1, CountsTyped
  <2>2. ASSUME NEW u \in Txns, NEW j \in Customers
        PROVE  /\ frauds[<<u, j>>] \in Nat /\ cleared[<<u, j>>] \in Nat
               /\ frauds'[<<u, j>>] \in Nat
               /\ frauds'[<<u, j>>] >= frauds[<<u, j>>]
    <3>1. frauds \in Counts /\ cleared[<<u, j>>] \in Nat
      BY CountsTyped
    <3> HIDE DEF f, t
    <3> QED
      BY <1>1, <1>2, <3>1, CountsGrow
  <2> QED
    BY <2>1, <2>2
<1> HIDE DEF k, f, g, t
<1>7. StatusBacked'
  <2>1. ASSUME NEW u \in Txns, status'[u] = "fraud_reported"
        PROVE  \E j \in Customers : frauds'[<<u, j>>] + cleared'[<<u, j>>] >= 1
    <3>1. CASE u = t
      BY <1>1, <1>2, <1>6, <3>1
    <3>2. CASE u # t
      <4>1. PICK j \in Customers : frauds[<<u, j>>] + cleared[<<u, j>>] >= 1
        BY <1>3, <2>1, <3>2 DEF Rows, StatusBacked
      <4> QED
        BY <1>2, <1>6, <4>1
    <3> QED
      BY <3>1, <3>2
  <2> QED
    BY <1>2, <1>3, <2>1 DEF Rows, StatusBacked
<1>8. FraudHoldCoherent'
  <2> SUFFICES ASSUME NEW j \in Customers, j \notin torn'
               PROVE  /\ fraudFlag'[j] <=> fraudHolds'[j] > 0
                      /\ fraudFlag'[j] => \E u \in Txns : frauds'[<<u, j>>] > 0
    BY DEF FraudHoldCoherent
  <2>1. CASE j \in {f, g, k}
    <3>1. j = f /\ j = g /\ j = k
      BY <1>5, <2>1
    <3> QED
      BY <1>1, <1>4, <1>6, <3>1, CountsTyped
  <2>2. CASE j \notin {f, g, k}
    <3>1. j \notin torn
      BY <1>5
    <3>2. /\ fraudFlag[j] <=> fraudHolds[j] > 0
          /\ fraudFlag[j] => \E u \in Txns : frauds[<<u, j>>] > 0
      BY <3>1 DEF Rows, FraudHoldCoherent
    <3>3. \A u \in Txns : frauds[<<u, j>>] > 0 => frauds'[<<u, j>>] > 0
      BY <1>6
    <3> QED
      BY <1>4, <2>2, <3>2, <3>3
  <2> QED
    BY <2>1, <2>2
<1> QED
  BY <1>2, <1>7, <1>8 DEF Rows, OneActiveRefund, FrozenHasHold

LEMMA RowsVoice ==
  ASSUME TypeOK, TypeOK', InFlight, Rows, NEW p \in Tasks, VoiceStep(p)
  PROVE  Rows'
<1>1. ASSUME InStep(p, "refund", "write") \/ InStep(p, "dispute", "write")
      PROVE  op[p].txn \in Txns
  BY <1>1 DEF InFlight, TaskInFlight, InStep, CaseTools
<1>2. CASE RefundCommit(p) \/ RefundUnacked(p)
  BY <1>1, <1>2, RowsRefund DEF RefundCommit, RefundUnacked, custVars
<1>3. CASE DisputeWrite(p)
  BY <1>1, <1>3, RowsDispute DEF DisputeWrite, custVars
<1>4. CASE FraudCommit(p)
  BY <1>4, RowsFraud
<1>5. CASE UnlockWrite(p)
  BY <1>5
  DEF UnlockWrite, Rows, OneActiveRefund, StatusBacked, FraudHoldCoherent,
      FrozenHasHold, txnVars, TypeOK, CustType
<1>6. CASE ~(RefundCommit(p) \/ RefundUnacked(p) \/ DisputeWrite(p)
             \/ FraudCommit(p) \/ UnlockWrite(p))
  BY <1>6, RowsSame
  DEF VoiceStep, RefundRead, RefundCheck, DisputeRead, FraudRead, FraudCheck,
      FraudCase, FraudFlag, UnlockRead
<1> QED
  BY <1>2, <1>3, <1>4, <1>5, <1>6

LEMMA RowsAgent ==
  ASSUME TypeOK, TypeOK', InFlight, Rows, NEW a \in Agents, AgentStep(a)
  PROVE  Rows'
<1>1. CASE IssueRefundWrite(a)
  BY <1>1, RowsRefund
  DEF IssueRefundWrite, InFlight, AgentInFlight, InStep, custVars
<1>2. CASE ReopenDisputeWrite(a)
  BY <1>2, RowsDispute
  DEF ReopenDisputeWrite, InFlight, AgentInFlight, InStep, custVars
<1>3. CASE AgentUnlockWrite(a)
  BY <1>3
  DEF AgentUnlockWrite, Rows, OneActiveRefund, StatusBacked,
      FraudHoldCoherent, FrozenHasHold, txnVars, TypeOK, CustType
<1>4. CASE FreezeWrite(a)
  <2>1. \A k \in Customers : manualHolds'[k] >= manualHolds[k]
                             /\ (account'[k] # account[k] => manualHolds'[k] > 0)
    BY <1>4 DEF FreezeWrite, Plus1, TypeOK, CustType
  <2>2. \A k \in Customers : manualHolds'[k] \in Nat /\ manualHolds[k] \in Nat
    BY <1>4 DEF FreezeWrite, Plus1, TypeOK, CustType
  <2>3. FrozenHasHold'
    BY <2>1, <2>2 DEF Rows, FrozenHasHold
  <2> QED
    BY <1>4, <2>3
    DEF FreezeWrite, Rows, OneActiveRefund, StatusBacked, FraudHoldCoherent,
        txnVars
<1>5. CASE RemoveHoldWrite(a)
  <2> DEFINE k == op[a].cust
  <2>1. k \in Customers /\ ClearCases(k)
    BY <1>5
    DEF InFlight, AgentInFlight, RemoveHoldWrite, InStep, CustomerTools
  <2>2. /\ \A j \in Customers : j # k =>
             fraudFlag'[j] = fraudFlag[j] /\ fraudHolds'[j] = fraudHolds[j]
        /\ fraudFlag'[k] = FALSE /\ fraudHolds'[k] = 0
    BY <1>5, <2>1 DEF RemoveHoldWrite, TypeOK, CustType
  <2> HIDE DEF k
  <2>3. \A t \in Txns, j \in Customers :
          /\ frauds'[<<t, j>>] + cleared'[<<t, j>>] = frauds[<<t, j>>] + cleared[<<t, j>>]
          /\ j # k => frauds'[<<t, j>>] = frauds[<<t, j>>]
    BY <2>1, ClearedCases
  <2>4. StatusBacked'
    <3>1. ASSUME NEW t \in Txns, NEW j \in Customers
          PROVE  frauds'[<<t, j>>] + cleared'[<<t, j>>] >= frauds[<<t, j>>] + cleared[<<t, j>>]
      <4>1. frauds[<<t, j>>] \in Nat /\ cleared[<<t, j>>] \in Nat
        BY CountsTyped
      <4>2. frauds'[<<t, j>>] + cleared'[<<t, j>>] = frauds[<<t, j>>] + cleared[<<t, j>>]
        BY <2>3
      <4> QED
        BY <4>1, <4>2
    <3> QED
      BY <1>5, <3>1, BackedByCases DEF RemoveHoldWrite, Rows
  <2>5. FraudHoldCoherent'
    <3>1. torn' = torn
      BY <1>5 DEF RemoveHoldWrite
    <3>2. ASSUME NEW j \in Customers, j \notin torn
          PROVE  /\ fraudFlag'[j] <=> fraudHolds'[j] > 0
                 /\ fraudFlag'[j] => \E t \in Txns : frauds'[<<t, j>>] > 0
      <4>1. CASE j = k
        BY <2>1, <2>2, <4>1
      <4>2. CASE j # k
        <5>1. \A t \in Txns : frauds'[<<t, j>>] = frauds[<<t, j>>]
          BY <2>3, <4>2
        <5> QED
          BY <2>2, <3>2, <4>2, <5>1 DEF Rows, FraudHoldCoherent
      <4> QED
        BY <4>1, <4>2
    <3> QED
      BY <3>1, <3>2 DEF FraudHoldCoherent
  <2> QED
    BY <1>5, <2>4, <2>5
    DEF RemoveHoldWrite, Rows, OneActiveRefund, FrozenHasHold
<1>6. CASE FraudTeamWrite(a)
  <2>1. UNCHANGED <<status, refunds, disputes, cleared, account, fraudFlag,
                    fraudHolds, manualHolds, torn>>
    BY <1>6 DEF FraudTeamWrite
  <2>2. ASSUME NEW t \in Txns, NEW k \in Customers
        PROVE  /\ frauds[<<t, k>>] \in Nat /\ cleared[<<t, k>>] \in Nat
               /\ frauds'[<<t, k>>] \in Nat
               /\ frauds'[<<t, k>>] >= frauds[<<t, k>>]
    <3>1. /\ frauds \in Counts
          /\ frauds[<<t, k>>] \in Nat /\ cleared[<<t, k>>] \in Nat
      BY CountsTyped
    <3>2. CASE frauds' = frauds
      BY <3>1, <3>2
    <3>3. CASE frauds' # frauds
      <4>1. /\ frauds' = Plus1(frauds, <<op[a].txn, op[a].cust>>)
            /\ op[a].txn \in Txns /\ op[a].cust \in Customers
        BY <1>6, <3>3
        DEF FraudTeamWrite, InFlight, AgentInFlight, InStep, CustomerTools
      <4> QED
        BY <3>1, <4>1, CountsGrow
    <3> QED
      BY <3>2, <3>3
  <2>3. StatusBacked'
    <3>1. ASSUME NEW t \in Txns, NEW k \in Customers
          PROVE  frauds'[<<t, k>>] + cleared'[<<t, k>>] >= frauds[<<t, k>>] + cleared[<<t, k>>]
      BY <2>1, <2>2
    <3> QED
      BY <2>1, <3>1, BackedByCases DEF Rows
  <2>4. FraudHoldCoherent'
    <3>1. \A t \in Txns, k \in Customers : frauds[<<t, k>>] > 0 => frauds'[<<t, k>>] > 0
      BY <2>2
    <3> QED
      BY <2>1, <3>1 DEF Rows, FraudHoldCoherent
  <2> QED
    BY <2>1, <2>3, <2>4 DEF Rows, OneActiveRefund, FrozenHasHold
<1>7. CASE ~(\/ IssueRefundWrite(a) \/ ReopenDisputeWrite(a)
             \/ AgentUnlockWrite(a) \/ FreezeWrite(a)
             \/ RemoveHoldWrite(a) \/ FraudTeamWrite(a))
  BY <1>7, RowsSame
  DEF AgentStep, IssueRefundRead, ReopenDisputeRead, AgentUnlockRead,
      FreezeRead, RemoveHoldRead, FraudTeamRead
<1> QED
  BY <1>1, <1>2, <1>3, <1>4, <1>5, <1>6, <1>7

(* A re-run of the seed script: no seeded status names a case, a seeded    *)
(* account is not frozen, and the flags are excused.                       *)
LEMMA RowsSeed ==
  ASSUME TypeOK, TypeOK', SeedInFlight, Rows, Reseed \/ ReseedCases
  PROVE  Rows'
<1>1. CASE Reseed
  <2>1. \A t \in Txns : status'[t] \in InitStatus
    BY <1>1 DEF Reseed
  <2>2. StatusBacked'
    BY <2>1, InitStatusAssumption DEF StatusBacked
  <2>3. FraudHoldCoherent'
    BY <1>1 DEF Reseed, FraudHoldCoherent
  <2>4. \A k \in Customers : account'[k] \in {"active", "locked"}
    BY <1>1 DEF Reseed
  <2>5. FrozenHasHold'
    BY <2>4 DEF FrozenHasHold
  <2> QED
    BY <1>1, <2>2, <2>3, <2>5 DEF Reseed, Rows, OneActiveRefund
<1>2. CASE ReseedCases
  <2>1. \A t \in Txns, k \in Customers :
          frauds'[<<t, k>>] + cleared'[<<t, k>>] = frauds[<<t, k>>] + cleared[<<t, k>>]
    BY <1>2, ReopenedCase DEF ReseedCases
  <2>2. ASSUME NEW t \in Txns, NEW k \in Customers
        PROVE  frauds'[<<t, k>>] + cleared'[<<t, k>>] >= frauds[<<t, k>>] + cleared[<<t, k>>]
    <3>1. frauds[<<t, k>>] \in Nat /\ cleared[<<t, k>>] \in Nat
      BY CountsTyped
    <3>2. frauds'[<<t, k>>] + cleared'[<<t, k>>] = frauds[<<t, k>>] + cleared[<<t, k>>]
      BY <2>1
    <3> QED
      BY <3>1, <3>2
  <2>3. StatusBacked'
    BY <1>2, <2>2, BackedByCases DEF ReseedCases, Rows
  <2>4. FraudHoldCoherent'
    BY <1>2 DEF ReseedCases, SeedInFlight, FraudHoldCoherent
  <2> QED
    BY <1>2, <2>3, <2>4 DEF ReseedCases, custVars, Rows, OneActiveRefund, FrozenHasHold
<1> QED
  BY <1>1, <1>2

LEMMA RowsStep == TypeOK /\ InFlight /\ SeedInFlight /\ Rows /\ [Next]_vars => Rows'
<1> SUFFICES ASSUME TypeOK, InFlight, SeedInFlight, Rows, [Next]_vars PROVE Rows'
  OBVIOUS
<1>1. TypeOK'
  BY TypeStep
<1>2. CASE \E c \in Calls : CallStep(c)
  BY <1>2, RowsSame
  DEF CallStep, VerifyAccount, SendOtp, AcceptCode, MarkVerified, EndCall, rest
<1>3. CASE \E p \in Procs : Abort(p)
  BY <1>3, RowsSame DEF Abort
<1>4. CASE UNCHANGED vars
  BY <1>4, RowsSame DEF vars
<1> QED
  BY <1>1, <1>2, <1>3, <1>4, RowsVoice, RowsAgent, RowsSeed DEF Next

(* Every reachable state of the ledger satisfies the inductive invariant:  *)
(* the rows of the three kinds of case, the holds and the statuses agree,  *)
(* for any number of calls, tools in flight and specialists, while the     *)
(* sessions of the calls change and the seed script runs again.            *)
THEOREM LedgerInvariant == Spec => []IInv
<1>1. Init => IInv
  BY TypeInit, FlightInit, RowsInit DEF IInv, Rows, SeedInFlight, Init
<1>2. IInv /\ [Next]_vars => IInv'
  BY TypeStep, FlightStep, SeedStep, RowsStep DEF IInv, Rows
<1> QED
  BY <1>1, <1>2, PTL DEF Spec

(* Migration 012 keeps one active refund per transaction, and the code     *)
(* never writes a second one over it.                                      *)
COROLLARY RefundsUnique == Spec => []OneActiveRefund
<1>1. IInv => OneActiveRefund
  BY DEF IInv
<1> QED
  BY <1>1, LedgerInvariant, PTL

(* No status claims a refund, a dispute or a report that has no row, re-   *)
(* runs of the seed script included: they set statuses back, and take no   *)
(* row away.  (Rows and statuses someone edits by hand, and a rebuild of   *)
(* the tables, are not steps of Spec.)                                     *)
COROLLARY StatusesBacked == Spec => []StatusBacked
<1>1. IInv => StatusBacked
  BY DEF IInv
<1> QED
  BY <1>1, LedgerInvariant, PTL

(* report_fraud and _remove_fraud_hold keep the flag, the holds and the    *)
(* cases of a customer in agreement, but for a customer whom a report has  *)
(* named in some of its rows only or whom the seed script has set back.    *)
COROLLARY FraudHoldsCoherent == Spec => []FraudHoldCoherent
<1>1. IInv => FraudHoldCoherent
  BY DEF IInv
<1> QED
  BY <1>1, LedgerInvariant, PTL

(* A freeze always keeps its hold, whatever unlock races with it.          *)
COROLLARY FreezesHaveHolds == Spec => []FrozenHasHold
<1>1. IInv => FrozenHasHold
  BY DEF IInv
<1> QED
  BY <1>1, LedgerInvariant, PTL

LEMMA OnlyOwnStep ==
  ASSUME TypeOK, NEW p \in Tasks, [Next]_vars, op'[p] # op[p]
  PROVE  VoiceStep(p) \/ Abort(p)
<1>1. ASSUME NEW q \in Procs, \E r : op' = [op EXCEPT ![q] = r]
      PROVE  q = p
  BY <1>1, ProcTyped DEF TypeOK
<1>2. CASE (\E c \in Calls : CallStep(c)) \/ Reseed \/ ReseedCases
  BY <1>2
  DEF CallStep, VerifyAccount, SendOtp, AcceptCode, MarkVerified, EndCall, rest,
      Reseed, ReseedCases
<1>3. ASSUME NEW q \in Tasks, VoiceStep(q) PROVE q = p
  <2>1. CASE FraudCase(q)
    <3>1. op' = [op EXCEPT ![q] = Filed(op[q], customer[CallOf[q]])]
      BY <2>1 DEF FraudCase, Filed
    <3> QED
      BY <1>1, <3>1, ProcTyped
  <2>2. CASE FraudFlag(q)
    <3>1. op' = [op EXCEPT ![q] = Flagged(op[q], customer[CallOf[q]])]
      BY <2>2 DEF FraudFlag, Flagged
    <3> QED
      BY <1>1, <3>1, ProcTyped
  <2>3. CASE ~(FraudCase(q) \/ FraudFlag(q))
    <3>1. \E r : op' = [op EXCEPT ![q] = r]
      BY <1>3, <2>3
      DEF VoiceStep, RefundRead, RefundCheck, RefundCommit, RefundUnacked,
          DisputeRead, DisputeWrite, FraudRead, FraudCheck, FraudCommit,
          UnlockRead, UnlockWrite, Begin, Advance, Finish
    <3> QED
      BY <1>1, <3>1, ProcTyped
  <2> QED
    BY <2>1, <2>2, <2>3
<1>4. ASSUME NEW a \in Agents, AgentStep(a) PROVE FALSE
  <2>1. \E r : op' = [op EXCEPT ![a] = r]
    BY <1>4
    DEF AgentStep, IssueRefundRead, IssueRefundWrite, ReopenDisputeRead,
        ReopenDisputeWrite, AgentUnlockRead, AgentUnlockWrite, FreezeRead,
        FreezeWrite, RemoveHoldRead, RemoveHoldWrite, FraudTeamRead,
        FraudTeamWrite, Begin, Finish
  <2> QED
    BY <1>1, <2>1, ProcTyped DEF Procs
<1>5. ASSUME NEW q \in Procs, Abort(q) PROVE q = p
  BY <1>1, <1>5 DEF Abort, Finish
<1>6. CASE UNCHANGED vars
  BY <1>6 DEF vars
<1> QED
  BY <1>2, <1>3, <1>4, <1>5, <1>6 DEF Next

(* A row a voice tool adds has an accepted code of its call behind it; and *)
(* if the session was verified when the tool read the transaction, every   *)
(* row it adds names the owner of the transaction, at the moment of the    *)
(* write, whatever verify_account did in between.                          *)
THEOREM VoiceWritesAuthorised == Spec => WritesAuthorised
<1>1. ASSUME IInv, [Next]_vars, NEW p \in Tasks PROVE WriteAuthorised(p)
  <2>1. TypeOK /\ TaskInFlight(p)
    BY <1>1 DEF IInv, InFlight
  <2> SUFFICES ASSUME op[p] # Idle, op'[p] = Idle,
                      <<refunds, disputes, frauds>> # <<refunds', disputes', frauds'>>
               PROVE  /\ codeAccepted[CallOf[p]]
                      /\ op[p].sure =>
                           /\ customer[CallOf[p]] = Owner[op[p].txn]
                           /\ op[p].tool = "fraud" => Named(p) = {Owner[op[p].txn]}
    BY DEF WriteAuthorised
  <2>2. VoiceStep(p)
    <3>1. VoiceStep(p) \/ Abort(p)
      BY <1>1, <2>1, OnlyOwnStep
    <3> QED
      BY <3>1 DEF Abort, txnVars
  <2>3. RefundCommit(p) \/ RefundUnacked(p) \/ DisputeWrite(p) \/ FraudCommit(p)
    BY <2>2
    DEF VoiceStep, RefundRead, RefundCheck, DisputeRead, FraudRead, FraudCheck,
        FraudCase, FraudFlag, UnlockRead, UnlockWrite, txnVars
  <2>4. op[p].tool \in CaseTools
    BY <2>3
    DEF RefundCommit, RefundUnacked, DisputeWrite, FraudCommit, InStep, CaseTools
  <2>5. /\ codeAccepted[CallOf[p]]
        /\ op[p].sure => customer[CallOf[p]] = Owner[op[p].txn]
    BY <2>1, <2>4 DEF TaskInFlight, CaseTools, VoiceTools
  <2>6. op[p].tool = "fraud" => op[p].step = "hold"
    BY <2>3
    DEF RefundCommit, RefundUnacked, DisputeWrite, FraudCommit, InStep
  <2>7. op[p].sure /\ op[p].tool = "fraud" =>
          op[p].filedOn = customer[CallOf[p]] /\ op[p].flagOn = customer[CallOf[p]]
    BY <2>1, <2>6 DEF TaskInFlight
  <2> QED
    BY <2>5, <2>7 DEF Named
<1>2. IInv /\ [Next]_vars => [\A p \in Tasks : WriteAuthorised(p)]_vars
  BY <1>1
<1> QED
  BY <1>2, LedgerInvariant, PTL DEF Spec, WritesAuthorised

-----------------------------------------------------------------------------
(* CaseLedger implements CaseFile: a read, a check, an abort and a step of *)
(* a call leave the rows alone, and a write is one filing.                 *)

rows == <<txnVars, custVars, torn>>

LEMMA RowsUnchanged == UNCHANGED rows => UNCHANGED File!fileVars
  BY DEF rows, txnVars, custVars, File!fileVars, File!custVars, File!flagVars

LEMMA FileStarts == Init => File!FileInit
  <1> SUFFICES ASSUME Init PROVE File!FileInit
    OBVIOUS
  <1>1. /\ status \in [Txns -> InitStatus] /\ refunds \in [Txns -> {0, 1}]
        /\ account \in [Customers -> {"active", "locked"}]
        /\ \A t \in Txns : disputes[t] = 0
        /\ torn = {}
    BY DEF Init
  <1>2. PICK case \in [Txns -> {"none", "open", "cleared"}] :
          /\ frauds = [tk \in Txns \X Customers |->
               IF tk[2] = Owner[tk[1]] /\ case[tk[1]] = "open" THEN 1 ELSE 0]
          /\ cleared = [tk \in Txns \X Customers |->
               IF tk[2] = Owner[tk[1]] /\ case[tk[1]] = "cleared" THEN 1 ELSE 0]
    BY DEF Init
  <1>3. ASSUME NEW t \in Txns, NEW k \in Customers
        PROVE  <<frauds[<<t, k>>], cleared[<<t, k>>]>> \in
                 (IF k = Owner[t] THEN {<<0, 0>>, <<1, 0>>, <<0, 1>>} ELSE {<<0, 0>>})
    <2>1. <<t, k>> \in Txns \X Customers
      OBVIOUS
    <2>2. /\ frauds[<<t, k>>] = IF k = Owner[t] /\ case[t] = "open" THEN 1 ELSE 0
          /\ cleared[<<t, k>>] = IF k = Owner[t] /\ case[t] = "cleared" THEN 1 ELSE 0
      BY <1>2, <2>1
    <2> QED  BY <2>2
  <1>4. ASSUME NEW k \in Customers
        PROVE  /\ fraudFlag[k] = (\E t \in Txns : frauds[<<t, k>>] = 1)
               /\ fraudHolds[k] = (IF fraudFlag[k] THEN 1 ELSE 0)
               /\ manualHolds[k] = (IF account[k] = "locked" THEN 1 ELSE 0)
               /\ ~teamEscalated[k]
    BY DEF Init
  <1> QED  BY <1>1, <1>3, <1>4 DEF File!FileInit

LEMMA RefundIsFiled ==
  ASSUME NEW t \in Txns, InsertRefund(t), UNCHANGED <<custVars, torn>>
  PROVE  File!FileNext
  <1>1. File!FileRefund(t)
    BY DEF InsertRefund, Plus1, custVars, File!FileRefund, File!OneMore,
           File!custVars, File!flagVars
  <1> QED  BY <1>1 DEF File!FileNext

LEMMA DisputeIsFiled ==
  ASSUME NEW t \in Txns, InsertDispute(t), UNCHANGED <<custVars, torn>>
  PROVE  File!FileNext
  <1>1. File!FileDispute(t)
    BY DEF InsertDispute, Plus1, custVars, File!FileDispute, File!OneMore,
           File!custVars, File!flagVars
  <1> QED  BY <1>1 DEF File!FileNext

LEMMA VoiceFiles ==
  ASSUME InFlight, NEW p \in Tasks, VoiceStep(p)
  PROVE  File!FileNext \/ UNCHANGED rows
  <1>1. TaskInFlight(p)
    BY DEF InFlight
  <1>2. CASE RefundCommit(p) \/ RefundUnacked(p)
    <2>1. op[p].txn \in Txns
      BY <1>1, <1>2 DEF TaskInFlight, RefundCommit, RefundUnacked, InStep, CaseTools
    <2> QED  BY <1>2, <2>1, RefundIsFiled DEF RefundCommit, RefundUnacked
  <1>3. CASE DisputeWrite(p)
    <2>1. op[p].txn \in Txns
      BY <1>1, <1>3 DEF TaskInFlight, DisputeWrite, InStep, CaseTools
    <2> QED  BY <1>3, <2>1, DisputeIsFiled DEF DisputeWrite
  <1>4. CASE FraudCommit(p)
    <2> DEFINE t == op[p].txn
               f == op[p].filedOn
               g == op[p].flagOn
               k == customer[CallOf[p]]
    <2>1. t \in Txns /\ f \in Customers /\ g \in Customers /\ k \in Customers
      BY <1>1, <1>4 DEF TaskInFlight, FraudCommit, InStep, CaseTools, VoiceTools
    <2>2. {f, g, k} = {k} <=> f = g /\ f = k
      OBVIOUS
    <2>3. torn' = torn \cup (IF f = g /\ f = k THEN {} ELSE {f, g, k})
      BY <1>4, <2>2 DEF FraudCommit, Named
    <2>4. File!ReportFraud(t, f, g, k)
      BY <1>4, <2>3 DEF FraudCommit, Plus1, File!ReportFraud, File!OneMore
    <2> QED  BY <2>1, <2>4 DEF File!FileNext
  <1>5. CASE UnlockWrite(p)
    <2>1. customer[CallOf[p]] \in Customers
      BY <1>1, <1>5 DEF TaskInFlight, UnlockWrite, InStep, VoiceTools
    <2>2. File!Unlock(customer[CallOf[p]])
      BY <1>5 DEF UnlockWrite, txnVars, File!Unlock, File!flagVars
    <2> QED  BY <2>1, <2>2 DEF File!FileNext
  <1>6. CASE ~(\/ RefundCommit(p) \/ RefundUnacked(p) \/ DisputeWrite(p)
               \/ FraudCommit(p) \/ UnlockWrite(p))
    BY <1>6 DEF VoiceStep, RefundRead, RefundCheck, DisputeRead, FraudRead, FraudCheck,
                FraudCase, FraudFlag, UnlockRead, rows
  <1> QED  BY <1>2, <1>3, <1>4, <1>5, <1>6

LEMMA AgentFiles ==
  ASSUME TypeOK, InFlight, NEW a \in Agents, AgentStep(a)
  PROVE  File!FileNext \/ UNCHANGED rows
  <1> DEFINE k == op[a].cust
             t == op[a].txn
  <1>1. AgentInFlight(a)
    BY DEF InFlight
  <1>2. CASE IssueRefundWrite(a)
    BY <1>1, <1>2, RefundIsFiled DEF AgentInFlight, IssueRefundWrite, InStep
  <1>3. CASE ReopenDisputeWrite(a)
    BY <1>1, <1>3, DisputeIsFiled DEF AgentInFlight, ReopenDisputeWrite, InStep
  <1>4. CASE AgentUnlockWrite(a)
    <2>1. k \in Customers
      BY <1>1, <1>4 DEF AgentInFlight, AgentUnlockWrite, InStep, CustomerTools
    <2>2. File!Unlock(k)
      BY <1>4 DEF AgentUnlockWrite, txnVars, File!Unlock, File!flagVars
    <2> QED  BY <2>1, <2>2 DEF File!FileNext
  <1>5. CASE FreezeWrite(a)
    <2>1. k \in Customers
      BY <1>1, <1>5 DEF AgentInFlight, FreezeWrite, InStep, CustomerTools
    <2>2. File!Freeze(k)
      BY <1>5 DEF FreezeWrite, Plus1, txnVars, File!Freeze, File!OneMore, File!flagVars
    <2> QED  BY <2>1, <2>2 DEF File!FileNext
  <1>6. CASE RemoveHoldWrite(a)
    <2>1. k \in Customers /\ ClearCases(k)
      BY <1>1, <1>6 DEF AgentInFlight, RemoveHoldWrite, InStep, CustomerTools
    <2>2. \A case \in Txns \X Customers :
            IF case[2] = k
            THEN frauds'[case] = 0 /\ cleared'[case] = cleared[case] + frauds[case]
            ELSE frauds'[case] = frauds[case] /\ cleared'[case] = cleared[case]
      BY <2>1 DEF ClearCases
    <2>3. File!LiftFraudHolds(k)
      BY <1>6, <2>2 DEF RemoveHoldWrite, File!LiftFraudHolds
    <2> QED  BY <2>1, <2>3 DEF File!FileNext
  <1>7. CASE FraudTeamWrite(a)
    <2>1. k \in Customers /\ (t = NoTxn \/ (t \in Txns /\ Owner[t] = k))
      BY <1>1, <1>7 DEF AgentInFlight, FraudTeamWrite, InStep, CustomerTools
    <2>2. File!TeamCase(k)
      BY <1>7, <2>1 DEF FraudTeamWrite, Plus1, File!TeamCase, File!OneMore
    <2> QED  BY <2>1, <2>2 DEF File!FileNext
  <1>8. CASE ~(\/ IssueRefundWrite(a) \/ ReopenDisputeWrite(a) \/ AgentUnlockWrite(a)
               \/ FreezeWrite(a) \/ RemoveHoldWrite(a) \/ FraudTeamWrite(a))
    BY <1>8 DEF AgentStep, IssueRefundRead, ReopenDisputeRead, AgentUnlockRead,
                FreezeRead, RemoveHoldRead, FraudTeamRead, rows
  <1> QED  BY <1>2, <1>3, <1>4, <1>5, <1>6, <1>7, <1>8

LEMMA SeedFiles ==
  ASSUME SeedInFlight, Reseed \/ ReseedCases
  PROVE  File!FileNext \/ UNCHANGED rows
  <1>1. CASE Reseed
    <2>1. File!Reseed
      BY <1>1 DEF Reseed, File!Reseed
    <2> QED  BY <2>1 DEF File!FileNext
  <1>2. CASE ReseedCases
    <2>1. ASSUME NEW t \in Txns, ReopenCase(t)
          PROVE  File!ReopenCase(t)
      BY <1>2, <2>1 DEF ReseedCases, SeedInFlight, ReopenCase, Plus1, custVars,
                        File!ReopenCase, File!OneMore, File!custVars, File!flagVars
    <2>2. CASE UNCHANGED <<frauds, cleared>>
      BY <1>2, <2>2 DEF ReseedCases, rows, txnVars
    <2> QED  BY <1>2, <2>1, <2>2 DEF ReseedCases, File!FileNext
  <1> QED  BY <1>1, <1>2

LEMMA WritesAreFiled ==
  ASSUME TypeOK, InFlight, SeedInFlight, [Next]_vars
  PROVE  File!FileNext \/ UNCHANGED rows
  <1>1. CASE \E c \in Calls : CallStep(c)
    BY <1>1
    DEF CallStep, VerifyAccount, SendOtp, AcceptCode, MarkVerified, EndCall, rest, rows
  <1>2. CASE \E p \in Procs : Abort(p)
    BY <1>2 DEF Abort, rows
  <1>3. CASE UNCHANGED vars
    BY <1>3 DEF vars, rows
  <1> QED  BY <1>1, <1>2, <1>3, VoiceFiles, AgentFiles, SeedFiles DEF Next

(* To the readers of the rows every filing is atomic: whatever the tools   *)
(* of the calls and the specialists read before, and in whatever order     *)
(* they write, for any number of them, a refund is filed over no other, a  *)
(* report with its flag and its hold, and every removal lifts all holds    *)
(* and clears all cases of one customer.                                   *)
THEOREM LedgerIsAFile == Spec => CasesFiled
  <1>1. Init => File!FileInit
    BY FileStarts
  <1>2. IInv /\ [Next]_vars => [File!FileNext]_(File!fileVars)
    BY WritesAreFiled, RowsUnchanged DEF IInv
  <1> QED  BY <1>1, <1>2, LedgerInvariant, PTL DEF Spec, CasesFiled, File!FileSpec

(* What a reader may conclude: no refund, dispute or report is ever lost;  *)
(* and but for customers a torn report or the seed script has touched, a   *)
(* cleared case stays cleared, and a flag goes down only with all fraud    *)
(* holds and with every case of the customer cleared, whatever is filed in *)
(* between.                                                                *)
THEOREM CasesAreKept == Spec => [][File!CasesKept]_vars
  <1>1. ASSUME TypeOK, TypeOK', File!FileNext
        PROVE  File!CasesKept
    <2>1. /\ refunds \in [Txns -> Nat] /\ disputes \in [Txns -> Nat]
          /\ frauds \in [Txns \X Customers -> Nat]
          /\ cleared \in [Txns \X Customers -> Nat]
          /\ fraudFlag \in [Customers -> BOOLEAN] /\ fraudHolds \in [Customers -> Nat]
      BY <1>1 DEF TypeOK, TxnType, CustType
    <2>2. ASSUME NEW t \in Txns, File!FileRefund(t) \/ File!FileDispute(t)
          PROVE  File!CasesKept
      <3>1. \A u \in Txns : refunds'[u] >= refunds[u] /\ disputes'[u] >= disputes[u]
        BY <2>1, <2>2 DEF File!FileRefund, File!FileDispute, File!OneMore
      <3>2. UNCHANGED <<frauds, cleared, fraudFlag>>
        BY <2>2 DEF File!FileRefund, File!FileDispute, File!custVars, File!flagVars
      <3> QED  BY <2>1, <3>1, <3>2 DEF File!CasesKept
    <2>3. ASSUME NEW t \in Txns, NEW k \in Customers, NEW flagged \in Customers,
                 NEW held \in Customers, File!ReportFraud(t, k, flagged, held)
          PROVE  File!CasesKept
      <3>1. \A case \in Txns \X Customers : frauds'[case] >= frauds[case]
        BY <2>1, <2>3 DEF File!ReportFraud, File!OneMore
      <3>2. UNCHANGED <<refunds, disputes, cleared>>
        BY <2>3 DEF File!ReportFraud
      <3>3. \A j \in Customers : fraudFlag[j] => fraudFlag'[j]
        BY <2>1, <2>3 DEF File!ReportFraud
      <3>4. \A case \in Txns \X Customers :
              frauds[case] \in Nat /\ frauds'[case] \in Nat /\ cleared[case] \in Nat
        BY <1>1 DEF TypeOK, TxnType
      <3> QED  BY <2>1, <3>1, <3>2, <3>3, <3>4 DEF File!CasesKept
    <2>4. ASSUME NEW k \in Customers, File!LiftFraudHolds(k)
          PROVE  File!CasesKept
      <3>1. \A case \in Txns \X Customers :
              /\ frauds'[case] + cleared'[case] = frauds[case] + cleared[case]
              /\ cleared'[case] >= cleared[case]
        BY <2>1, <2>4 DEF File!LiftFraudHolds
      <3>2. UNCHANGED <<refunds, disputes>>
        BY <2>4 DEF File!LiftFraudHolds
      <3>3. \A j \in Customers : fraudFlag[j] /\ ~fraudFlag'[j] =>
              fraudHolds'[j] = 0 /\ \A t \in Txns : frauds'[<<t, j>>] = 0
        <4>1. \A j \in Customers : fraudFlag[j] /\ ~fraudFlag'[j] =>
                j = k /\ fraudHolds'[j] = 0
          BY <2>1, <2>4 DEF File!LiftFraudHolds
        <4>2. ASSUME NEW t \in Txns PROVE frauds'[<<t, k>>] = 0
          <5>1. <<t, k>> \in Txns \X Customers /\ <<t, k>>[2] = k
            OBVIOUS
          <5> QED  BY <2>4, <5>1 DEF File!LiftFraudHolds
        <4> QED  BY <4>1, <4>2
      <3>4. \A case \in Txns \X Customers : frauds[case] \in Nat /\ cleared[case] \in Nat
        BY <2>1
      <3> QED  BY <2>1, <3>1, <3>2, <3>3, <3>4 DEF File!CasesKept
    <2>5. ASSUME NEW k \in Customers, File!TeamCase(k)
          PROVE  File!CasesKept
      <3>1. \A case \in Txns \X Customers : frauds'[case] >= frauds[case]
        <4>1. CASE UNCHANGED frauds
          BY <2>1, <4>1
        <4>2. ASSUME NEW t \in Txns, frauds' = File!OneMore(frauds, <<t, k>>)
              PROVE  \A case \in Txns \X Customers : frauds'[case] >= frauds[case]
          BY <2>1, <4>2 DEF File!OneMore
        <4> QED  BY <2>5, <4>1, <4>2 DEF File!TeamCase
      <3>2. UNCHANGED <<refunds, disputes, cleared, fraudFlag>>
        BY <2>5 DEF File!TeamCase
      <3>3. \A case \in Txns \X Customers :
              frauds[case] \in Nat /\ frauds'[case] \in Nat /\ cleared[case] \in Nat
        BY <1>1 DEF TypeOK, TxnType
      <3> QED  BY <2>1, <3>1, <3>2, <3>3 DEF File!CasesKept
    <2>6. ASSUME NEW k \in Customers, File!Freeze(k) \/ File!Unlock(k)
          PROVE  File!CasesKept
      BY <2>1, <2>6 DEF File!Freeze, File!Unlock, File!flagVars, File!CasesKept
    <2>7. CASE File!Reseed
      BY <2>1, <2>7 DEF File!Reseed, File!CasesKept
    <2>8. ASSUME NEW t \in Txns, File!ReopenCase(t)
          PROVE  File!CasesKept
      <3>1. \A case \in Txns \X Customers :
              frauds'[case] + cleared'[case] >= frauds[case] + cleared[case]
        BY <2>1, <2>8 DEF File!ReopenCase, File!OneMore
      <3>2. torn' = Customers /\ UNCHANGED <<refunds, disputes>>
        BY <2>8 DEF File!ReopenCase
      <3> QED  BY <2>1, <3>1, <3>2 DEF File!CasesKept
    <2> QED  BY <1>1, <2>2, <2>3, <2>4, <2>5, <2>6, <2>7, <2>8 DEF File!FileNext
  <1>2. ASSUME IInv, [Next]_vars
        PROVE  [File!CasesKept]_vars
    <2>1. TypeOK /\ TypeOK' /\ InFlight /\ SeedInFlight
      BY <1>2, TypeStep DEF IInv
    <2>2. File!FileNext \/ UNCHANGED rows
      BY <1>2, <2>1, WritesAreFiled
    <2>3. CASE UNCHANGED rows
      <3>1. /\ \A t \in Txns : refunds[t] \in Nat /\ disputes[t] \in Nat
            /\ \A case \in Txns \X Customers : frauds[case] \in Nat /\ cleared[case] \in Nat
            /\ UNCHANGED <<refunds, disputes, frauds, cleared, fraudFlag>>
        BY <2>1, <2>3 DEF rows, txnVars, custVars, TypeOK, TxnType
      <3> QED  BY <3>1 DEF File!CasesKept
    <2> QED  BY <1>1, <2>1, <2>2, <2>3
  <1> QED  BY <1>2, LedgerInvariant, PTL DEF Spec

=============================================================================
