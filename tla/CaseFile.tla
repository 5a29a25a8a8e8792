------------------------------ MODULE CaseFile ------------------------------
(***************************************************************************)
(* What the readers of a customer's rows rely on (the prompt of the agent, *)
(* the checks of the tools, the console and the case pages): a case is     *)
(* filed in one step with all that goes with it, and is never lost.  A     *)
(* transaction has one active refund at most.  A report files its case,    *)
(* raises a flag and places a hold, and a report that does not do so for   *)
(* one customer is known as torn.  Only the removal of the fraud holds     *)
(* lowers the flag, lifts all of them and clears every case of that        *)
(* customer; an unlock touches neither.  The seed script may set statuses  *)
(* and flags back, but takes no row away.                                  *)
(***************************************************************************)
EXTENDS Naturals

CONSTANTS Customers, Txns, Owner, InitStatus

VARIABLES
  status, refunds, disputes,                                  \* per transaction
  frauds, cleared,                                            \* per both
  account, fraudFlag, teamEscalated, fraudHolds, manualHolds, \* per customer
  torn                      \* customers whose flag and holds may disagree

flagVars == <<fraudFlag, teamEscalated, fraudHolds>>
custVars == <<account, manualHolds, flagVars>>
fileVars == <<status, refunds, disputes, frauds, cleared, custVars, torn>>

FileInit ==
  /\ status \in [Txns -> InitStatus]
  /\ refunds \in [Txns -> {0, 1}]
  /\ \A t \in Txns : disputes[t] = 0
  /\ \A t \in Txns, k \in Customers :
       <<frauds[<<t, k>>], cleared[<<t, k>>]>> \in
         (IF k = Owner[t] THEN {<<0, 0>>, <<1, 0>>, <<0, 1>>} ELSE {<<0, 0>>})
  /\ account \in [Customers -> {"active", "locked"}]
  /\ \A k \in Customers :
       /\ fraudFlag[k] = (\E t \in Txns : frauds[<<t, k>>] = 1)
       /\ fraudHolds[k] = (IF fraudFlag[k] THEN 1 ELSE 0)
       /\ manualHolds[k] = (IF account[k] = "locked" THEN 1 ELSE 0)
       /\ ~teamEscalated[k]
  /\ torn = {}

OneMore(f, x) == [f EXCEPT ![x] = @ + 1]

FileRefund(t) ==
  /\ refunds[t] = 0
  /\ refunds' = OneMore(refunds, t)
  /\ status' = [status EXCEPT ![t] = "refund_initiated"]
  /\ UNCHANGED <<disputes, frauds, cleared, custVars, torn>>

FileDispute(t) ==
  /\ disputes' = OneMore(disputes, t)
  /\ status' = [status EXCEPT ![t] = "disputed"]
  /\ UNCHANGED <<refunds, frauds, cleared, custVars, torn>>

(* The customer of the case, the one who is flagged and the one on hold. *)
ReportFraud(t, k, flagged, held) ==
  /\ frauds' = OneMore(frauds, <<t, k>>)
  /\ status' = [status EXCEPT ![t] = "fraud_reported"]
  /\ fraudFlag' = [fraudFlag EXCEPT ![flagged] = TRUE]
  /\ fraudHolds' = OneMore(fraudHolds, held)
  /\ torn' = torn \cup (IF k = flagged /\ k = held THEN {} ELSE {k, flagged, held})
  /\ UNCHANGED <<refunds, disputes, cleared, account, manualHolds, teamEscalated>>

(* A case of the fraud team: on a transaction of the customer, or on none. *)
TeamCase(k) ==
  /\ teamEscalated' = [teamEscalated EXCEPT ![k] = TRUE]
  /\ \/ UNCHANGED frauds
     \/ \E t \in Txns : Owner[t] = k /\ frauds' = OneMore(frauds, <<t, k>>)
  /\ UNCHANGED <<status, refunds, disputes, cleared, account, manualHolds,
                 fraudFlag, fraudHolds, torn>>

LiftFraudHolds(k) ==
  /\ fraudFlag' = [fraudFlag EXCEPT ![k] = FALSE]
  /\ fraudHolds' = [fraudHolds EXCEPT ![k] = 0]
  /\ \A case \in Txns \X Customers :
       IF case[2] = k
       THEN frauds'[case] = 0 /\ cleared'[case] = cleared[case] + frauds[case]
       ELSE frauds'[case] = frauds[case] /\ cleared'[case] = cleared[case]
  /\ UNCHANGED <<status, refunds, disputes, account, manualHolds, teamEscalated,
                 torn>>

Freeze(k) ==
  /\ account' = [account EXCEPT ![k] = "frozen"]
  /\ manualHolds' = OneMore(manualHolds, k)
  /\ UNCHANGED <<status, refunds, disputes, frauds, cleared, flagVars, torn>>

(* The console lifts the manual holds too, the voice tool does not. *)
Unlock(k) ==
  /\ account' = [account EXCEPT ![k] = "active"]
  /\ UNCHANGED manualHolds \/ manualHolds' = [manualHolds EXCEPT ![k] = 0]
  /\ UNCHANGED <<status, refunds, disputes, frauds, cleared, flagVars, torn>>

Reseed ==
  /\ status' \in [Txns -> InitStatus]
  /\ account' \in [Customers -> {"active", "locked"}]
  /\ fraudFlag' \in [Customers -> BOOLEAN]
  /\ torn' = Customers
  /\ UNCHANGED <<refunds, disputes, frauds, cleared, manualHolds, teamEscalated,
                 fraudHolds>>

(* The seeded case is under review again. *)
ReopenCase(t) ==
  LET case == <<t, Owner[t]>> IN
  /\ torn = Customers
  /\ cleared[case] > 0
  /\ cleared' = [cleared EXCEPT ![case] = @ - 1]
  /\ frauds' = OneMore(frauds, case)
  /\ UNCHANGED <<status, refunds, disputes, custVars, torn>>

FileNext ==
  \/ \E t \in Txns : FileRefund(t) \/ FileDispute(t) \/ ReopenCase(t)
  \/ \E t \in Txns, k, flagged, held \in Customers : ReportFraud(t, k, flagged, held)
  \/ \E k \in Customers : TeamCase(k) \/ LiftFraudHolds(k) \/ Freeze(k) \/ Unlock(k)
  \/ Reseed

FileSpec == FileInit /\ [][FileNext]_fileVars

(* No refund, dispute or report is ever lost; and but for the customers    *)
(* that a torn report or the seed script has touched, a cleared case stays *)
(* cleared and a flag goes down only with all fraud holds of the customer  *)
(* and with every case on that customer cleared.                           *)
CasesKept ==
  /\ \A t \in Txns :
       refunds'[t] >= refunds[t] /\ disputes'[t] >= disputes[t]
  /\ \A case \in Txns \X Customers :
       /\ frauds'[case] + cleared'[case] >= frauds[case] + cleared[case]
       /\ case[2] \notin torn' => cleared'[case] >= cleared[case]
  /\ \A k \in Customers \ torn' : fraudFlag[k] /\ ~fraudFlag'[k] =>
       fraudHolds'[k] = 0 /\ \A t \in Txns : frauds'[<<t, k>>] = 0

=============================================================================
