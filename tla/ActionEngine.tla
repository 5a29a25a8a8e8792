---------------------------- MODULE ActionEngine ----------------------------
(***************************************************************************)
(* The engine that runs what a specialist approves                         *)
(* (backend/orchestration/engine.py), its two callers (the desktop's       *)
(* socket, routers/ws_agent.py, and POST /api/orchestration/actions/       *)
(* execute), and the rows it leaves: the audit log, the incidents and the  *)
(* resolutions.  An attempt is one delivery of an approval; several may    *)
(* carry one execution id.  A step lies between two awaits.                *)
(*                                                                         *)
(* The handlers come in three kinds: mark_kyc_verified refuses when its    *)
(* work is done already, reset_2fa does it again, send_otp_to_customer     *)
(* works on the session and needs no customer in the payload.              *)
(***************************************************************************)
EXTENDS Naturals, FiniteSets

CONSTANTS
  Attempts,   \* deliveries of an approval
  Ids,        \* execution ids
  MaxFaults,  \* bound: statements that fail for reasons of the database
  MaxRestarts \* bound: restarts of the API process

ASSUME FaultsAssumption == MaxFaults \in Nat
ASSUME RestartsAssumption == MaxRestarts \in Nat
ASSUME AttemptsAssumption == IsFiniteSet(Attempts)
ASSUME IdsAssumption == Ids # {}

VARIABLES
  audit,        \* rows of action_audit_logs
  incidents,    \* rows of incidents
  resolutions,  \* rows of resolutions
  incSeq,       \* seq_inc_number
  resSeq,       \* seq_res_number
  kyc,          \* customers.kyc_status = 'verified'
  cooling,      \* the session's last one-time code is too young for another
  req,          \* the attempts
  completed,    \* session.completed_actions
  card,         \* the desktop's status of each action
  faults,       \* faults so far
  restarts,     \* restarts so far
  done,         \* history: how often a handler did its work for each id
  worked,       \* history: the actions whose work was done
  disturbed     \* history: ids with overlapping attempts, or a lost row

rows == <<audit, incidents, resolutions>>
desk == <<completed, card>>
history == <<done, worked, disturbed>>
vars == <<audit, incidents, resolutions, incSeq, resSeq, kyc, cooling, req,
          completed, card, faults, restarts, done, worked, disturbed>>

(* ACTION_REGISTRY, one action of each kind, and a name that is not there. *)
Registry == {"mark_kyc_verified", "reset_2fa", "send_otp_to_customer"}
Names == Registry \cup {"unknown"}

NeedsCustomer(a) == a # "send_otp_to_customer"

Steps == {"idle", "lookup", "check", "apply", "incident", "resolution",
          "audit", "answer", "over"}

(* The attempt before it is delivered.  inc and res are the numbers drawn, *)
(* broken that the transaction has failed, out what the caller is told.    *)
Fresh == [at |-> "idle", id |-> CHOOSE i \in Ids : TRUE, act |-> "unknown",
          via |-> "http", customer |-> FALSE, ok |-> FALSE, inc |-> 0,
          res |-> 0, broken |-> FALSE, out |-> "none"]

AttemptStates ==
  [at : Steps, id : Ids, act : Names, via : {"ws", "http"},
   customer : BOOLEAN, ok : BOOLEAN, inc : Nat, res : Nat, broken : BOOLEAN,
   out : {"none", "success", "failure", "error"}]

CardStates == {"none", "executing", "completed", "failed"}

EngineTypeOK ==
  /\ audit \subseteq [id : Ids, ok : BOOLEAN, inc : Nat, res : Nat]
  /\ incidents \subseteq [num : Nat \ {0}, id : Ids]
  /\ resolutions \subseteq [num : Nat \ {0}, inc : Nat \ {0}]
  /\ incSeq \in Nat
  /\ resSeq \in Nat
  /\ kyc \in BOOLEAN
  /\ cooling \in BOOLEAN
  /\ req \in [Attempts -> AttemptStates]
  /\ completed \subseteq Registry
  /\ card \in [Registry -> CardStates]
  /\ faults \in Nat
  /\ restarts \in Nat
  /\ done \in [Ids -> Nat]
  /\ worked \subseteq Registry
  /\ disturbed \subseteq Ids

Init ==
  /\ audit = {} /\ incidents = {} /\ resolutions = {}
  /\ incSeq = 0 /\ resSeq = 0
  /\ kyc = FALSE
  /\ cooling = FALSE
  /\ req = [r \in Attempts |-> Fresh]
  /\ completed = {}
  /\ card = [a \in Registry |-> "none"]
  /\ faults = 0 /\ restarts = 0
  /\ done = [i \in Ids |-> 0]
  /\ worked = {}
  /\ disturbed = {}

Running(r) == req[r].at \notin {"idle", "answer", "over"}

UsedIds == {req[r].id : r \in {q \in Attempts : req[q].at # "idle"}}

GoTo(r, at) == req' = [req EXCEPT ![r].at = at]

-----------------------------------------------------------------------------
(* An approval is delivered.                                               *)

Deliver(r, i, a, via, c) ==
  /\ req[r].at = "idle"
  /\ \A q \in Attempts : req[q].at # "idle" /\ req[q].id = i => req[q].act = a
  /\ req' = [req EXCEPT ![r] = [Fresh EXCEPT !.at = "lookup", !.id = i,
                                !.act = a, !.via = via, !.customer = c]]
  /\ disturbed' = IF \E q \in Attempts : Running(q) /\ req[q].id = i
                  THEN disturbed \cup {i} ELSE disturbed
  /\ UNCHANGED <<rows, incSeq, resSeq, kyc, cooling, completed, faults,
                 restarts, done, worked>>

(* The specialist approves a card, or fires a tool of the desktop: a fresh *)
(* id for every click.  The customer is the session's, once there is one.  *)
Approve(r, i, a, c) ==
  /\ a \in Registry
  /\ i \notin UsedIds
  /\ Deliver(r, i, a, "ws", c)
  /\ card' = [card EXCEPT ![a] = "executing"]

(* A client of the REST endpoint: ids of its own, which it may repeat. *)
Post(r, i, a, c) ==
  /\ \A q \in Attempts : req[q].via = "ws" => req[q].id # i
  /\ Deliver(r, i, a, "http", c)
  /\ UNCHANGED card

-----------------------------------------------------------------------------
(* execute_action.                                                         *)

RowOf(i) == {e \in audit : e.id = i}

(* Variant: the audit log is not looked at. *)
ReplaysNever(r) == FALSE
Replays(r) == RowOf(req[r].id) # {}

(* The first statement: the row of an execution id answers for it, with    *)
(* the result that was stored.  The socket calls every result it gets back *)
(* a success; the endpoint's answer carries the stored flag.               *)
Replay(r) ==
  /\ req[r].at = "lookup"
  /\ Replays(r)
  /\ \E e \in RowOf(req[r].id) :
       req' = [req EXCEPT ![r].at = "answer", ![r].inc = e.inc, ![r].res = e.res,
                 ![r].ok = e.ok,
                 ![r].out = IF e.ok \/ req[r].via = "ws" THEN "success"
                            ELSE "failure"]
  /\ UNCHANGED <<rows, incSeq, resSeq, kyc, cooling, desk, faults, restarts,
                 history>>

(* A name that is not registered: an error, and no row. *)
NotFound(r) ==
  /\ req[r].at = "lookup"
  /\ ~Replays(r)
  /\ req[r].act \notin Registry
  /\ req' = [req EXCEPT ![r].at = "answer", ![r].out = "error"]
  /\ UNCHANGED <<rows, incSeq, resSeq, kyc, cooling, desk, faults, restarts,
                 history>>

Lookup(r) ==
  /\ req[r].at = "lookup"
  /\ ~Replays(r)
  /\ req[r].act \in Registry
  /\ GoTo(r, "check")
  /\ UNCHANGED <<rows, incSeq, resSeq, kyc, cooling, desk, faults, restarts,
                 history>>

(* The handler reads and refuses. *)
NoCustomer(r) == NeedsCustomer(req[r].act) /\ ~req[r].customer
KycRefuses(r) == req[r].act = "mark_kyc_verified" /\ kyc
OtpRefuses(r) == req[r].act = "send_otp_to_customer" /\ cooling

Refuses(r) == NoCustomer(r) \/ KycRefuses(r) \/ OtpRefuses(r)

Check(r) ==
  /\ req[r].at = "check"
  /\ GoTo(r, IF Refuses(r) THEN "audit" ELSE "apply")
  /\ UNCHANGED <<rows, incSeq, resSeq, kyc, cooling, desk, faults, restarts,
                 history>>

(* What its work leaves: reset_2fa writes a date nothing reads.            *)
MarkKyc(r) == kyc' = (kyc \/ req[r].act = "mark_kyc_verified")
SendCode(r) == cooling' = (cooling \/ req[r].act = "send_otp_to_customer")

(* It writes, in a session of its own, and commits. *)
Apply(r) ==
  /\ req[r].at = "apply"
  /\ req' = [req EXCEPT ![r].at = "incident", ![r].ok = TRUE]
  /\ MarkKyc(r)
  /\ SendCode(r)
  /\ done' = [done EXCEPT ![req[r].id] = @ + 1]
  /\ worked' = worked \cup {req[r].act}
  /\ UNCHANGED <<rows, incSeq, resSeq, desk, faults, restarts, disturbed>>

(* Its transaction fails: the engine takes it as a refusal. *)
ApplyFails(r) ==
  /\ req[r].at = "apply"
  /\ faults < MaxFaults
  /\ faults' = faults + 1
  /\ GoTo(r, "audit")
  /\ UNCHANGED <<rows, incSeq, resSeq, kyc, cooling, desk, restarts, history>>

(* A number is drawn and the incident flushed.  Its customer_id is not     *)
(* nullable: without one the flush fails, and with it the transaction.     *)
Incident(r) ==
  /\ req[r].at = "incident"
  /\ incSeq' = incSeq + 1
  /\ req' = IF req[r].customer
            THEN [req EXCEPT ![r].at = "resolution", ![r].inc = incSeq + 1]
            ELSE [req EXCEPT ![r].at = "audit", ![r].broken = TRUE]
  /\ UNCHANGED <<rows, resSeq, kyc, cooling, desk, faults, restarts, history>>

(* The resolution, with the second number. *)
Resolution(r) ==
  /\ req[r].at = "resolution"
  /\ resSeq' = resSeq + 1
  /\ req' = [req EXCEPT ![r].at = "audit", ![r].res = resSeq + 1]
  /\ UNCHANGED <<rows, incSeq, kyc, cooling, desk, faults, restarts, history>>

(* A statement of the tickets fails: "non-fatal", but the transaction can  *)
(* only be rolled back now, and the numbers are not told.                  *)
TicketFails(r) ==
  /\ req[r].at \in {"incident", "resolution"}
  /\ faults < MaxFaults
  /\ faults' = faults + 1
  /\ req' = [req EXCEPT ![r].at = "audit", ![r].broken = TRUE, ![r].inc = 0]
  /\ UNCHANGED <<rows, incSeq, resSeq, kyc, cooling, desk, restarts, history>>

(* Variant: a failed transaction loses the tickets only. *)
CommitsDespite(r) == RowOf(req[r].id) = {}
Commits(r) == ~req[r].broken /\ RowOf(req[r].id) = {}

(* Variant: a refusal is logged and not passed on. *)
AnsweredIfDone(r) ==
  req' = [req EXCEPT ![r].at = IF req[r].ok THEN "answer" ELSE "over",
                     ![r].out = IF req[r].ok THEN "success" ELSE "failure"]

Answered(r) ==
  req' = [req EXCEPT ![r].at = "answer",
                     ![r].out = IF req[r].ok THEN "success" ELSE "failure"]

(* Variant: the audit row is written and the tickets are left behind. *)
CommitRowOnly(r) ==
  /\ audit' = audit \cup {[id |-> req[r].id, ok |-> req[r].ok,
                           inc |-> req[r].inc, res |-> req[r].res]}
  /\ UNCHANGED <<incidents, resolutions>>

(* Variant: every row says success. *)
CommitAlwaysOk(r) ==
  /\ audit' = audit \cup {[id |-> req[r].id, ok |-> TRUE,
                           inc |-> req[r].inc, res |-> req[r].res]}
  /\ UNCHANGED <<incidents, resolutions>>

(* One transaction: the row, and the tickets of a success. *)
CommitRows(r) ==
  /\ audit' = audit \cup {[id |-> req[r].id, ok |-> req[r].ok,
                           inc |-> req[r].inc, res |-> req[r].res]}
  /\ IF req[r].ok
     THEN /\ incidents' = incidents \cup {[num |-> req[r].inc, id |-> req[r].id]}
          /\ resolutions' = resolutions \cup {[num |-> req[r].res, inc |-> req[r].inc]}
     ELSE UNCHANGED <<incidents, resolutions>>

Audit(r) ==
  /\ req[r].at = "audit"
  /\ Commits(r)
  /\ CommitRows(r)
  /\ Answered(r)
  /\ UNCHANGED <<incSeq, resSeq, kyc, cooling, desk, faults, restarts, history>>

(* The commit fails: the transaction failed before, another attempt's row  *)
(* holds the id, or the database.  Logged, and answered as if it had not.  *)
AuditLost(r) ==
  /\ req[r].at = "audit"
  /\ \/ ~Commits(r) /\ UNCHANGED faults
     \/ Commits(r) /\ faults < MaxFaults /\ faults' = faults + 1
  /\ Answered(r)
  /\ disturbed' = disturbed \cup {req[r].id}
  /\ UNCHANGED <<rows, incSeq, resSeq, kyc, cooling, desk, restarts, done, worked>>

-----------------------------------------------------------------------------
(* What the callers do with the outcome.                                   *)

(* Variant: the socket reports every outcome as a success. *)
SettledCompleted(r) == "completed"
Settled(r) == IF req[r].out = "success" THEN "completed" ELSE "failed"

(* The socket: a success is noted in the session, and the desktop's card   *)
(* of that action takes the outcome.                                       *)
AnswerDesktop(r) ==
  /\ req[r].at = "answer"
  /\ req[r].via = "ws"
  /\ completed' = IF Settled(r) = "completed"
                  THEN completed \cup {req[r].act} ELSE completed
  /\ card' = [card EXCEPT ![req[r].act] = Settled(r)]
  /\ GoTo(r, "over")
  /\ UNCHANGED <<rows, incSeq, resSeq, kyc, cooling, faults, restarts, history>>

(* The endpoint: 200, 404 or 409. *)
AnswerClient(r) ==
  /\ req[r].at = "answer"
  /\ req[r].via = "http"
  /\ GoTo(r, "over")
  /\ UNCHANGED <<rows, incSeq, resSeq, kyc, cooling, desk, faults, restarts,
                 history>>

(* send_otp sends again after ten seconds. *)
Cool ==
  /\ cooling
  /\ cooling' = FALSE
  /\ UNCHANGED <<rows, incSeq, resSeq, kyc, req, desk, faults, restarts, history>>

(* The process ends and starts again: what was running is gone with the    *)
(* session; the rows, the sequences and the desktops are not.              *)
Restart ==
  /\ restarts < MaxRestarts
  /\ restarts' = restarts + 1
  /\ disturbed' = disturbed \cup {req[r].id : r \in {q \in Attempts : Running(q)}}
  /\ req' = [r \in Attempts |->
              IF req[r].at = "idle" THEN req[r] ELSE [req[r] EXCEPT !.at = "over"]]
  /\ completed' = {}
  /\ cooling' = FALSE
  /\ UNCHANGED <<rows, incSeq, resSeq, kyc, card, faults, done, worked>>

EngineStep(r) ==
  \/ Replay(r) \/ NotFound(r) \/ Lookup(r) \/ Check(r)
  \/ Apply(r) \/ ApplyFails(r) \/ Incident(r) \/ Resolution(r)
  \/ TicketFails(r) \/ Audit(r) \/ AuditLost(r)
  \/ AnswerDesktop(r) \/ AnswerClient(r)

Next ==
  \/ \E r \in Attempts, i \in Ids, a \in Names, c \in BOOLEAN :
       Approve(r, i, a, c) \/ Post(r, i, a, c)
  \/ \E r \in Attempts : EngineStep(r)
  \/ Cool
  \/ Restart

Spec == Init /\ [][Next]_vars

(* An attempt is a task of the event loop: it goes on until it answers.    *)
FairSpec == Spec /\ \A r \in Attempts : WF_vars(EngineStep(r))

-----------------------------------------------------------------------------
(* Properties.                                                             *)

(* The tickets of execute_action, written in one transaction with the      *)
(* audit row (engine.py:180 "always consistent with the audit log"): each  *)
(* incident has its resolution and the successful row with both numbers,   *)
(* and each successful row has them; no number is given twice.             *)
TicketsMatch ==
  /\ \A n, m \in incidents : n.num = m.num => n = m
  /\ \A n, m \in resolutions : n.num = m.num => n = m
  /\ \A n \in incidents : \E e \in audit :
       e.id = n.id /\ e.ok /\ e.inc = n.num
         /\ [num |-> e.res, inc |-> n.num] \in resolutions
  /\ \A e \in audit : e.ok => [num |-> e.inc, id |-> e.id] \in incidents
  /\ \A e \in resolutions : \E n \in incidents : n.num = e.inc

(* Whatever fails, restarts or overlaps, execute_action never writes a     *)
(* successful row for work no handler did under that execution id.         *)
RowsAreEarned == \A e \in audit : e.ok => done[e.id] > 0

(* The idempotency of execution_id (orchestration_router.py:55) as far as  *)
(* it goes: an id whose attempts never overlapped, and none of which lost  *)
(* its row, had its work done at most once, and once an attempt at it has  *)
(* done the work and ended, the row says so.                               *)
OnceUndisturbed ==
  \A i \in Ids \ disturbed :
    /\ done[i] <= 1
    /\ done[i] = 1 /\ (\A r \in Attempts : Running(r) => req[r].id # i)
       => \E e \in audit : e.id = i /\ e.ok

(* A row was earned, and the work of an undisturbed id is logged, once.     *)
WorkIsLogged == RowsAreEarned /\ OnceUndisturbed

(* The ticket numbers an attempt is told are those of an incident, unless  *)
(* its row was lost or its id disturbed: execute_action puts the numbers   *)
(* in the result before the commit.                                        *)
ToldNumbersExist ==
  \A r \in Attempts :
    req[r].at \in {"answer", "over"} /\ req[r].out = "success"
      /\ req[r].inc # 0 /\ req[r].id \notin disturbed
    => [num |-> req[r].inc, id |-> req[r].id] \in incidents

(* A card the desktop shows as completed, and an action the session keeps  *)
(* from being suggested again (call_session.py:98 "actions already         *)
(* executed this call"), is one whose handler did its work.                *)
CompletedWasDone ==
  /\ completed \subseteq worked
  /\ \A a \in Registry : card[a] = "completed" => a \in worked

(* What the engine tells its callers is true: the numbers in an answer and *)
(* the cards of the desktop.                                               *)
ToldTheTruth == ToldNumbersExist /\ CompletedWasDone

(* The rows only grow, one execution id at a time, as AuditTrail says.     *)
Trail == INSTANCE AuditTrail WITH trail <- audit
TrailKept == Trail!TrailSpec

(* Every approved card is settled by an action_result, or the API process  *)
(* went down under it: _execute_approved_action answers on every path.     *)
CardsSettle ==
  \A a \in Registry :
    card[a] = "executing" ~> (card[a] # "executing" \/ restarts > 0)

-----------------------------------------------------------------------------
(* What the repository says and the code refutes.                          *)

(* "The audit log is written in all cases (success AND failure)"           *)
(* (engine.py:51): an attempt that ran a handler leaves a row for its id.  *)
AuditedInAllCases ==
  \A r \in Attempts :
    req[r].at = "over" /\ req[r].out \in {"success", "failure"}
    => RowOf(req[r].id) # {}

=============================================================================
