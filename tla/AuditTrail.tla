----------------------------- MODULE AuditTrail -----------------------------
(***************************************************************************)
(* What the engine of approved actions promises of its records             *)
(* (backend/orchestration/engine.py:9 "Immutable audit log write",         *)
(* engine.py:179 "committed inside execute_action's outer commit so they   *)
(* are always consistent with the audit log", the unique constraints of    *)
(* backend/models): one trail, to which entries are only added, one for an *)
(* execution id, each with its two tickets when it succeeded and with none *)
(* when it failed, and no ticket number twice.                             *)
(***************************************************************************)
EXTENDS Naturals

CONSTANT Ids  \* the execution ids

VARIABLE trail

Entries == [id : Ids, ok : BOOLEAN, inc : Nat, res : Nat]

TrailInit == trail = {}

(* The number 0 stands for no ticket. *)
Append(e) ==
  /\ \A f \in trail : f.id # e.id
  /\ \/ /\ e.ok
        /\ e.inc # 0 /\ e.res # 0
        /\ \A f \in trail : f.inc # e.inc /\ f.res # e.res
     \/ ~e.ok /\ e.inc = 0 /\ e.res = 0
  /\ trail' = trail \cup {e}

TrailNext == \E e \in trail' : e \in Entries /\ Append(e)

TrailSpec == TrailInit /\ [][TrailNext]_trail

=============================================================================
