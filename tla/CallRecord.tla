----------------------------- MODULE CallRecord -----------------------------
(***************************************************************************)
(* What the readers of a call's row rely on: the KPIs and the list of      *)
(* calls (backend/routers/calls.py), the scoring (backend/agents/          *)
(* qa_agent.py) and the coaching reports.  A record is opened once and     *)
(* closed once; what is closed keeps its end and its transcript and is     *)
(* never deleted; only what is closed and has a transcript is scored.      *)
(***************************************************************************)
EXTENDS Naturals

CONSTANT Calls

VARIABLES record, scores

(* Nothing is known of a call yet, or its row is gone for good. *)
Blank(st) == [st |-> st, esc |-> FALSE, lines |-> FALSE, res |-> "none",
              acw |-> FALSE, cust |-> "none"]

RecordInit ==
  /\ record = [c \in Calls |-> Blank("new")]
  /\ scores = [c \in Calls |-> 0]

Becomes(c, r) == record' = [record EXCEPT ![c] = r] /\ UNCHANGED scores

(* The row of a call is inserted, or that failed. *)
Open(c) ==
  /\ record[c].st = "new"
  /\ \E st \in {"open", "lost"} : Becomes(c, Blank(st))

MarkEscalated(c) ==
  /\ record[c].st = "open"
  /\ Becomes(c, [record[c] EXCEPT !.esc = TRUE])

(* The end of a call with its outcome, its transcript and its caller. *)
Close(c) ==
  /\ record[c].st = "open"
  /\ \E lines \in BOOLEAN, res \in {"resolved", "escalated"}, cust \in {"none", "named"} :
       Becomes(c, [record[c] EXCEPT !.st = "closed", !.lines = lines, !.res = res,
                                    !.cust = cust])

(* The specialist's summary, once. *)
Summarise(c) ==
  /\ record[c].st \in {"open", "closed"} /\ ~record[c].acw
  /\ Becomes(c, [record[c] EXCEPT !.acw = TRUE, !.res = "acw"])

(* One that is open and not escalated may be purged; one that is closed,   *)
(* with words but no caller, may be given a caller.                        *)
Repaired(r) ==
  {r} \cup (IF r.st = "open" /\ ~r.esc THEN {Blank("lost")} ELSE {})
      \cup (IF r.st = "closed" /\ r.lines /\ r.cust = "none"
            THEN {[r EXCEPT !.cust = "guessed"]} ELSE {})

(* All of them, in one transaction. *)
Repair ==
  /\ record' = [c \in Calls |-> record'[c]]
  /\ \A c \in Calls : record'[c] \in Repaired(record[c])
  /\ UNCHANGED scores

AddScore(c) ==
  /\ record[c].st = "closed" /\ record[c].lines
  /\ scores' = [scores EXCEPT ![c] = @ + 1]
  /\ UNCHANGED record

RecordNext ==
  \/ \E c \in Calls :
       Open(c) \/ MarkEscalated(c) \/ Close(c) \/ Summarise(c) \/ AddScore(c)
  \/ Repair

RecordSpec == RecordInit /\ [][RecordNext]_<<record, scores>>

(* A closed record is never opened again or deleted and keeps its          *)
(* transcript and whether it was escalated; an escalated one is not purged *)
(* before it is closed; no score is taken back.                            *)
ClosedKept ==
  \A c \in Calls :
    /\ record[c].st = "closed" =>
         /\ record'[c].st = "closed"
         /\ record'[c].lines = record[c].lines /\ record'[c].esc = record[c].esc
    /\ record[c].esc => record'[c].st \in {"open", "closed"} /\ record'[c].esc
    /\ scores'[c] >= scores[c]

=============================================================================
