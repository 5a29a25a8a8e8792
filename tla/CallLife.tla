------------------------------ MODULE CallLife ------------------------------
(***************************************************************************)
(* The life of a call: its job in the voice worker (entrypoint), with the  *)
(* timer that minds a silent caller; its row of table calls, which the     *)
(* API inserts, the tools and the worker update, and a restart of the API  *)
(* repairs or purges; its transcript, its score and the specialist's       *)
(* summary.  Worker and API are processes of their own and share the       *)
(* database.                                                               *)
(*                                                                         *)
(* Time is counted in thresholds of the timer: 25, 55 and 90 seconds are   *)
(* 1, 2 and 3.                                                             *)
(***************************************************************************)
EXTENDS Naturals

CONSTANTS
  Calls,
  MaxFaults,    \* bound: failed writes, lost events, crashes of the worker
  MaxRestarts,  \* bound: restarts of the API
  MaxTriggers   \* bound: scorings a supervisor asks for

ASSUME LifeBounds ==
  MaxFaults \in Nat /\ MaxRestarts \in Nat /\ MaxTriggers \in Nat

VARIABLES
  phase,     \* how far entrypoint is
  turn,      \* session.turn_state
  timer,     \* the silence timer
  quiet,     \* history: the time since the caller was last heard
  owed,      \* the AI has a reply under way
  esc,       \* session.escalated of the worker
  joined,    \* session.human_joined of the worker
  done,      \* call_done
  left,      \* the caller is gone
  hist,      \* conversation_history is not empty
  who,       \* session.customer_id of the worker is set
  row,       \* the call's row
  known,     \* the API has a session of the call
  event,     \* call_ended is on its way
  due,       \* scorings that are scheduled
  scoring,   \* scorings that have read the transcript
  evals,     \* rows of eval_scores
  faults, restarts, triggers

voice == <<turn, timer, quiet, owed>>
flags == <<esc, joined, done, left, hist, who>>
qa == <<due, scoring, evals>>
bounds == <<faults, restarts, triggers>>
vars == <<phase, turn, timer, quiet, owed, esc, joined, done, left, hist, who, row,
          known, event, due, scoring, evals, faults, restarts, triggers>>

Phases == {"none", "waiting", "talk", "human", "ending", "ended", "gone"}

Row == [there : BOOLEAN, ended : BOOLEAN, esc : BOOLEAN, lines : BOOLEAN,
        res : {"none", "resolved", "escalated", "acw"}, acw : BOOLEAN,
        cust : {"none", "named", "guessed"}]

LifeTypeOK ==
  /\ phase \in [Calls -> Phases]
  /\ turn \in [Calls -> {"idle", "user", "assistant"}]
  /\ timer \in [Calls -> [run : {"off", "wait", "speak"}, next : 0..3,
                          elapsed : 0..3]]
  /\ \A c \in Calls : timer[c].run = "speak" =>
       timer[c].next < 3 /\ timer[c].elapsed = timer[c].next + 1
  /\ quiet \in [Calls -> 0..3]
  /\ owed \in [Calls -> BOOLEAN] /\ esc \in [Calls -> BOOLEAN]
  /\ joined \in [Calls -> BOOLEAN] /\ done \in [Calls -> BOOLEAN]
  /\ left \in [Calls -> BOOLEAN] /\ hist \in [Calls -> BOOLEAN]
  /\ who \in [Calls -> BOOLEAN]
  /\ row \in [Calls -> Row]
  /\ known \in [Calls -> BOOLEAN] /\ event \in [Calls -> BOOLEAN]
  /\ due \in [Calls -> 0..(MaxTriggers + 1)]
  /\ scoring \in [Calls -> 0..(MaxTriggers + 1)]
  /\ evals \in [Calls -> 0..(MaxTriggers + 1)]
  /\ faults \in 0..MaxFaults
  /\ restarts \in 0..MaxRestarts
  /\ triggers \in 0..MaxTriggers

NoRow == [there |-> FALSE, ended |-> FALSE, esc |-> FALSE, lines |-> FALSE,
          res |-> "none", acw |-> FALSE, cust |-> "none"]
Stopped == [run |-> "off", next |-> 0, elapsed |-> 0]

Init ==
  /\ phase = [c \in Calls |-> "none"]
  /\ turn = [c \in Calls |-> "idle"]
  /\ timer = [c \in Calls |-> Stopped]
  /\ quiet = [c \in Calls |-> 0]
  /\ owed = [c \in Calls |-> FALSE] /\ esc = [c \in Calls |-> FALSE]
  /\ joined = [c \in Calls |-> FALSE] /\ done = [c \in Calls |-> FALSE]
  /\ left = [c \in Calls |-> FALSE] /\ hist = [c \in Calls |-> FALSE]
  /\ who = [c \in Calls |-> FALSE]
  /\ row = [c \in Calls |-> NoRow]
  /\ known = [c \in Calls |-> FALSE] /\ event = [c \in Calls |-> FALSE]
  /\ due = [c \in Calls |-> 0] /\ scoring = [c \in Calls |-> 0]
  /\ evals = [c \in Calls |-> 0]
  /\ faults = 0 /\ restarts = 0 /\ triggers = 0

Fault == faults < MaxFaults /\ faults' = faults + 1
         /\ UNCHANGED <<restarts, triggers>>

-----------------------------------------------------------------------------
(* The job.                                                                *)

(* start_call inserts the row; when that fails it is logged.  The room's   *)
(* job is dispatched.                                                      *)
Start(c) ==
  /\ phase[c] = "none"
  /\ phase' = [phase EXCEPT ![c] = "waiting"]
  /\ known' = [known EXCEPT ![c] = TRUE]
  /\ \/ row' = [row EXCEPT ![c].there = TRUE] /\ UNCHANGED bounds
     \/ UNCHANGED row /\ Fault
  /\ UNCHANGED <<voice, flags, event, qa>>

(* The caller's browser joins the room; the greeting is spoken.            *)
Join(c) ==
  /\ phase[c] = "waiting"
  /\ phase' = [phase EXCEPT ![c] = "talk"]
  /\ owed' = [owed EXCEPT ![c] = TRUE]
  /\ UNCHANGED <<turn, timer, quiet, flags, row, known, event, qa, bounds>>

(* Nobody joined in two minutes: the job ends, and its row stays as it is. *)
Abandon(c) ==
  /\ phase[c] = "waiting"
  /\ phase' = [phase EXCEPT ![c] = "gone"]
  /\ UNCHANGED <<voice, flags, row, known, event, qa, bounds>>

(* Variant: reset leaves the elapsed time. *)
HaltsKept(c) == [timer EXCEPT ![c].run = "off", ![c].next = 0]
Halts(c) == [timer EXCEPT ![c] = Stopped]

(* Variant: beside a specialist, a caller who leaves ends nothing. *)
DepartsUnjoined(c) == [done EXCEPT ![c] = @ \/ ~joined[c]]
Departs(c) == [done EXCEPT ![c] = TRUE]

(* The caller leaves, or the room was deleted by the specialist.           *)
Leave(c) ==
  /\ phase[c] \in {"talk", "human"} /\ ~left[c]
  /\ left' = [left EXCEPT ![c] = TRUE]
  /\ done' = Departs(c)
  /\ timer' = Halts(c)
  /\ UNCHANGED <<phase, turn, quiet, owed, esc, joined, hist, who, row, known, event,
                 qa, bounds>>

(* What entrypoint waits for.                                              *)
TakeOver(c) ==
  /\ phase[c] = "talk" /\ joined[c] /\ ~done[c]
  /\ phase' = [phase EXCEPT ![c] = "human"]
  /\ UNCHANGED <<voice, flags, row, known, event, qa, bounds>>

(* Variant: the end is awaited before a specialist joins only. *)
OverTalking(c) == phase[c] = "talk" /\ done[c]
Over(c) == phase[c] \in {"talk", "human"} /\ done[c]

WrapUp(c) ==
  /\ Over(c)
  /\ phase' = [phase EXCEPT ![c] = "ending"]
  /\ UNCHANGED <<voice, flags, row, known, event, qa, bounds>>

(* Variant: the outcome of every call is a resolution. *)
OutcomeResolved(c) == "resolved"
Outcome(c) == IF esc[c] THEN "escalated" ELSE "resolved"

End(c) == [row[c] EXCEPT !.ended = TRUE, !.res = Outcome(c), !.lines = hist[c],
                         !.cust = IF @ = "none" /\ who[c] THEN "named" ELSE @]

(* Variant: the transcript is written first, in a transaction of its own. *)
RecordsLinesFirst(c) ==
  \/ row' = [row EXCEPT ![c] = End(c)] /\ UNCHANGED bounds
  \/ row' = [row EXCEPT ![c].lines = hist[c]] /\ Fault

(* _persist_call_end: the row's end, its outcome, its customer unless it   *)
(* has one, and the transcript are one transaction.  No row: nothing to    *)
(* update, nothing to refer to.                                            *)
Records(c) ==
  \/ /\ row' = IF row[c].there THEN [row EXCEPT ![c] = End(c)] ELSE row
     /\ UNCHANGED bounds
  \/ UNCHANGED row /\ Fault

Persist(c) ==
  /\ phase[c] = "ending"
  /\ phase' = [phase EXCEPT ![c] = "ended"]
  /\ Records(c)
  /\ UNCHANGED <<voice, flags, known, event, qa>>

(* The event is posted when the row is written, or failed to be.           *)
Notify(c) ==
  /\ phase[c] = "ended"
  /\ phase' = [phase EXCEPT ![c] = "gone"]
  /\ \/ event' = [event EXCEPT ![c] = TRUE] /\ UNCHANGED bounds
     \/ UNCHANGED event /\ Fault
  /\ UNCHANGED <<voice, flags, row, known, qa>>

(* The worker's process ends without its cleanup.                          *)
Crash(c) ==
  /\ phase[c] \notin {"none", "gone"}
  /\ Fault
  /\ phase' = [phase EXCEPT ![c] = "gone"]
  /\ timer' = Halts(c)
  /\ UNCHANGED <<turn, quiet, owed, flags, row, known, event, qa>>

-----------------------------------------------------------------------------
(* Turns, and the timer that minds them.                                   *)

Live(c) == phase[c] \in {"talk", "human"} /\ ~done[c]
Quiets(c) == esc[c] \/ joined[c]

(* on_user_transcribed, final: the timer is reset.                         *)
Heard(c) ==
  /\ Live(c)
  /\ turn' = [turn EXCEPT ![c] = "user"]
  /\ timer' = Halts(c)
  /\ quiet' = [quiet EXCEPT ![c] = 0]
  /\ UNCHANGED <<phase, owed, flags, row, known, event, qa, bounds>>

(* on_item_added, user: the turn that was heard, or a key that was         *)
(* pressed.  The timer is not reset here.                                  *)
UserItem(c) ==
  /\ Live(c) /\ ~Quiets(c)
  /\ turn' = [turn EXCEPT ![c] = "user"]
  /\ owed' = [owed EXCEPT ![c] = TRUE]
  /\ hist' = [hist EXCEPT ![c] = TRUE]
  /\ UNCHANGED <<phase, timer, quiet, esc, joined, done, left, who, row, known, event,
                 qa, bounds>>

(* start() begins a new run with the elapsed time of the last.             *)
Restarts(c) == [timer EXCEPT ![c].run = "wait", ![c].next = 0]

(* on_item_added, assistant: what was spoken.                              *)
Added(c) ==
  /\ turn' = [turn EXCEPT ![c] = "assistant"]
  /\ timer' = Restarts(c)
  /\ hist' = [hist EXCEPT ![c] = TRUE]

Reply(c) ==
  /\ Live(c) /\ ~Quiets(c) /\ owed[c]
  /\ owed' = [owed EXCEPT ![c] = FALSE]
  /\ Added(c)
  /\ UNCHANGED <<phase, quiet, esc, joined, done, left, who, row, known, event, qa,
                 bounds>>

(* should_pause_silence_timer. *)
Counts(c) ==
  /\ timer[c].run = "wait" /\ timer[c].next < 3
  /\ timer[c].elapsed < timer[c].next + 1
  /\ turn[c] # "assistant"

Tick(c) ==
  /\ Live(c)
  /\ quiet[c] < 3 \/ Counts(c)
  /\ quiet' = [quiet EXCEPT ![c] = IF @ < 3 THEN @ + 1 ELSE @]
  /\ timer' = IF Counts(c) THEN [timer EXCEPT ![c].elapsed = @ + 1] ELSE timer
  /\ UNCHANGED <<phase, turn, owed, flags, row, known, event, qa, bounds>>

(* A threshold is reached: its callback speaks, and waits for the speech.  *)
Fire(c) ==
  /\ Live(c)
  /\ timer[c].run = "wait" /\ timer[c].next < 3
  /\ timer[c].elapsed >= timer[c].next + 1
  /\ timer' = [timer EXCEPT ![c].run = "speak", ![c].elapsed = timer[c].next + 1]
  /\ UNCHANGED <<phase, turn, quiet, owed, flags, row, known, event, qa, bounds>>

Returned(c) ==
  [timer EXCEPT ![c].next = @ + 1,
                ![c].run = IF timer[c].next = 2 THEN "off" ELSE "wait"]

(* The callback returns; after the last one the call is over.              *)
Goodbye(c) == done' = [done EXCEPT ![c] = @ \/ timer[c].next = 2]

(* Spoken, the item is added while the callback waits: start() cancels the *)
(* callback with its run, and what was to follow the speech does not.      *)
Nudged(c) ==
  /\ Live(c) /\ timer[c].run = "speak" /\ ~Quiets(c)
  /\ Added(c)
  /\ UNCHANGED <<phase, quiet, owed, esc, joined, done, left, who, row, known, event,
                 qa, bounds>>

(* Interrupted before anything was spoken, or by the guard of an           *)
(* escalation: no item, and the callback returns.                          *)
NudgeCut(c) ==
  /\ Live(c) /\ timer[c].run = "speak"
  /\ timer' = Returned(c)
  /\ Goodbye(c)
  /\ UNCHANGED <<phase, turn, quiet, owed, esc, joined, left, hist, who, row, known,
                 event, qa, bounds>>

-----------------------------------------------------------------------------
(* The tools and the specialist.                                           *)

(* verify_account finds a customer: the session is theirs from then on.    *)
Identify(c) ==
  /\ Live(c) /\ ~Quiets(c) /\ owed[c]
  /\ who' = [who EXCEPT ![c] = TRUE]
  /\ UNCHANGED <<phase, voice, esc, joined, done, left, hist, row, known, event,
                 qa, bounds>>

(* The worker's escalate_to_human marks its session, then the row.         *)
Escalate(c) ==
  /\ Live(c) /\ ~Quiets(c)
  /\ esc' = [esc EXCEPT ![c] = TRUE]
  /\ \/ row' = [row EXCEPT ![c].esc = row[c].there] /\ UNCHANGED bounds
     \/ UNCHANGED row /\ Fault
  /\ UNCHANGED <<phase, voice, joined, done, left, hist, who, known, event, qa>>

(* The button's runs in the API: the worker's session stays.               *)
EscalateByButton(c) ==
  /\ known[c] /\ phase[c] = "talk" /\ ~left[c] /\ row[c].there /\ ~row[c].esc
  /\ row' = [row EXCEPT ![c].esc = TRUE]
  /\ UNCHANGED <<phase, voice, flags, known, event, qa, bounds>>

(* The specialist answers: human_agent_accepted.                           *)
Accept(c) ==
  /\ phase[c] = "talk" /\ ~left[c] /\ ~joined[c] /\ (esc[c] \/ row[c].esc)
  /\ joined' = [joined EXCEPT ![c] = TRUE]
  /\ timer' = Halts(c)
  /\ UNCHANGED <<phase, turn, quiet, owed, esc, done, left, hist, who, row, known,
                 event, qa, bounds>>

(* The summary of a call that is over, which the desktop offers once       *)
(* (acwSubmitted): _persist_acw.                                           *)
SubmitAcw(c) ==
  /\ joined[c] /\ left[c] /\ known[c] /\ ~row[c].acw /\ row[c].there
  /\ row' = [row EXCEPT ![c].acw = TRUE, ![c].res = "acw"]
  /\ UNCHANGED <<phase, voice, flags, known, event, qa, bounds>>

-----------------------------------------------------------------------------
(* The API.                                                                *)

(* call_ended schedules a scoring.                                         *)
Ended(c) ==
  /\ event[c]
  /\ event' = [event EXCEPT ![c] = FALSE]
  /\ due' = [due EXCEPT ![c] = @ + 1]
  /\ UNCHANGED <<phase, voice, flags, row, known, scoring, evals, bounds>>

Trigger(c) ==
  /\ triggers < MaxTriggers /\ phase[c] # "none"
  /\ triggers' = triggers + 1
  /\ due' = [due EXCEPT ![c] = @ + 1]
  /\ UNCHANGED <<phase, voice, flags, row, known, event, scoring, evals, faults,
                 restarts>>

(* Variant: what has no transcript is scored by default. *)
ScoredAlways(c) == TRUE
Scored(c) == row[c].there /\ row[c].lines

(* score_call reads the transcript; without one there is no score.         *)
Fetch(c) ==
  /\ due[c] > 0
  /\ due' = [due EXCEPT ![c] = @ - 1]
  /\ scoring' = [scoring EXCEPT ![c] = IF Scored(c) THEN @ + 1 ELSE @]
  /\ UNCHANGED <<phase, voice, flags, row, known, event, evals, bounds>>

Scores(c) == [evals EXCEPT ![c] = @ + 1]

(* The model's answer, or the default scores when it fails, are written.   *)
Score(c) ==
  /\ scoring[c] > 0
  /\ scoring' = [scoring EXCEPT ![c] = @ - 1]
  /\ \/ evals' = (IF row[c].there THEN Scores(c) ELSE evals) /\ UNCHANGED bounds
     \/ UNCHANGED evals /\ Fault
  /\ UNCHANGED <<phase, voice, flags, row, known, event, due>>

(* Variant: whatever was not escalated. *)
StubNotEscalated(r) == ~r.esc
(* A stub: no duration, not escalated, no outcome the purge knows.         *)
Stub(r) == ~r.ended /\ ~r.esc /\ r.res \notin {"resolved", "escalated"}

(* Variant: a customer that is there is guessed again. *)
UnlinkedAny(r) == r.lines
(* A call that ended with no customer, and something was said in it.       *)
Unlinked(r) == r.lines /\ r.cust = "none"

(* _backfill_call_fields, one transaction: the stubs are deleted, and what *)
(* is unlinked may be linked to whoever a number or a name in its          *)
(* transcript brings to mind.  A row that ended has duration and outcome.  *)
Repairs(r) ==
  IF Stub(r) THEN {NoRow}
  ELSE {r} \cup {[q EXCEPT !.cust = "guessed"] : q \in {x \in {r} : Unlinked(x)}}

(* The API restarts: its sessions and tasks are gone, and the rows are     *)
(* repaired, or are not.                                                   *)
RestartApi ==
  /\ restarts < MaxRestarts
  /\ restarts' = restarts + 1
  /\ \/ /\ row' \in [Calls -> UNION {Repairs(row[c]) : c \in Calls}]
        /\ \A c \in Calls : row'[c] \in Repairs(row[c])
        /\ UNCHANGED faults
     \/ UNCHANGED row /\ faults < MaxFaults /\ faults' = faults + 1
  /\ known' = [c \in Calls |-> FALSE]
  /\ due' = [c \in Calls |-> 0] /\ scoring' = [c \in Calls |-> 0]
  /\ UNCHANGED <<phase, voice, flags, event, evals, triggers>>

-----------------------------------------------------------------------------
Job(c) == TakeOver(c) \/ WrapUp(c) \/ Persist(c) \/ Notify(c)
Timer(c) == Tick(c) \/ Fire(c) \/ Nudged(c) \/ NudgeCut(c)
Scoring(c) == Ended(c) \/ Fetch(c) \/ Score(c)

Next ==
  \/ \E c \in Calls :
       \/ Start(c) \/ Join(c) \/ Abandon(c) \/ Leave(c) \/ Job(c) \/ Crash(c)
       \/ Heard(c) \/ UserItem(c) \/ Reply(c) \/ Timer(c)
       \/ Identify(c) \/ Escalate(c) \/ EscalateByButton(c) \/ Accept(c) \/ SubmitAcw(c)
       \/ Trigger(c) \/ Scoring(c)
  \/ RestartApi

Spec == Init /\ [][Next]_vars

(* The tasks of both processes go on, and time passes.                     *)
FairSpec ==
  /\ Spec
  /\ \A c \in Calls : WF_vars(Job(c)) /\ WF_vars(Timer(c)) /\ WF_vars(Scoring(c))

-----------------------------------------------------------------------------
(* Properties.                                                             *)

(* Through resets, restarts that keep the elapsed time, pauses and         *)
(* cancelled callbacks, a caller is never nudged, nor a call closed, for a *)
(* silence that was shorter than the threshold.                            *)
SilenceCounted ==
  \A c \in Calls : Live(c) => timer[c].elapsed <= quiet[c]

(* A call ends as a whole: the row has its transcript from the moment it   *)
(* has its end, and not before, whatever fails or crashes.                 *)
RecordedWhole ==
  \A c \in Calls : /\ row[c].ended => row[c].lines = hist[c]
                   /\ row[c].lines => row[c].ended

(* A call that was escalated aloud does not count as contained (the KPIs   *)
(* of calls.py:305), unless its end was not recorded.                      *)
EscalationsCounted ==
  \A c \in Calls : row[c].ended /\ esc[c] => row[c].res # "resolved"

(* A call whose caller was known is linked to that caller, and the guess   *)
(* that the API makes from a transcript after a restart (main.py:242)      *)
(* never replaces a caller who was known.                                  *)
CallerLinked ==
  \A c \in Calls : who[c] => /\ row[c].ended => row[c].cust = "named"
                             /\ row[c].cust # "guessed"

(* The row of a call that is over tells the call: transcript, outcome and  *)
(* caller.                                                                 *)
RowTellsTheCall == RecordedWhole /\ EscalationsCounted /\ CallerLinked

(* There is a score only where there was a transcript, and no more of them *)
(* than the end of the call and supervisors asked for.                     *)
ScoresEarned ==
  \A c \in Calls : /\ evals[c] > 0 \/ scoring[c] > 0 => hist[c]
                   /\ evals[c] <= triggers + 1

(* The row of a call as its readers see it. *)
RecordOf(c) ==
  [st |-> IF phase[c] = "none" THEN "new"
          ELSE IF ~row[c].there THEN "lost"
          ELSE IF row[c].ended THEN "closed" ELSE "open",
   esc |-> row[c].esc, lines |-> row[c].lines, res |-> row[c].res,
   acw |-> row[c].acw, cust |-> row[c].cust]

(* Whatever the worker, the tools, the specialist and a restart of the API *)
(* write, and whichever of them fail or come late: a record is opened and  *)
(* closed once, what is closed is never purged, closed again or given      *)
(* another transcript, and a score is written only where it is closed.     *)
Record == INSTANCE CallRecord WITH record <- [c \in Calls |-> RecordOf(c)],
                                   scores <- evals
RecordKept == Record!RecordSpec

(* Whoever leaves is recorded and scored, when nothing fails.              *)
LeaversRecorded ==
  \A c \in Calls : left[c] ~>
    \/ row[c].ended /\ (hist[c] => evals[c] > 0)
    \/ faults > 0 \/ restarts > 0

(* A job whose call is over ends.                                          *)
JobsEnd == \A c \in Calls : done[c] ~> phase[c] = "gone"

(* A call that is over gets done with: its job, its row and its score.     *)
CallsGetDone == LeaversRecorded /\ JobsEnd

-----------------------------------------------------------------------------
(* What the repository says and the code refutes.                          *)

(* "25s nudge, 55s follow-up, 90s goodbye + close" (agent_session.py:283): *)
(* a caller who was not heard for 90 seconds is taken leave of.            *)
GoodbyeComes ==
  \A c \in Calls :
    (Live(c) /\ ~Quiets(c) /\ quiet[c] = 3) ~> (~Live(c) \/ Quiets(c) \/ quiet[c] < 3)

(* The backfill "purges stub calls" that completed before                  *)
(* (main.py:178-180): the row of a call in progress stays.                 *)
LiveRowKept ==
  [][\A c \in Calls : Live(c) /\ row[c].there => row'[c].there]_vars

=============================================================================
