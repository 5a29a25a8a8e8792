--------------------------- MODULE CallLifeProofs ---------------------------
(***************************************************************************)
(* Proofs about CallLife, for any number of calls and every bound.  The    *)
(* invariant has a part for each thing the two processes share: the types, *)
(* the elapsed time of the timer, the row of the call, and the scorings.   *)
(* For each part a lemma says which actions can touch its variables; only  *)
(* those are looked at one by one.  Last, what all of them write to a row  *)
(* implements CallRecord.                                                  *)
(***************************************************************************)
EXTENDS CallLife, TLAPS

(* The clock of the timer is never ahead of the silence, whatever the job  *)
(* is doing.                                                               *)
Clocked == \A c \in Calls : timer[c].elapsed <= quiet[c]

TimerStates == [run : {"off", "wait", "speak"}, next : 0..3, elapsed : 0..3]

ClockTypes ==
  /\ timer \in [Calls -> TimerStates]
  /\ quiet \in [Calls -> 0..3]
  /\ \A c \in Calls : timer[c].run = "speak" =>
       timer[c].next < 3 /\ timer[c].elapsed = timer[c].next + 1

ClockInv == ClockTypes /\ Clocked

(* The actions that touch the timer or the silence. *)
ClockActs(c) ==
  \/ Leave(c) \/ Crash(c) \/ Heard(c) \/ Reply(c) \/ Tick(c) \/ Fire(c)
  \/ Nudged(c) \/ NudgeCut(c) \/ Accept(c)

LEMMA ClockTouched ==
  ASSUME [Next]_vars, ~ UNCHANGED <<timer, quiet>>
  PROVE  \E c \in Calls : ClockActs(c)
  BY DEF Next, vars, voice, flags, qa, bounds, ClockActs, Job, Timer, Scoring, Start,
         Join, Abandon, TakeOver, WrapUp, Persist, Notify, UserItem, Identify, Escalate,
         EscalateByButton, SubmitAcw, Trigger, Ended, Fetch, Score, RestartApi

LEMMA ClockInit == Init => ClockInv
  BY DEF Init, ClockInv, ClockTypes, TimerStates, Clocked, Stopped

(* What every action that touches the clock does to it. *)
ClockMoves(c) ==
  \/ timer' = Halts(c) /\ (quiet' = quiet \/ quiet' = [quiet EXCEPT ![c] = 0])
  \/ timer' = Restarts(c) /\ quiet' = quiet
  \/ /\ quiet' = [quiet EXCEPT ![c] = IF @ < 3 THEN @ + 1 ELSE @]
     /\ timer' = IF Counts(c) THEN [timer EXCEPT ![c].elapsed = @ + 1] ELSE timer
  \/ /\ timer[c].run = "wait" /\ timer[c].next < 3
     /\ timer[c].elapsed >= timer[c].next + 1
     /\ timer' = [timer EXCEPT ![c].run = "speak", ![c].elapsed = timer[c].next + 1]
     /\ quiet' = quiet
  \/ timer[c].run = "speak" /\ timer' = Returned(c) /\ quiet' = quiet

LEMMA ClockMoved ==
  ASSUME NEW c \in Calls, ClockActs(c)
  PROVE  ClockMoves(c)
  BY DEF ClockActs, ClockMoves, Leave, Crash, Heard, Reply, Tick, Fire, Nudged,
         NudgeCut, Accept, Added, voice, flags

LEMMA ClockStep == ClockInv /\ [Next]_vars => ClockInv'
  <1> SUFFICES ASSUME ClockInv, [Next]_vars
               PROVE  ClockInv'
    OBVIOUS
  <1>1. CASE UNCHANGED <<timer, quiet>>
    BY <1>1 DEF ClockInv, ClockTypes, Clocked
  <1>2. CASE ~ UNCHANGED <<timer, quiet>>
    <2>1. PICK c \in Calls : ClockMoves(c)
      BY <1>2, ClockTouched, ClockMoved
    <2>2. timer' \in [Calls -> TimerStates] /\ quiet' \in [Calls -> 0..3]
      BY <2>1 DEF ClockInv, ClockTypes, TimerStates, ClockMoves, Halts, Stopped,
                  Restarts, Counts, Returned
    <2>3. ASSUME NEW d \in Calls
          PROVE  /\ timer'[d].run = "speak" =>
                      timer'[d].next < 3 /\ timer'[d].elapsed = timer'[d].next + 1
                 /\ timer'[d].elapsed <= quiet'[d]
      BY <2>1 DEF ClockInv, ClockTypes, TimerStates, Clocked, ClockMoves, Halts,
                  Stopped, Restarts, Counts, Returned
    <2> QED  BY <2>2, <2>3 DEF ClockInv, ClockTypes, Clocked
  <1> QED  BY <1>1, <1>2

(* Through resets, restarts, pauses and cancelled callbacks of the timer,  *)
(* no caller is nudged for a silence shorter than the threshold.           *)
THEOREM SilenceIsCounted == Spec => []SilenceCounted
  <1>1. ClockInv => SilenceCounted
    BY DEF ClockInv, Clocked, SilenceCounted
  <1> QED  BY <1>1, ClockInit, ClockStep, PTL DEF Spec

-----------------------------------------------------------------------------
(* The row of a call and what the worker knows of it: a row has its end    *)
(* only when the job is past _persist_call_end, where nothing of the       *)
(* worker's session changes any more; a guessed caller is that of a call   *)
(* that ended with nobody known.                                           *)
SessionTypes ==
  /\ phase \in [Calls -> Phases]
  /\ esc \in [Calls -> BOOLEAN] /\ hist \in [Calls -> BOOLEAN]
  /\ who \in [Calls -> BOOLEAN]

RowTypes == row \in [Calls -> Row]

Settles(c) ==
  /\ row[c].ended => phase[c] \in {"ended", "gone"}
  /\ row[c].ended => row[c].lines = hist[c]
  /\ row[c].ended /\ esc[c] => row[c].res # "resolved"
  /\ row[c].ended /\ who[c] => row[c].cust = "named"
  /\ row[c].lines => row[c].ended
  /\ row[c].cust = "guessed" => row[c].ended /\ ~who[c]

RowInv == SessionTypes /\ RowTypes /\ \A c \in Calls : Settles(c)

sessionRow == <<phase, esc, hist, who, row>>

(* The actions of one call that touch these. *)
RowActs(c) ==
  \/ Start(c) \/ Join(c) \/ Abandon(c) \/ TakeOver(c) \/ WrapUp(c) \/ Persist(c)
  \/ Notify(c) \/ Crash(c) \/ UserItem(c) \/ Reply(c) \/ Nudged(c) \/ Identify(c)
  \/ Escalate(c) \/ EscalateByButton(c) \/ SubmitAcw(c)

LEMMA RowTouched ==
  ASSUME [Next]_vars, ~ UNCHANGED sessionRow, ~RestartApi
  PROVE  \E c \in Calls : RowActs(c)
  BY DEF Next, vars, voice, flags, qa, bounds, sessionRow, RowActs, Job, Timer, Scoring,
         Leave, Heard, Tick, Fire, NudgeCut, Accept, Trigger, Ended, Fetch, Score

LEMMA NoRowIsRow == NoRow \in Row
  BY DEF NoRow, Row

LEMMA RowInit == Init => RowInv
  <1> SUFFICES ASSUME Init
               PROVE  RowInv
    OBVIOUS
  <1>1. SessionTypes
    BY DEF Init, SessionTypes, Phases
  <1>2. RowTypes
    BY NoRowIsRow DEF Init, RowTypes
  <1>3. \A c \in Calls : ~row[c].ended /\ ~row[c].lines /\ row[c].cust = "none"
    BY DEF Init, NoRow
  <1> QED  BY <1>1, <1>2, <1>3 DEF RowInv, Settles

(* What one call's actions do to its session and its row. *)
RowMoves(c) ==
  \/ \E p \in Phases :
       /\ phase' = [phase EXCEPT ![c] = p]
       /\ phase[c] \in {"ended", "gone"} => p = "gone"
       /\ UNCHANGED <<esc, hist, who>>
       /\ row' = row \/ row' = [row EXCEPT ![c].there = TRUE]
  \/ /\ phase[c] \in {"talk", "human"} /\ UNCHANGED <<phase, row>>
     /\ \/ hist' = [hist EXCEPT ![c] = TRUE] /\ UNCHANGED <<esc, who>>
        \/ who' = [who EXCEPT ![c] = TRUE] /\ UNCHANGED <<esc, hist>>
  \/ /\ phase[c] \in {"talk", "human"} /\ UNCHANGED <<phase, hist, who>>
     /\ esc' = [esc EXCEPT ![c] = TRUE]
     /\ row' = row \/ row' = [row EXCEPT ![c].esc = row[c].there]
  \/ /\ phase[c] = "ending" /\ phase' = [phase EXCEPT ![c] = "ended"]
     /\ UNCHANGED <<esc, hist, who>>
     /\ row' = row \/ row' = [row EXCEPT ![c] = End(c)]
  \/ /\ UNCHANGED <<phase, esc, hist, who>>
     /\ \/ row' = [row EXCEPT ![c].esc = TRUE]
        \/ row' = [row EXCEPT ![c].acw = TRUE, ![c].res = "acw"]

LEMMA RowMoved ==
  ASSUME NEW c \in Calls, RowActs(c), RowInv
  PROVE  RowMoves(c)
  <1>1. CASE Start(c) \/ Join(c) \/ Abandon(c) \/ TakeOver(c) \/ WrapUp(c) \/ Notify(c)
              \/ Crash(c)
    BY <1>1 DEF Start, Join, Abandon, TakeOver, WrapUp, Notify, Crash, RowMoves, Over,
                RowInv, SessionTypes, Settles, Phases, flags
  <1>2. CASE UserItem(c) \/ Reply(c) \/ Nudged(c) \/ Identify(c) \/ Escalate(c)
    BY <1>2 DEF UserItem, Reply, Nudged, Identify, Escalate, RowMoves, Live, Added
  <1>3. CASE Persist(c) \/ EscalateByButton(c) \/ SubmitAcw(c)
    BY <1>3 DEF Persist, Records, EscalateByButton, SubmitAcw, RowMoves, flags
  <1> QED  BY <1>1, <1>2, <1>3 DEF RowActs

(* The end of a call, written at once. *)
LEMMA EndSettles ==
  ASSUME RowInv, NEW c \in Calls, phase[c] = "ending"
  PROVE  /\ End(c) \in Row
         /\ End(c).ended /\ End(c).lines = hist[c]
         /\ esc[c] => End(c).res # "resolved"
         /\ who[c] => End(c).cust = "named"
         /\ End(c).cust # "guessed"
  <1>1. row[c] \in Row /\ hist[c] \in BOOLEAN /\ Settles(c)
    BY DEF RowInv, SessionTypes, RowTypes
  <1>2. Outcome(c) \in {"resolved", "escalated"} /\ (esc[c] => Outcome(c) # "resolved")
    BY DEF Outcome
  <1>3. End(c) \in Row
    BY <1>1, <1>2 DEF End, Row
  <1>4. /\ End(c).ended /\ End(c).lines = hist[c] /\ End(c).res = Outcome(c)
        /\ End(c).cust = IF row[c].cust = "none" /\ who[c] THEN "named" ELSE row[c].cust
    BY <1>1 DEF End, Row
  <1>5. ~row[c].ended
    BY <1>1 DEF Settles
  <1> QED  BY <1>1, <1>2, <1>3, <1>4, <1>5 DEF Settles, Row

(* What a restart of the API leaves of a row. *)
LEMMA RepairSettles ==
  ASSUME RowInv, NEW c \in Calls, NEW r \in Repairs(row[c])
  PROVE  /\ r \in Row
         /\ \/ r = NoRow
            \/ r = row[c]
            \/ /\ row[c].cust = "none" /\ row[c].lines
               /\ r = [row[c] EXCEPT !.cust = "guessed"]
  <1>1. row[c] \in Row /\ NoRow \in Row
    BY NoRowIsRow DEF RowInv, RowTypes
  <1>2. \/ r = NoRow
        \/ r = row[c]
        \/ /\ row[c].cust = "none" /\ row[c].lines
           /\ r = [row[c] EXCEPT !.cust = "guessed"]
    BY DEF Repairs, Unlinked
  <1> QED  BY <1>1, <1>2 DEF Row

LEMMA RowStep == RowInv /\ [Next]_vars => RowInv'
  <1> SUFFICES ASSUME RowInv, [Next]_vars
               PROVE  RowInv'
    OBVIOUS
  <1>1. CASE UNCHANGED sessionRow
    BY <1>1 DEF sessionRow, RowInv, SessionTypes, RowTypes, Settles
  <1>2. CASE RestartApi
    <2>1. UNCHANGED <<phase, esc, hist, who>>
      BY <1>2 DEF RestartApi, flags
    <2>2. CASE row' = row
      BY <2>1, <2>2 DEF RowInv, SessionTypes, RowTypes, Settles
    <2>3. CASE /\ row' \in [Calls -> UNION {Repairs(row[c]) : c \in Calls}]
               /\ \A c \in Calls : row'[c] \in Repairs(row[c])
      <3>1. RowTypes'
        BY <2>3, RepairSettles DEF RowTypes
      <3>2. ASSUME NEW c \in Calls
            PROVE  Settles(c)'
        BY <2>1, <2>3, RepairSettles DEF RowInv, RowTypes, Row, NoRow, Settles
      <3> QED  BY <2>1, <3>1, <3>2 DEF RowInv, SessionTypes
    <2> QED  BY <1>2, <2>2, <2>3 DEF RestartApi
  <1>3. CASE ~ UNCHANGED sessionRow /\ ~RestartApi
    <2>1. PICK c \in Calls : RowMoves(c)
      BY <1>3, RowTouched, RowMoved
    <2>2. SessionTypes'
      BY <2>1 DEF RowInv, SessionTypes, RowMoves, Phases
    <2>3. RowTypes'
      <3>1. row[c] \in Row
        BY DEF RowInv, RowTypes
      <3>2. /\ [row[c] EXCEPT !.there = TRUE] \in Row
            /\ [row[c] EXCEPT !.esc = TRUE] \in Row
            /\ [row[c] EXCEPT !.esc = row[c].there] \in Row
            /\ [row[c] EXCEPT !.acw = TRUE, !.res = "acw"] \in Row
        BY <3>1 DEF Row
      <3> QED  BY <2>1, <3>2, EndSettles DEF RowInv, RowTypes, RowMoves
    <2>4. ASSUME NEW d \in Calls
          PROVE  Settles(d)'
      <3>1. CASE d # c
        BY <2>1, <3>1 DEF RowInv, SessionTypes, RowTypes, Settles, RowMoves
      <3>2. CASE d = c
        BY <2>1, <3>2, EndSettles
           DEF RowInv, SessionTypes, RowTypes, Row, Settles, RowMoves, Phases
      <3> QED  BY <3>1, <3>2
    <2> QED  BY <2>2, <2>3, <2>4 DEF RowInv
  <1> QED  BY <1>1, <1>2, <1>3

THEOREM RowInvariant == Spec => []RowInv
  BY RowInit, RowStep, PTL DEF Spec

(* Whatever fails or crashes, the row of a call has its transcript from    *)
(* the moment it has its end (_persist_call_end), and not before.          *)
THEOREM CallsRecordedWhole == Spec => []RecordedWhole
  <1>1. RowInv => RecordedWhole
    BY DEF RowInv, Settles, RecordedWhole
  <1> QED  BY <1>1, RowInvariant, PTL

(* No call the worker escalated is recorded as resolved.                   *)
THEOREM EscalationsAreCounted == Spec => []EscalationsCounted
  <1>1. RowInv => EscalationsCounted
    BY DEF RowInv, Settles, EscalationsCounted
  <1> QED  BY <1>1, RowInvariant, PTL

(* The backfill of a restart never gives a call whose caller was known to  *)
(* somebody else.                                                          *)
THEOREM CallersAreLinked == Spec => []CallerLinked
  <1>1. RowInv => CallerLinked
    BY DEF RowInv, Settles, CallerLinked
  <1> QED  BY <1>1, RowInvariant, PTL

(* Whatever fails, crashes or restarts, the row of a call that is over     *)
(* tells the call.                                                         *)
THEOREM RowsTellTheCall == Spec => []RowTellsTheCall
  <1>1. RecordedWhole /\ EscalationsCounted /\ CallerLinked => RowTellsTheCall
    BY DEF RowTellsTheCall
  <1> QED  BY <1>1, CallsRecordedWhole, EscalationsAreCounted, CallersAreLinked, PTL

-----------------------------------------------------------------------------
(* The scorings of a call, from those scheduled to those written, are at   *)
(* most the ones asked for and one for its end; that one is still to come  *)
(* while call_ended may be posted, or is on its way.                       *)
QaTypes ==
  /\ event \in [Calls -> BOOLEAN]
  /\ due \in [Calls -> Nat] /\ scoring \in [Calls -> Nat]
  /\ evals \in [Calls -> Nat]
  /\ triggers \in 0..MaxTriggers

Asked(c) == due[c] + scoring[c] + evals[c]
EndToCome(c) == event[c] \/ phase[c] # "gone"

Budget(c) ==
  /\ Asked(c) <= triggers + 1
  /\ EndToCome(c) => Asked(c) <= triggers
  /\ phase[c] # "gone" => ~event[c]

Transcribed(c) == evals[c] > 0 \/ scoring[c] > 0 => hist[c]

QaInv == QaTypes /\ \A c \in Calls : Budget(c) /\ Transcribed(c)

(* The actions that post, schedule, score, or end a job. *)
QaActs(c) ==
  Abandon(c) \/ Notify(c) \/ Crash(c) \/ Ended(c) \/ Trigger(c) \/ Fetch(c) \/ Score(c)

LEMMA QaInit == Init => QaInv
  <1> SUFFICES ASSUME Init
               PROVE  QaInv
    OBVIOUS
  <1>1. QaTypes
    BY LifeBounds DEF Init, QaTypes
  <1>2. ASSUME NEW c \in Calls
        PROVE  Budget(c) /\ Transcribed(c)
    BY DEF Init, Budget, Asked, Transcribed
  <1> QED  BY <1>1, <1>2 DEF QaInv

(* No other action ends a job, forgets what was said, or touches these.    *)
LEMMA QaTouched ==
  ASSUME [Next]_vars, ~RestartApi, ~ \E c \in Calls : QaActs(c), SessionTypes
  PROVE  /\ UNCHANGED <<event, due, scoring, evals, triggers>>
         /\ \A d \in Calls : phase[d] # "gone" => phase'[d] # "gone"
         /\ \A d \in Calls : hist[d] => hist'[d]
         /\ \A d \in Calls : phase[d] = "gone" => phase'[d] = "gone"
  <1>1. CASE UNCHANGED vars
    BY <1>1 DEF vars, flags, qa, bounds
  <1>2. CASE Next
    <2>1. PICK c \in Calls :
            \/ Start(c) \/ Join(c) \/ Leave(c) \/ TakeOver(c) \/ WrapUp(c) \/ Persist(c)
            \/ Heard(c) \/ UserItem(c) \/ Reply(c) \/ Timer(c) \/ Identify(c)
            \/ Escalate(c) \/ EscalateByButton(c) \/ Accept(c) \/ SubmitAcw(c)
      BY <1>2 DEF Next, Job, Scoring, QaActs
    <2>2. CASE Start(c) \/ Join(c) \/ TakeOver(c) \/ WrapUp(c) \/ Persist(c)
      <3>1. UNCHANGED <<event, due, scoring, evals, triggers, hist>>
        BY <2>2 DEF Start, Join, TakeOver, WrapUp, Persist, Records, Fault, bounds, qa,
                    flags
      <3>2. \E p \in Phases \ {"gone"} : phase' = [phase EXCEPT ![c] = p]
        BY <2>2 DEF Start, Join, TakeOver, WrapUp, Persist, Phases
      <3>3. phase[c] # "gone"
        BY <2>2 DEF Start, Join, TakeOver, WrapUp, Persist, Over
      <3> QED  BY <3>1, <3>2, <3>3 DEF SessionTypes
    <2>3. CASE \/ Leave(c) \/ Heard(c) \/ UserItem(c) \/ Reply(c) \/ Timer(c)
               \/ Identify(c) \/ Escalate(c) \/ EscalateByButton(c) \/ Accept(c)
               \/ SubmitAcw(c)
      <3>1. UNCHANGED <<event, due, scoring, evals, triggers, phase>>
        BY <2>3 DEF Leave, Heard, UserItem, Reply, Timer, Tick, Fire, Nudged, NudgeCut,
                    Identify, Escalate, EscalateByButton, Accept, SubmitAcw, Fault,
                    bounds, qa, flags
      <3>2. hist' = hist \/ hist' = [hist EXCEPT ![c] = TRUE]
        BY <2>3 DEF Leave, Heard, UserItem, Reply, Timer, Tick, Fire, Nudged, NudgeCut,
                    Added, Identify, Escalate, EscalateByButton, Accept, SubmitAcw, flags
      <3> QED  BY <3>1, <3>2 DEF SessionTypes
    <2> QED  BY <2>1, <2>2, <2>3
  <1> QED  BY <1>1, <1>2

(* A job that ends, with or without its event. *)
LEMMA JobEnds ==
  ASSUME QaInv, SessionTypes, NEW c \in Calls, Abandon(c) \/ Notify(c) \/ Crash(c)
  PROVE  QaInv'
  <1>1. /\ UNCHANGED <<due, scoring, evals, triggers, hist>>
        /\ phase' = [phase EXCEPT ![c] = "gone"] /\ phase[c] # "gone"
        /\ event' = event \/ event' = [event EXCEPT ![c] = TRUE]
    BY DEF Abandon, Notify, Crash, Fault, bounds, qa, flags
  <1>2. QaTypes'
    BY <1>1 DEF QaInv, QaTypes
  <1>3. ASSUME NEW d \in Calls
        PROVE  Budget(d)' /\ Transcribed(d)'
    <2>1. Asked(d)' = Asked(d) /\ triggers' = triggers /\ Transcribed(d)'
      BY <1>1 DEF Asked, QaInv, Transcribed
    <2>2. EndToCome(d)' => EndToCome(d)
      BY <1>1 DEF EndToCome, SessionTypes, QaInv, QaTypes
    <2>3. phase'[d] # "gone" => ~event'[d]
      BY <1>1 DEF QaInv, QaTypes, SessionTypes, Budget
    <2> QED  BY <2>1, <2>2, <2>3 DEF QaInv, Budget
  <1> QED  BY <1>2, <1>3 DEF QaInv

(* The event of a call that ended schedules a scoring. *)
LEMMA EndedKeeps ==
  ASSUME QaInv, SessionTypes, NEW c \in Calls, Ended(c)
  PROVE  QaInv'
  <1>1. /\ UNCHANGED <<scoring, evals, triggers, hist, phase>>
        /\ event[c] /\ event' = [event EXCEPT ![c] = FALSE]
        /\ due' = [due EXCEPT ![c] = @ + 1]
    BY DEF Ended, bounds, flags
  <1>2. QaTypes'
    BY <1>1 DEF QaInv, QaTypes
  <1>3. ASSUME NEW d \in Calls
        PROVE  Budget(d)' /\ Transcribed(d)'
    <2>1. CASE d = c
      <3>1. phase[c] = "gone" /\ Asked(c) <= triggers
        BY <1>1 DEF QaInv, Budget, EndToCome
      <3>2. Asked(c)' = Asked(c) + 1 /\ Asked(c) \in Nat /\ triggers \in Nat
        BY <1>1 DEF Asked, QaInv, QaTypes
      <3>3. ~event'[c]
        BY <1>1 DEF QaInv, QaTypes
      <3>4. Asked(c)' <= triggers' + 1
        BY <1>1, <3>1, <3>2
      <3> QED  BY <1>1, <2>1, <3>1, <3>3, <3>4
               DEF Budget, EndToCome, Transcribed, QaInv
    <2>2. CASE d # c
      BY <1>1, <2>2 DEF QaInv, QaTypes, Budget, Asked, EndToCome, Transcribed
    <2> QED  BY <2>1, <2>2
  <1> QED  BY <1>2, <1>3 DEF QaInv

(* A supervisor asks for one more. *)
LEMMA TriggerKeeps ==
  ASSUME QaInv, SessionTypes, NEW c \in Calls, Trigger(c)
  PROVE  QaInv'
  <1>1. /\ UNCHANGED <<scoring, evals, event, hist, phase>>
        /\ triggers < MaxTriggers /\ triggers' = triggers + 1
        /\ due' = [due EXCEPT ![c] = @ + 1]
    BY DEF Trigger, flags
  <1>2. QaTypes'
    BY <1>1, LifeBounds DEF QaInv, QaTypes
  <1>3. ASSUME NEW d \in Calls
        PROVE  Budget(d)' /\ Transcribed(d)'
    <2>1. /\ Asked(d)' = Asked(d) \/ Asked(d)' = Asked(d) + 1
          /\ Asked(d) \in Nat /\ triggers \in Nat
      BY <1>1, LifeBounds DEF Asked, QaInv, QaTypes
    <2>2. Asked(d)' <= triggers' + 1
      BY <1>1, <2>1 DEF QaInv, Budget
    <2>3. Asked(d) <= triggers => Asked(d)' <= triggers'
      BY <1>1, <2>1
    <2>4. EndToCome(d)' = EndToCome(d)
      BY <1>1 DEF EndToCome
    <2> QED  BY <1>1, <2>2, <2>3, <2>4 DEF QaInv, Budget, Transcribed
  <1> QED  BY <1>2, <1>3 DEF QaInv

(* A scoring reads the transcript, or finds none. *)
LEMMA FetchKeeps ==
  ASSUME QaInv, RowInv, NEW c \in Calls, Fetch(c)
  PROVE  QaInv'
  <1>1. /\ UNCHANGED <<evals, triggers, event, hist, phase>>
        /\ due[c] > 0 /\ due' = [due EXCEPT ![c] = @ - 1]
        /\ scoring' = [scoring EXCEPT ![c] = IF Scored(c) THEN @ + 1 ELSE @]
    BY DEF Fetch, bounds, flags
  <1>2. QaTypes'
    BY <1>1 DEF QaInv, QaTypes
  <1>3. Scored(c) => hist[c]
    BY DEF Scored, RowInv, Settles
  <1>4. ASSUME NEW d \in Calls
        PROVE  Budget(d)' /\ Transcribed(d)'
    <2>1. Asked(d)' <= Asked(d) /\ Asked(d) \in Nat /\ Asked(d)' \in Nat
      BY <1>1 DEF Asked, QaInv, QaTypes
    <2>2. Transcribed(d)'
      BY <1>1, <1>3 DEF Transcribed, QaInv, QaTypes
    <2>3. EndToCome(d)' = EndToCome(d) /\ triggers' = triggers
      BY <1>1 DEF EndToCome
    <2>4. triggers \in Nat
      BY LifeBounds DEF QaInv, QaTypes
    <2>5. Asked(d)' <= triggers' + 1 /\ (Asked(d) <= triggers => Asked(d)' <= triggers')
      BY <2>1, <2>3, <2>4 DEF QaInv, Budget
    <2> QED  BY <1>1, <2>2, <2>3, <2>5 DEF QaInv, Budget
  <1> QED  BY <1>2, <1>4 DEF QaInv

(* A score is written, or is lost. *)
LEMMA ScoreKeeps ==
  ASSUME QaInv, SessionTypes, NEW c \in Calls, Score(c)
  PROVE  QaInv'
  <1>1. /\ UNCHANGED <<due, triggers, event, hist, phase>>
        /\ scoring[c] > 0 /\ scoring' = [scoring EXCEPT ![c] = @ - 1]
        /\ evals' = evals \/ evals' = [evals EXCEPT ![c] = @ + 1]
    BY DEF Score, Scores, Fault, bounds, flags
  <1>2. QaTypes'
    BY <1>1 DEF QaInv, QaTypes
  <1>3. ASSUME NEW d \in Calls
        PROVE  Budget(d)' /\ Transcribed(d)'
    <2>1. Asked(d)' <= Asked(d) /\ Asked(d) \in Nat /\ Asked(d)' \in Nat
      BY <1>1 DEF Asked, QaInv, QaTypes
    <2>2. Transcribed(d)'
      BY <1>1 DEF Transcribed, QaInv, QaTypes
    <2>3. EndToCome(d)' = EndToCome(d) /\ triggers' = triggers
      BY <1>1 DEF EndToCome
    <2>4. triggers \in Nat
      BY LifeBounds DEF QaInv, QaTypes
    <2>5. Asked(d)' <= triggers' + 1 /\ (Asked(d) <= triggers => Asked(d)' <= triggers')
      BY <2>1, <2>3, <2>4 DEF QaInv, Budget
    <2> QED  BY <1>1, <2>2, <2>3, <2>5 DEF QaInv, Budget
  <1> QED  BY <1>2, <1>3 DEF QaInv

(* A restart forgets what is scheduled and what is being scored. *)
LEMMA RestartKeeps ==
  ASSUME QaInv, SessionTypes, RestartApi
  PROVE  QaInv'
  <1>1. /\ UNCHANGED <<evals, triggers, event, hist, phase>>
        /\ due' = [c \in Calls |-> 0] /\ scoring' = [c \in Calls |-> 0]
    BY DEF RestartApi, flags
  <1>2. QaTypes'
    BY <1>1 DEF QaInv, QaTypes
  <1>3. ASSUME NEW d \in Calls
        PROVE  Budget(d)' /\ Transcribed(d)'
    <2>1. Asked(d)' <= Asked(d) /\ Asked(d) \in Nat /\ Asked(d)' \in Nat
      BY <1>1 DEF Asked, QaInv, QaTypes
    <2>2. Transcribed(d)'
      BY <1>1 DEF Transcribed, QaInv, QaTypes
    <2>3. EndToCome(d)' = EndToCome(d) /\ triggers' = triggers
      BY <1>1 DEF EndToCome
    <2>4. triggers \in Nat
      BY LifeBounds DEF QaInv, QaTypes
    <2>5. Asked(d)' <= triggers' + 1 /\ (Asked(d) <= triggers => Asked(d)' <= triggers')
      BY <2>1, <2>3, <2>4 DEF QaInv, Budget
    <2> QED  BY <1>1, <2>2, <2>3, <2>5 DEF QaInv, Budget
  <1> QED  BY <1>2, <1>3 DEF QaInv

LEMMA QaStep == RowInv /\ QaInv /\ [Next]_vars => QaInv'
  <1> SUFFICES ASSUME RowInv, QaInv, [Next]_vars
               PROVE  QaInv'
    OBVIOUS
  <1>1. SessionTypes
    BY DEF RowInv
  <1>2. CASE RestartApi
    BY <1>1, <1>2, RestartKeeps
  <1>3. ASSUME NEW c \in Calls, QaActs(c)
        PROVE  QaInv'
    BY <1>1, <1>3, JobEnds, EndedKeeps, TriggerKeeps, FetchKeeps, ScoreKeeps DEF QaActs
  <1>4. CASE ~RestartApi /\ ~ \E c \in Calls : QaActs(c)
    <2>1. /\ UNCHANGED <<event, due, scoring, evals, triggers>>
          /\ \A d \in Calls : (phase[d] = "gone") = (phase'[d] = "gone")
          /\ \A d \in Calls : hist[d] => hist'[d]
      BY <1>1, <1>4, QaTouched
    <2> QED  BY <2>1 DEF QaInv, QaTypes, Budget, Asked, EndToCome, Transcribed
  <1> QED  BY <1>2, <1>3, <1>4

THEOREM QaInvariant == Spec => []QaInv
  BY QaInit, QaStep, RowInvariant, PTL DEF Spec

(* The end of a call and the requests of supervisors bound the rows of     *)
(* eval_scores, and only a call in which something was said is scored.     *)
THEOREM ScoresAreEarned == Spec => []ScoresEarned
  <1>1. QaInv => ScoresEarned
    <2> SUFFICES ASSUME QaInv, NEW c \in Calls
                 PROVE  /\ evals[c] > 0 \/ scoring[c] > 0 => hist[c]
                        /\ evals[c] <= triggers + 1
      BY DEF ScoresEarned
    <2>1. Budget(c) /\ Transcribed(c)
      BY DEF QaInv
    <2>2. evals[c] <= triggers + 1
      BY <2>1, LifeBounds DEF QaInv, QaTypes, Budget, Asked
    <2> QED  BY <2>1, <2>2 DEF Transcribed
  <1> QED  BY <1>1, QaInvariant, PTL

-----------------------------------------------------------------------------
(* The record that CallRecord promises.  A row that is not there is blank, *)
(* a caller is linked when the call ends or later, and a score under way   *)
(* is that of a row which is closed with its transcript.                   *)
Recorded(c) ==
  /\ phase[c] = "none" => ~row[c].there
  /\ ~row[c].there => row[c] = NoRow
  /\ row[c].cust # "none" => row[c].ended
  /\ scoring[c] > 0 => row[c].there /\ row[c].ended /\ row[c].lines

RecordInv == \A c \in Calls : Recorded(c)

(* What one call's actions do to its phase and its row, with what the row  *)
(* must be before.                                                         *)
RecordMoves(c) ==
  \/ /\ phase[c] = "none" /\ phase' = [phase EXCEPT ![c] = "waiting"]
     /\ row' = row \/ row' = [row EXCEPT ![c].there = TRUE]
  \/ /\ phase[c] # "none" /\ row' = row
     /\ \E p \in Phases \ {"none"} : phase' = [phase EXCEPT ![c] = p]
  \/ /\ phase[c] \in {"talk", "human"} /\ phase' = phase
     /\ row[c].there /\ row' = [row EXCEPT ![c].esc = TRUE]
  \/ /\ phase[c] = "ending" /\ phase' = [phase EXCEPT ![c] = "ended"]
     /\ row[c].there /\ row' = [row EXCEPT ![c] = End(c)]
  \/ /\ phase' = phase /\ row[c].there /\ ~row[c].acw
     /\ row' = [row EXCEPT ![c].acw = TRUE, ![c].res = "acw"]

records == <<phase, row, scoring, evals>>

LEMMA RecordMoved ==
  ASSUME NEW c \in Calls, RowInv, RecordInv, RowActs(c)
  PROVE  UNCHANGED records \/ (RecordMoves(c) /\ UNCHANGED <<scoring, evals>>)
  <1>1. /\ phase \in [Calls -> Phases] /\ row \in [Calls -> Row]
        /\ ~row[c].there => row[c] = NoRow
    BY DEF RowInv, SessionTypes, RowTypes, RecordInv, Recorded
  <1>2. CASE Start(c)
    BY <1>2 DEF Start, RecordMoves, qa
  <1>3. CASE Join(c) \/ Abandon(c) \/ TakeOver(c) \/ WrapUp(c) \/ Notify(c) \/ Crash(c)
    <2>1. phase[c] # "none" /\ row' = row /\ UNCHANGED <<scoring, evals>>
      BY <1>3 DEF Join, Abandon, TakeOver, WrapUp, Notify, Crash, Over, qa
    <2>2. \E p \in Phases \ {"none"} : phase' = [phase EXCEPT ![c] = p]
      BY <1>3 DEF Join, Abandon, TakeOver, WrapUp, Notify, Crash, Phases
    <2> QED  BY <2>1, <2>2 DEF RecordMoves
  <1>4. CASE Persist(c)
    <2>1. CASE row' = row
      BY <1>4, <2>1 DEF Persist, RecordMoves, Phases, qa
    <2>2. CASE row' # row
      BY <1>4, <2>2 DEF Persist, Records, RecordMoves, qa
    <2> QED  BY <2>1, <2>2
  <1>5. CASE UserItem(c) \/ Reply(c) \/ Nudged(c) \/ Identify(c)
    BY <1>5 DEF UserItem, Reply, Nudged, Identify, records, qa
  <1>6. CASE Escalate(c)
    <2>1. phase[c] \in {"talk", "human"} /\ UNCHANGED <<phase, scoring, evals>>
      BY <1>6 DEF Escalate, Live, qa
    <2>2. row' = row \/ row' = [row EXCEPT ![c].esc = row[c].there]
      BY <1>6 DEF Escalate
    <2>3. CASE row[c].there
      BY <2>1, <2>2, <2>3 DEF RecordMoves, records
    <2>4. CASE ~row[c].there
      <3>1. [row EXCEPT ![c].esc = row[c].there] = row
        BY <1>1, <2>4 DEF NoRow, Row
      <3> QED  BY <2>1, <2>2, <3>1 DEF records
    <2> QED  BY <1>1, <2>3, <2>4 DEF Row
  <1>7. CASE EscalateByButton(c) \/ SubmitAcw(c)
    BY <1>7 DEF EscalateByButton, SubmitAcw, RecordMoves, qa
  <1> QED  BY <1>2, <1>3, <1>4, <1>5, <1>6, <1>7 DEF RowActs

(* The other actions but two leave the record alone. *)
LEMMA RecordTouched ==
  ASSUME [Next]_vars, ~RestartApi, ~ \E c \in Calls : RowActs(c) \/ Fetch(c) \/ Score(c)
  PROVE  UNCHANGED records
  BY DEF Next, vars, voice, flags, qa, bounds, records, RowActs, Job, Timer, Scoring,
         Leave, Heard, Tick, Fire, NudgeCut, Accept, Trigger, Ended

LEMMA NoRowFields ==
  /\ ~NoRow.there /\ ~NoRow.ended /\ ~NoRow.esc /\ ~NoRow.lines /\ ~NoRow.acw
  /\ NoRow.esc = FALSE /\ NoRow.lines = FALSE /\ NoRow.acw = FALSE
  /\ NoRow.res = "none" /\ NoRow.cust = "none"
  BY DEF NoRow

LEMMA RecordStarts == Init => RecordInv
  <1> SUFFICES ASSUME Init, NEW c \in Calls
               PROVE  Recorded(c)
    BY DEF RecordInv
  <1>1. row[c] = NoRow /\ scoring[c] = 0
    BY DEF Init
  <1> QED  BY <1>1, NoRowFields DEF Recorded

(* What the end of a call writes. *)
LEMMA EndFields ==
  ASSUME NEW c \in Calls, row[c] \in Row, hist[c] \in BOOLEAN
  PROVE  /\ End(c).there = row[c].there /\ End(c).esc = row[c].esc
         /\ End(c).acw = row[c].acw /\ End(c).ended /\ End(c).lines = hist[c]
         /\ End(c).res \in {"resolved", "escalated"}
         /\ End(c).cust = IF row[c].cust = "none" /\ who[c] THEN "named"
                          ELSE row[c].cust
  BY DEF End, Row, Outcome

(* The invariant, for the rows a call's actions write. *)
LEMMA MovesKeep ==
  ASSUME RowInv, RecordInv, NEW c \in Calls, RecordMoves(c), UNCHANGED scoring
  PROVE  RecordInv'
  <1>1. /\ phase \in [Calls -> Phases] /\ row \in [Calls -> Row]
        /\ Settles(c) /\ Recorded(c)
    BY DEF RowInv, SessionTypes, RowTypes, RecordInv
  <1>2. ASSUME NEW d \in Calls, d # c
        PROVE  Recorded(d)'
    BY <1>1, <1>2 DEF RecordMoves, RecordInv, Recorded
  <1>3. CASE row' = row
    <2>1. Recorded(c)'
      BY <1>1, <1>3 DEF RecordMoves, Recorded, Phases
    <2> QED  BY <1>2, <2>1 DEF RecordInv
  <1>4. CASE row' # row
    <2>1. row[c] \in Row /\ hist[c] \in BOOLEAN
      BY <1>1 DEF RowInv, SessionTypes
    <2>2. \/ row'[c] = [row[c] EXCEPT !.there = TRUE] /\ phase'[c] = "waiting"
          \/ /\ row'[c] = [row[c] EXCEPT !.esc = TRUE] /\ phase'[c] = phase[c]
             /\ row[c].there
          \/ /\ row'[c] = End(c) /\ phase[c] = "ending" /\ phase'[c] = "ended"
             /\ row[c].there
          \/ /\ row'[c] = [row[c] EXCEPT !.acw = TRUE, !.res = "acw"]
             /\ phase'[c] = phase[c] /\ row[c].there
      BY <1>1, <1>4 DEF RecordMoves
    <2>3. row'[c].there /\ phase'[c] # "none"
      BY <1>1, <2>1, <2>2, EndFields DEF Recorded, Row
    <2>4. \/ row'[c].ended = row[c].ended /\ row'[c].lines = row[c].lines
             /\ row'[c].cust = row[c].cust
          \/ row'[c].ended /\ ~row[c].ended
      <3>1. CASE row'[c] = End(c) /\ phase[c] = "ending"
        BY <1>1, <2>1, <3>1, EndFields DEF Settles
      <3>2. CASE \/ row'[c] = [row[c] EXCEPT !.there = TRUE]
                 \/ row'[c] = [row[c] EXCEPT !.esc = TRUE]
                 \/ row'[c] = [row[c] EXCEPT !.acw = TRUE, !.res = "acw"]
        BY <2>1, <3>2 DEF Row
      <3> QED  BY <2>2, <3>1, <3>2
    <2>5. Recorded(c)'
      BY <1>1, <2>3, <2>4 DEF Recorded
    <2> QED  BY <1>2, <2>5 DEF RecordInv
  <1> QED  BY <1>3, <1>4

LEMMA RecordStep == RowInv /\ QaInv /\ RecordInv /\ [Next]_vars => RecordInv'
  <1> SUFFICES ASSUME RowInv, QaInv, RecordInv, [Next]_vars
               PROVE  RecordInv'
    OBVIOUS
  <1>1. CASE UNCHANGED records
    BY <1>1 DEF records, RecordInv, Recorded
  <1>2. CASE RestartApi
    <2>1. scoring' = [c \in Calls |-> 0] /\ phase' = phase
      BY <1>2 DEF RestartApi
    <2>2. ASSUME NEW c \in Calls
          PROVE  \/ row'[c] = NoRow
                 \/ row'[c] = row[c]
                 \/ row[c].lines /\ row'[c] = [row[c] EXCEPT !.cust = "guessed"]
      BY <1>2, RepairSettles DEF RestartApi
    <2>3. ASSUME NEW c \in Calls
          PROVE  Recorded(c)'
      <3>1. row[c] \in Row /\ Recorded(c) /\ Settles(c)
        BY DEF RowInv, RowTypes, RecordInv
      <3>2. row[c].lines => row[c].there
        BY <3>1, NoRowFields DEF Recorded
      <3>3. scoring'[c] = 0 /\ phase'[c] = phase[c]
        BY <2>1
      <3>4. CASE row'[c] = NoRow
        BY <3>3, <3>4, NoRowFields DEF Recorded
      <3>5. CASE row'[c] = row[c]
        BY <3>1, <3>3, <3>5 DEF Recorded
      <3>6. CASE row[c].lines /\ row'[c] = [row[c] EXCEPT !.cust = "guessed"]
        BY <3>1, <3>2, <3>3, <3>6 DEF Recorded, Settles, Row
      <3> QED  BY <2>2, <3>4, <3>5, <3>6
    <2> QED  BY <2>3 DEF RecordInv
  <1>3. ASSUME NEW c \in Calls, Fetch(c) \/ Score(c)
        PROVE  RecordInv'
    <2>1. /\ phase' = phase /\ row' = row
          /\ \A d \in Calls : scoring'[d] > scoring[d] => d = c /\ Scored(c)
          /\ \A d \in Calls : scoring[d] \in Nat /\ scoring'[d] \in Nat
      BY <1>3 DEF Fetch, Score, QaInv, QaTypes
    <2> QED  BY <2>1 DEF RecordInv, Recorded, Scored, RowInv, Settles
  <1>4. ASSUME NEW c \in Calls, RowActs(c)
        PROVE  RecordInv'
    BY <1>1, <1>4, RecordMoved, MovesKeep
  <1> QED  BY <1>1, <1>2, <1>3, <1>4, RecordTouched

THEOREM RecordInvariant == Spec => []RecordInv
  BY RecordStarts, RecordStep, RowInvariant, QaInvariant, PTL DEF Spec

(* Fields of a record are written. *)
Books == [st : {"new", "lost", "open", "closed"}, esc : BOOLEAN, lines : BOOLEAN,
          res : {"none", "resolved", "escalated", "acw"}, acw : BOOLEAN,
          cust : {"none", "named", "guessed"}]

LEMMA BookEscalated ==
  ASSUME NEW b \in Books, NEW q \in Books, q.esc = TRUE, q.st = b.st,
         q.lines = b.lines, q.res = b.res, q.acw = b.acw, q.cust = b.cust
  PROVE  q = [b EXCEPT !.esc = TRUE]
  BY DEF Books

LEMMA BookSummarised ==
  ASSUME NEW b \in Books, NEW q \in Books, q.acw = TRUE, q.res = "acw", q.st = b.st,
         q.esc = b.esc, q.lines = b.lines, q.cust = b.cust
  PROVE  q = [b EXCEPT !.acw = TRUE, !.res = "acw"]
  BY DEF Books

LEMMA BookGuessed ==
  ASSUME NEW b \in Books, NEW q \in Books, q.cust = "guessed", q.st = b.st,
         q.esc = b.esc, q.lines = b.lines, q.res = b.res, q.acw = b.acw
  PROVE  q = [b EXCEPT !.cust = "guessed"]
  BY DEF Books

LEMMA BookClosed ==
  ASSUME NEW b \in Books, NEW q \in Books, q.st = "closed", q.esc = b.esc,
         q.acw = b.acw
  PROVE  q = [b EXCEPT !.st = "closed", !.lines = q.lines, !.res = q.res,
                       !.cust = q.cust]
  BY DEF Books

LEMMA BookFields ==
  ASSUME NEW c \in Calls
  PROVE  /\ RecordOf(c).esc = row[c].esc /\ RecordOf(c).lines = row[c].lines
         /\ RecordOf(c).res = row[c].res /\ RecordOf(c).acw = row[c].acw
         /\ RecordOf(c).cust = row[c].cust
         /\ RecordOf(c).st = IF phase[c] = "none" THEN "new"
                             ELSE IF ~row[c].there THEN "lost"
                             ELSE IF row[c].ended THEN "closed" ELSE "open"
         /\ RecordOf(c)'.esc = row'[c].esc /\ RecordOf(c)'.lines = row'[c].lines
         /\ RecordOf(c)'.res = row'[c].res /\ RecordOf(c)'.acw = row'[c].acw
         /\ RecordOf(c)'.cust = row'[c].cust
         /\ RecordOf(c)'.st = IF phase'[c] = "none" THEN "new"
                              ELSE IF ~row'[c].there THEN "lost"
                              ELSE IF row'[c].ended THEN "closed" ELSE "open"
  BY DEF RecordOf

(* The variables of CallRecord, and what a step does to them. *)
book == <<[c \in Calls |-> RecordOf(c)], evals>>
BookKept == Record!RecordNext \/ UNCHANGED book

(* What one call's actions do is a step of its record, or none. *)
LEMMA MovesRecord ==
  ASSUME RowInv, RowInv', RecordInv, NEW c \in Calls, RecordMoves(c), UNCHANGED evals
  PROVE  BookKept
  <1>1. /\ phase \in [Calls -> Phases] /\ row \in [Calls -> Row]
        /\ Settles(c) /\ Recorded(c)
    BY DEF RowInv, SessionTypes, RowTypes, RecordInv
  <1>2. \A d \in Calls : d # c => RecordOf(d)' = RecordOf(d)
    BY <1>1 DEF RecordMoves, RecordOf
  <1>8. RecordOf(c) \in Books /\ RecordOf(c)' \in Books
    <2>1. row[c] \in Row /\ row'[c] \in Row
      BY DEF RowInv, RowTypes
    <2> QED  BY <2>1 DEF RecordOf, Books, Row
  <1>3. CASE phase[c] = "none" /\ phase' = [phase EXCEPT ![c] = "waiting"]
             /\ (row' = row \/ row' = [row EXCEPT ![c].there = TRUE])
    <2>0. row[c] = NoRow /\ row[c] \in Row /\ phase'[c] = "waiting"
      BY <1>1, <1>3 DEF Recorded
    <2>1. \E st \in {"open", "lost"} : RecordOf(c)' = Record!Blank(st)
      <3>1. CASE row' = row
        <4>1. RecordOf(c)' = Record!Blank("lost")
          BY <2>0, <3>1, NoRowFields DEF RecordOf, Record!Blank
        <4> QED  BY <4>1
      <3>2. CASE row' = [row EXCEPT ![c].there = TRUE]
        <4>1. row'[c] = [row[c] EXCEPT !.there = TRUE]
          BY <1>1, <3>2
        <4>2. /\ row'[c].there /\ ~row'[c].ended /\ row'[c].esc = FALSE
              /\ row'[c].lines = FALSE /\ row'[c].res = "none"
              /\ row'[c].acw = FALSE /\ row'[c].cust = "none"
          BY <2>0, <4>1, NoRowFields DEF Row
        <4>3. RecordOf(c)' = Record!Blank("open")
          BY <2>0, <4>2 DEF RecordOf, Record!Blank
        <4> QED  BY <4>3
      <3> QED  BY <1>3, <3>1, <3>2
    <2>2. RecordOf(c).st = "new"
      BY <1>3 DEF RecordOf
    <2>3. \E st \in {"open", "lost"} : Record!Becomes(c, Record!Blank(st))
      BY <1>2, <2>1 DEF Record!Becomes
    <2>4. Record!Open(c)
      BY <2>2, <2>3 DEF Record!Open
    <2> QED  BY <2>4 DEF Record!RecordNext, BookKept
  <1>4. CASE /\ phase[c] # "none" /\ row' = row
             /\ \E p \in Phases \ {"none"} : phase' = [phase EXCEPT ![c] = p]
    <2>1. RecordOf(c)' = RecordOf(c)
      BY <1>1, <1>4 DEF RecordOf
    <2> QED  BY <1>2, <2>1 DEF BookKept, book
  <1>5. CASE /\ phase[c] \in {"talk", "human"} /\ phase' = phase
             /\ row[c].there /\ row' = [row EXCEPT ![c].esc = TRUE]
    <2>0. /\ row'[c].there = row[c].there /\ row'[c].ended = row[c].ended
          /\ row'[c].esc = TRUE /\ row'[c].lines = row[c].lines
          /\ row'[c].res = row[c].res /\ row'[c].acw = row[c].acw
          /\ row'[c].cust = row[c].cust /\ ~row[c].ended
      <3>1. row'[c] = [row[c] EXCEPT !.esc = TRUE] /\ row[c] \in Row
        BY <1>1, <1>5
      <3>2. ~row[c].ended
        BY <1>1, <1>5 DEF Settles
      <3> QED  BY <3>1, <3>2 DEF Row
    <2>1. RecordOf(c).st = "open" /\ RecordOf(c)' = [RecordOf(c) EXCEPT !.esc = TRUE]
      <3>1. RecordOf(c).st = "open" /\ RecordOf(c)'.st = "open"
        BY <1>5, <2>0, BookFields
      <3>2. /\ RecordOf(c)'.esc = TRUE
            /\ RecordOf(c)'.lines = RecordOf(c).lines
            /\ RecordOf(c)'.res = RecordOf(c).res /\ RecordOf(c)'.acw = RecordOf(c).acw
            /\ RecordOf(c)'.cust = RecordOf(c).cust
        BY <2>0, BookFields
      <3> QED  BY <1>8, <3>1, <3>2, BookEscalated
    <2>2. Record!MarkEscalated(c)
      BY <1>2, <2>1 DEF Record!MarkEscalated, Record!Becomes
    <2> QED  BY <2>2 DEF Record!RecordNext, BookKept
  <1>6. CASE /\ phase[c] = "ending" /\ phase' = [phase EXCEPT ![c] = "ended"]
             /\ row[c].there /\ row' = [row EXCEPT ![c] = End(c)]
    <2>1. RecordOf(c).st = "open" /\ row[c].cust = "none"
      BY <1>1, <1>6 DEF RecordOf, Settles, Recorded
    <2>0. row[c] \in Row /\ hist[c] \in BOOLEAN /\ row'[c] = End(c)
          /\ phase'[c] = "ended"
      BY <1>1, <1>6 DEF RowInv, SessionTypes
    <2>2. End(c).lines \in BOOLEAN /\ End(c).res \in {"resolved", "escalated"}
          /\ End(c).cust \in {"none", "named"}
      BY <2>0, <2>1, EndFields
    <2>3. RecordOf(c)' = [RecordOf(c) EXCEPT !.st = "closed", !.lines = End(c).lines,
                                             !.res = End(c).res, !.cust = End(c).cust]
      <3>1. /\ RecordOf(c)'.st = "closed" /\ RecordOf(c)'.lines = End(c).lines
            /\ RecordOf(c)'.res = End(c).res /\ RecordOf(c)'.cust = End(c).cust
            /\ RecordOf(c)'.esc = RecordOf(c).esc /\ RecordOf(c)'.acw = RecordOf(c).acw
        BY <1>6, <2>0, BookFields, EndFields
      <3> QED  BY <1>8, <3>1, BookClosed
    <2>4. Record!Becomes(c, [RecordOf(c) EXCEPT !.st = "closed", !.lines = End(c).lines,
                                                !.res = End(c).res, !.cust = End(c).cust])
      BY <1>2, <2>3 DEF Record!Becomes
    <2>5. Record!Close(c)
      BY <2>1, <2>2, <2>4 DEF Record!Close
    <2> QED  BY <2>5 DEF Record!RecordNext, BookKept
  <1>7. CASE /\ phase' = phase /\ row[c].there /\ ~row[c].acw
             /\ row' = [row EXCEPT ![c].acw = TRUE, ![c].res = "acw"]
    <2>0. /\ row'[c].there = row[c].there /\ row'[c].ended = row[c].ended
          /\ row'[c].esc = row[c].esc /\ row'[c].lines = row[c].lines
          /\ row'[c].res = "acw" /\ row'[c].acw = TRUE
          /\ row'[c].cust = row[c].cust /\ phase[c] # "none"
      <3>1. row'[c] = [row[c] EXCEPT !.acw = TRUE, !.res = "acw"] /\ row[c] \in Row
        BY <1>1, <1>7
      <3> QED  BY <1>1, <1>7, <3>1 DEF Recorded, Row
    <2>1. /\ RecordOf(c).st \in {"open", "closed"} /\ ~RecordOf(c).acw
          /\ RecordOf(c)' = [RecordOf(c) EXCEPT !.acw = TRUE, !.res = "acw"]
      <3>1. /\ RecordOf(c).st \in {"open", "closed"} /\ ~RecordOf(c).acw
            /\ RecordOf(c)'.st = RecordOf(c).st
        BY <1>7, <2>0, BookFields
      <3>2. /\ RecordOf(c)'.acw = TRUE /\ RecordOf(c)'.res = "acw"
            /\ RecordOf(c)'.esc = RecordOf(c).esc /\ RecordOf(c)'.lines = RecordOf(c).lines
            /\ RecordOf(c)'.cust = RecordOf(c).cust
        BY <2>0, BookFields
      <3> QED  BY <1>8, <3>1, <3>2, BookSummarised
    <2>2. Record!Summarise(c)
      BY <1>2, <2>1 DEF Record!Summarise, Record!Becomes
    <2> QED  BY <2>2 DEF Record!RecordNext, BookKept
  <1> QED  BY <1>3, <1>4, <1>5, <1>6, <1>7 DEF RecordMoves

(* The repair of a restart is one of the records. *)
LEMMA RestartRecord ==
  ASSUME RowInv, RecordInv, RestartApi
  PROVE  BookKept
  <1>1. UNCHANGED <<phase, evals>>
    BY DEF RestartApi
  <1>2. CASE row' = row
    BY <1>1, <1>2 DEF RecordOf, BookKept, book
  <1>3. CASE \A c \in Calls : row'[c] \in Repairs(row[c])
    <2>1. ASSUME NEW c \in Calls
          PROVE  RecordOf(c)' \in Record!Repaired(RecordOf(c))
      <3>1. row[c] \in Row /\ Settles(c) /\ Recorded(c)
        BY DEF RowInv, RowTypes, RecordInv
      <3>2. CASE Stub(row[c])
        <4>1. row'[c] = NoRow /\ ~row[c].ended /\ ~row[c].esc
          BY <1>3, <3>2 DEF Repairs, Stub
        <4>2. CASE row[c].there
          <5>1. RecordOf(c).st = "open" /\ ~RecordOf(c).esc
            BY <3>1, <4>1, <4>2 DEF RecordOf, Recorded
          <5>2. RecordOf(c)' = Record!Blank("lost")
            BY <1>1, <3>1, <4>1, <4>2, NoRowFields DEF RecordOf, Recorded, Record!Blank
          <5> QED  BY <5>1, <5>2 DEF Record!Repaired
        <4>3. CASE ~row[c].there
          <5>1. RecordOf(c)' = RecordOf(c)
            BY <1>1, <3>1, <4>1, <4>3 DEF RecordOf, Recorded
          <5> QED  BY <5>1 DEF Record!Repaired
        <4> QED  BY <4>2, <4>3
      <3>3. CASE ~Stub(row[c]) /\ row'[c] = row[c]
        BY <1>1, <3>3 DEF RecordOf, Record!Repaired
      <3>4. CASE /\ ~Stub(row[c]) /\ Unlinked(row[c])
                 /\ row'[c] = [row[c] EXCEPT !.cust = "guessed"]
        <4>0. /\ row'[c].there = row[c].there /\ row'[c].ended = row[c].ended
              /\ row'[c].esc = row[c].esc /\ row'[c].lines = row[c].lines
              /\ row'[c].res = row[c].res /\ row'[c].acw = row[c].acw
              /\ row'[c].cust = "guessed"
          BY <3>1, <3>4 DEF Row
        <4>2. row[c].lines /\ row[c].cust = "none" /\ row[c].there /\ row[c].ended
              /\ phase[c] # "none"
          BY <3>1, <3>4, NoRowFields DEF Recorded, Settles, Unlinked
        <4>1. /\ RecordOf(c).st = "closed" /\ RecordOf(c).lines
              /\ RecordOf(c).cust = "none"
              /\ RecordOf(c)' = [RecordOf(c) EXCEPT !.cust = "guessed"]
          <5>1. /\ RecordOf(c).st = "closed" /\ RecordOf(c)'.st = "closed"
                /\ RecordOf(c).lines /\ RecordOf(c).cust = "none"
            BY <1>1, <4>0, <4>2, BookFields
          <5>2. row'[c] \in Row
            BY <3>1, <3>4 DEF Row
          <5>3. RecordOf(c) \in Books /\ RecordOf(c)' \in Books
            BY <3>1, <5>2 DEF RecordOf, Books, Row
          <5> QED  BY <4>0, <5>1, <5>3, BookFields, BookGuessed
        <4> QED  BY <4>1 DEF Record!Repaired
      <3> QED  BY <1>3, <3>2, <3>3, <3>4 DEF Repairs
    <2>2. Record!Repair
      BY <1>1, <2>1 DEF Record!Repair
    <2> QED  BY <2>2 DEF Record!RecordNext, BookKept
  <1> QED  BY <1>2, <1>3 DEF RestartApi

LEMMA ScoreRecord ==
  ASSUME RowInv, QaInv, RecordInv, NEW c \in Calls, Score(c)
  PROVE  BookKept
  <1>1. UNCHANGED <<phase, row>>
    BY DEF Score
  <1>2. [d \in Calls |-> RecordOf(d)]' = [d \in Calls |-> RecordOf(d)]
    BY <1>1 DEF RecordOf
  <1>3. CASE evals' = evals
    BY <1>2, <1>3 DEF BookKept, book
  <1>4. CASE evals' = [evals EXCEPT ![c] = @ + 1]
    <2>1. phase[c] # "none" /\ row[c].there /\ row[c].ended /\ row[c].lines
      BY DEF Score, RecordInv, Recorded
    <2>2. RecordOf(c).st = "closed" /\ RecordOf(c).lines
      BY <2>1 DEF RecordOf
    <2>3. Record!AddScore(c)
      BY <1>2, <1>4, <2>2 DEF Record!AddScore
    <2> QED  BY <2>3 DEF Record!RecordNext, BookKept
  <1> QED  BY <1>3, <1>4 DEF Score, Scores

(* Whatever the worker, the tools, the specialist and the repair of a      *)
(* restart write, in any order and with any of them lost: a call's row is  *)
(* opened once and closed once, by _persist_call_end; closed, it is never  *)
(* purged, closed again or given another transcript; a score is of a row   *)
(* that is closed.                                                         *)
THEOREM CallsAreRecords == Spec => RecordKept
  <1>1. Init => Record!RecordInit
    BY DEF Init, Record!RecordInit, Record!Blank, RecordOf, NoRow
  <1>2. ASSUME RowInv, QaInv, RecordInv, [Next]_vars
        PROVE  BookKept
    <2>0. RowInv'
      BY <1>2, RowStep
    <2>1. CASE UNCHANGED records
      BY <2>1 DEF records, RecordOf, BookKept, book
    <2>2. CASE RestartApi
      BY <1>2, <2>2, RestartRecord
    <2>3. ASSUME NEW c \in Calls, RowActs(c)
          PROVE  BookKept
      BY <1>2, <2>0, <2>1, <2>3, RecordMoved, MovesRecord
    <2>4. ASSUME NEW c \in Calls, Fetch(c)
          PROVE  BookKept
      BY <2>4 DEF Fetch, RecordOf, BookKept, book
    <2>5. ASSUME NEW c \in Calls, Score(c)
          PROVE  BookKept
      BY <1>2, <2>5, ScoreRecord
    <2> QED  BY <2>1, <2>2, <2>3, <2>4, <2>5, <1>2, RecordTouched
  <1> QED  BY <1>1, <1>2, RowInvariant, QaInvariant, RecordInvariant, PTL
           DEF Spec, RecordKept, Record!RecordSpec, BookKept, book

-----------------------------------------------------------------------------
(* What is left of the types: flags nothing else depends on, and bounds.   *)
FlagTypes ==
  /\ owed \in [Calls -> BOOLEAN] /\ joined \in [Calls -> BOOLEAN]
  /\ done \in [Calls -> BOOLEAN] /\ left \in [Calls -> BOOLEAN]
  /\ known \in [Calls -> BOOLEAN]

OtherTypes ==
  /\ FlagTypes
  /\ turn \in [Calls -> {"idle", "user", "assistant"}]
  /\ faults \in 0..MaxFaults
  /\ restarts \in 0..MaxRestarts

(* What the actions of one call leave of them. *)
LEMMA CallKeeps ==
  ASSUME NEW c \in Calls, OtherTypes,
         \/ Start(c) \/ Join(c) \/ Abandon(c) \/ Leave(c) \/ Job(c) \/ Crash(c)
         \/ Heard(c) \/ UserItem(c) \/ Reply(c) \/ Timer(c)
         \/ Identify(c) \/ Escalate(c) \/ EscalateByButton(c) \/ Accept(c)
         \/ SubmitAcw(c) \/ Trigger(c) \/ Scoring(c)
  PROVE  OtherTypes'
  <1> USE DEF voice, flags, qa, bounds
  <1>1. CASE Start(c) \/ Join(c) \/ Abandon(c)
    <2>1. FlagTypes'
      BY <1>1 DEF Start, Join, Abandon, OtherTypes, FlagTypes
    <2>2. turn' \in [Calls -> {"idle", "user", "assistant"}]
      BY <1>1 DEF Start, Join, Abandon, OtherTypes
    <2>3. faults' \in 0..MaxFaults /\ restarts' \in 0..MaxRestarts
      BY <1>1, LifeBounds DEF Start, Join, Abandon, Fault, OtherTypes
    <2> QED  BY <2>1, <2>2, <2>3 DEF OtherTypes
  <1>2. CASE Leave(c) \/ Crash(c)
    <2>1. FlagTypes'
      BY <1>2 DEF Leave, Crash, Departs, OtherTypes, FlagTypes
    <2>2. turn' \in [Calls -> {"idle", "user", "assistant"}]
      BY <1>2 DEF Leave, Crash, OtherTypes
    <2>3. faults' \in 0..MaxFaults /\ restarts' \in 0..MaxRestarts
      BY <1>2, LifeBounds DEF Leave, Crash, Fault, OtherTypes
    <2> QED  BY <2>1, <2>2, <2>3 DEF OtherTypes
  <1>3. CASE TakeOver(c) \/ WrapUp(c) \/ Persist(c) \/ Notify(c)
    <2>1. FlagTypes'
      BY <1>3 DEF TakeOver, WrapUp, Persist, Notify, Records, OtherTypes, FlagTypes
    <2>2. turn' \in [Calls -> {"idle", "user", "assistant"}]
      BY <1>3 DEF TakeOver, WrapUp, Persist, Notify, OtherTypes
    <2>3. faults' \in 0..MaxFaults /\ restarts' \in 0..MaxRestarts
      BY <1>3, LifeBounds DEF TakeOver, WrapUp, Persist, Notify, Records, Fault,
                              OtherTypes
    <2> QED  BY <2>1, <2>2, <2>3 DEF OtherTypes
  <1>4. CASE Heard(c) \/ UserItem(c) \/ Reply(c)
    <2>1. FlagTypes'
      BY <1>4 DEF Heard, UserItem, Reply, Added, OtherTypes, FlagTypes
    <2>2. turn' \in [Calls -> {"idle", "user", "assistant"}]
      BY <1>4 DEF Heard, UserItem, Reply, Added, OtherTypes
    <2>3. faults' \in 0..MaxFaults /\ restarts' \in 0..MaxRestarts
      BY <1>4, LifeBounds DEF Heard, UserItem, Reply, OtherTypes
    <2> QED  BY <2>1, <2>2, <2>3 DEF OtherTypes
  <1>5. CASE Tick(c) \/ Fire(c) \/ Nudged(c) \/ NudgeCut(c)
    <2>1. FlagTypes'
      BY <1>5 DEF Tick, Fire, Nudged, NudgeCut, Added, Goodbye, OtherTypes,
                  FlagTypes
    <2>2. turn' \in [Calls -> {"idle", "user", "assistant"}]
      BY <1>5 DEF Tick, Fire, Nudged, NudgeCut, Added, OtherTypes
    <2>3. faults' \in 0..MaxFaults /\ restarts' \in 0..MaxRestarts
      BY <1>5, LifeBounds DEF Tick, Fire, Nudged, NudgeCut, OtherTypes
    <2> QED  BY <2>1, <2>2, <2>3 DEF OtherTypes
  <1>6. CASE Identify(c) \/ Escalate(c) \/ EscalateByButton(c) \/ Accept(c) \/
           SubmitAcw(c)
    <2>1. FlagTypes'
      BY <1>6 DEF Identify, Escalate, EscalateByButton, Accept, SubmitAcw,
                  OtherTypes, FlagTypes
    <2>2. turn' \in [Calls -> {"idle", "user", "assistant"}]
      BY <1>6 DEF Identify, Escalate, EscalateByButton, Accept, SubmitAcw,
                  OtherTypes
    <2>3. faults' \in 0..MaxFaults /\ restarts' \in 0..MaxRestarts
      BY <1>6, LifeBounds DEF Identify, Escalate, EscalateByButton, Accept,
                              SubmitAcw, Fault, OtherTypes
    <2> QED  BY <2>1, <2>2, <2>3 DEF OtherTypes
  <1>7. CASE Trigger(c) \/ Ended(c) \/ Fetch(c) \/ Score(c)
    <2>1. FlagTypes'
      BY <1>7 DEF Trigger, Ended, Fetch, Score, OtherTypes, FlagTypes
    <2>2. turn' \in [Calls -> {"idle", "user", "assistant"}]
      BY <1>7 DEF Trigger, Ended, Fetch, Score, OtherTypes
    <2>3. faults' \in 0..MaxFaults /\ restarts' \in 0..MaxRestarts
      BY <1>7, LifeBounds DEF Trigger, Ended, Fetch, Score, Fault, OtherTypes
    <2> QED  BY <2>1, <2>2, <2>3 DEF OtherTypes
  <1> QED  BY <1>1, <1>2, <1>3, <1>4, <1>5, <1>6, <1>7 DEF Job, Timer, Scoring

LEMMA OtherStep == OtherTypes /\ [Next]_vars => OtherTypes'
  <1> SUFFICES ASSUME OtherTypes, [Next]_vars
               PROVE  OtherTypes'
    OBVIOUS
  <1>1. CASE UNCHANGED vars
    BY <1>1 DEF vars, voice, flags, bounds, OtherTypes, FlagTypes
  <1>2. CASE RestartApi
    <2>1. FlagTypes' /\ turn' = turn
      BY <1>2 DEF RestartApi, voice, flags, OtherTypes, FlagTypes
    <2>2. faults' \in 0..MaxFaults /\ restarts' \in 0..MaxRestarts
      BY <1>2, LifeBounds DEF RestartApi, OtherTypes
    <2> QED  BY <2>1, <2>2 DEF OtherTypes
  <1> QED  BY <1>1, <1>2, CallKeeps DEF Next

(* The sessions, the timer, the row and the scorings stay within their     *)
(* types and bounds, the callbacks of the timer included.                  *)
THEOREM TypeCorrect == Spec => []LifeTypeOK
  <1>1. Init => OtherTypes
    BY LifeBounds DEF Init, OtherTypes, FlagTypes
  <1>2. ASSUME ClockInv, RowInv, QaInv, OtherTypes
        PROVE  LifeTypeOK
    <2>1. ASSUME NEW c \in Calls
          PROVE  /\ due[c] \in 0..(MaxTriggers + 1)
                 /\ scoring[c] \in 0..(MaxTriggers + 1)
                 /\ evals[c] \in 0..(MaxTriggers + 1)
      <3>1. Asked(c) <= triggers + 1
        BY <1>2 DEF QaInv, Budget
      <3> QED  BY <1>2, <3>1, LifeBounds DEF QaInv, QaTypes, Asked
    <2>2. /\ due \in [Calls -> 0..(MaxTriggers + 1)]
          /\ scoring \in [Calls -> 0..(MaxTriggers + 1)]
          /\ evals \in [Calls -> 0..(MaxTriggers + 1)]
      BY <1>2, <2>1 DEF QaInv, QaTypes
    <2> QED  BY <1>2, <2>2 DEF LifeTypeOK, ClockInv, ClockTypes, TimerStates, RowInv,
                               SessionTypes, RowTypes, QaInv, QaTypes, OtherTypes,
                               FlagTypes
  <1> QED  BY <1>1, <1>2, OtherStep, ClockInit, ClockStep, RowInvariant, QaInvariant, PTL
           DEF Spec

-----------------------------------------------------------------------------
(* What the readers conclude from the record. *)

RowKept(d) ==
  /\ phase[d] # "none" /\ row[d].ended =>
       phase'[d] # "none" /\ row'[d].there /\ row'[d].ended
       /\ row'[d].lines = row[d].lines /\ row'[d].esc = row[d].esc
  /\ row[d].esc => phase'[d] # "none" /\ row'[d].there /\ row'[d].esc
  /\ evals'[d] >= evals[d]

LEMMA Same ==
  ASSUME RowInv, QaInv, RecordInv, NEW d \in Calls, phase'[d] = phase[d] \/ phase'[d] # "none",
         row'[d] = row[d], evals'[d] = evals[d]
  PROVE  RowKept(d)
  <1>1. Recorded(d) /\ evals[d] \in Nat
    BY DEF RecordInv, QaInv, QaTypes
  <1> QED  BY <1>1, NoRowFields DEF Recorded, RowKept

LEMMA MoveKeepsRow ==
  ASSUME RowInv, QaInv, RecordInv, NEW c \in Calls, RecordMoves(c), UNCHANGED evals,
         NEW d \in Calls
  PROVE  RowKept(d)
  <1>1. /\ phase \in [Calls -> Phases] /\ row \in [Calls -> Row] /\ evals[c] \in Nat
        /\ Settles(c) /\ Recorded(c) /\ hist[c] \in BOOLEAN
    BY DEF RowInv, SessionTypes, RowTypes, RecordInv, QaInv, QaTypes
  <1>2. CASE d # c
    <2>1. phase'[d] = phase[d] /\ row'[d] = row[d]
      BY <1>1, <1>2 DEF RecordMoves
    <2> QED  BY <2>1, Same
  <1>3. CASE d = c /\ row' = row
    <2>1. phase'[c] # "none" \/ phase'[c] = phase[c]
      BY <1>1, <1>3 DEF RecordMoves
    <2> QED  BY <1>3, <2>1, Same
  <1>4. CASE d = c /\ row' # row
    <2>1. \/ ~row[c].ended /\ ~row[c].esc
          \/ /\ row'[c].there /\ phase'[c] # "none" /\ (row[c].esc => row'[c].esc)
             /\ row[c].ended => /\ row'[c].ended /\ row'[c].lines = row[c].lines
                                /\ row'[c].esc = row[c].esc
      <3>1. CASE phase[c] = "none"
        BY <1>1, <3>1, NoRowFields DEF Recorded
      <3>2. CASE phase[c] \in {"talk", "human"} /\ row' = [row EXCEPT ![c].esc = TRUE]
                 /\ row[c].there /\ phase' = phase
        BY <1>1, <3>2 DEF Settles, Row
      <3>3. CASE phase[c] = "ending" /\ row' = [row EXCEPT ![c] = End(c)]
                 /\ row[c].there /\ phase' = [phase EXCEPT ![c] = "ended"]
        <4>1. row'[c] = End(c) /\ phase'[c] = "ended" /\ ~row[c].ended /\ row[c] \in Row
          BY <1>1, <3>3 DEF Settles
        <4> QED  BY <1>1, <3>3, <4>1, EndFields
      <3>4. CASE phase' = phase /\ row[c].there /\ phase[c] # "none"
                 /\ row' = [row EXCEPT ![c].acw = TRUE, ![c].res = "acw"]
        BY <1>1, <3>4 DEF Row
      <3> QED  BY <1>4, <3>1, <3>2, <3>3, <3>4 DEF RecordMoves
    <2> QED  BY <1>1, <1>4, <2>1 DEF RowKept
  <1> QED  BY <1>2, <1>3, <1>4

LEMMA RestartKeepsRow ==
  ASSUME RowInv, QaInv, RecordInv, RestartApi, NEW d \in Calls
  PROVE  RowKept(d)
  <1>1. phase' = phase /\ evals' = evals
    BY DEF RestartApi
  <1>2. row[d] \in Row /\ Settles(d) /\ Recorded(d) /\ evals[d] \in Nat
    BY DEF RowInv, RowTypes, RecordInv, QaInv, QaTypes
  <1>3. CASE row'[d] = row[d]
    BY <1>1, <1>3, Same
  <1>4. CASE Stub(row[d])
    <2>1. ~row[d].ended /\ ~row[d].esc
      BY <1>4 DEF Stub
    <2> QED  BY <1>1, <1>2, <2>1 DEF RowKept
  <1>5. CASE row'[d] = [row[d] EXCEPT !.cust = "guessed"]
    <2>1. /\ row'[d].there = row[d].there /\ row'[d].ended = row[d].ended
          /\ row'[d].lines = row[d].lines /\ row'[d].esc = row[d].esc
      BY <1>2, <1>5 DEF Row
    <2>2. row[d].ended \/ row[d].esc => row[d].there
      BY <1>2, NoRowFields DEF Recorded
    <2>3. row[d].esc => phase[d] # "none"
      BY <1>2, NoRowFields DEF Recorded
    <2> QED  BY <1>1, <1>2, <2>1, <2>2, <2>3 DEF RowKept
  <1> QED  BY <1>3, <1>4, <1>5 DEF RestartApi, Repairs

LEMMA StepKeepsRow ==
  ASSUME RowInv, QaInv, RecordInv, [Next]_vars, NEW d \in Calls
  PROVE  RowKept(d)
  <1>1. CASE UNCHANGED records
    BY <1>1, Same DEF records
  <1>2. CASE RestartApi
    BY <1>2, RestartKeepsRow
  <1>3. ASSUME NEW c \in Calls, Fetch(c) \/ Score(c)
        PROVE  RowKept(d)
    <2>1. phase' = phase /\ row' = row
      BY <1>3 DEF Fetch, Score
    <2>2. evals \in [Calls -> Nat] /\ Recorded(d)
      BY DEF QaInv, QaTypes, RecordInv
    <2>3. evals' = evals \/ evals' = [evals EXCEPT ![c] = @ + 1]
      BY <1>3 DEF Fetch, Score, Scores
    <2>4. evals'[d] >= evals[d]
      BY <2>2, <2>3
    <2> QED  BY <2>1, <2>2, <2>4, NoRowFields DEF RowKept, Recorded
  <1>4. ASSUME NEW c \in Calls, RowActs(c)
        PROVE  RowKept(d)
    BY <1>1, <1>4, RecordMoved, MoveKeepsRow
  <1> QED  BY <1>1, <1>2, <1>3, <1>4, RecordTouched

(* What a reader may rely on: a call that has ended is never opened again, *)
(* purged or given another transcript, an escalated call is not purged     *)
(* while it is open, and no score is taken back, whatever fails, restarts  *)
(* or comes late.                                                          *)
THEOREM ClosedIsKept == Spec => [][Record!ClosedKept]_vars
  <1>1. ASSUME RowInv, QaInv, RecordInv, [Next]_vars
        PROVE  Record!ClosedKept
    <2>1. ASSUME NEW d \in Calls
          PROVE  /\ RecordOf(d).st = "closed" =>
                      /\ RecordOf(d)'.st = "closed"
                      /\ RecordOf(d)'.lines = RecordOf(d).lines
                      /\ RecordOf(d)'.esc = RecordOf(d).esc
                 /\ RecordOf(d).esc => /\ RecordOf(d)'.st \in {"open", "closed"}
                                       /\ RecordOf(d)'.esc
                 /\ evals'[d] >= evals[d]
      <3>1. RowKept(d)
        BY <1>1, StepKeepsRow
      <3> QED  BY <3>1, BookFields DEF RowKept
    <2> QED  BY <2>1 DEF Record!ClosedKept
  <1> QED  BY <1>1, RowInvariant, QaInvariant, RecordInvariant, PTL DEF Spec

=============================================================================
