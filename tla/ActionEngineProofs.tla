------------------------- MODULE ActionEngineProofs -------------------------
(***************************************************************************)
(* Proofs about ActionEngine, for any number of attempts and ids and every *)
(* bound: the types; the numbers, from the sequences through the attempts  *)
(* to the rows, which make the tickets agree with the audit log and the    *)
(* log a trail of AuditTrail; the work behind each successful row; and     *)
(* what undisturbed ids are promised.                                      *)
(***************************************************************************)
EXTENDS ActionEngine, TLAPS

(* The types, in four parts. *)
RowTypes ==
  /\ audit \subseteq [id : Ids, ok : BOOLEAN, inc : Nat, res : Nat]
  /\ incidents \subseteq [num : Nat \ {0}, id : Ids]
  /\ resolutions \subseteq [num : Nat \ {0}, inc : Nat \ {0}]

CountTypes ==
  /\ incSeq \in Nat /\ resSeq \in Nat
  /\ faults \in Nat /\ restarts \in Nat
  /\ done \in [Ids -> Nat]

DeskTypes ==
  /\ kyc \in BOOLEAN /\ cooling \in BOOLEAN
  /\ completed \subseteq Registry
  /\ card \in [Registry -> CardStates]
  /\ worked \subseteq Registry
  /\ disturbed \subseteq Ids

ReqTypes == req \in [Attempts -> AttemptStates]

(* An attempt past its lookup has a registered action. *)
Registered(r) == req[r].at \in Steps \ {"idle", "lookup", "answer", "over"}
                   \/ req[r].via = "ws" => req[r].act \in Registry

(* What an attempt has drawn and done, by where it is. *)
Drawn(r) ==
  /\ req[r].at \in {"idle", "lookup", "check", "apply"} =>
       ~req[r].ok /\ ~req[r].broken /\ req[r].inc = 0 /\ req[r].res = 0
  /\ req[r].at = "incident" =>
       req[r].ok /\ ~req[r].broken /\ req[r].inc = 0 /\ req[r].res = 0
  /\ req[r].at = "resolution" =>
       req[r].ok /\ ~req[r].broken /\ req[r].inc \in 1..incSeq /\ req[r].res = 0
  /\ req[r].at = "audit" =>
       \/ /\ req[r].ok /\ ~req[r].broken
          /\ req[r].inc \in 1..incSeq /\ req[r].res \in 1..resSeq
       \/ (~req[r].ok \/ req[r].broken) /\ req[r].inc = 0 /\ req[r].res = 0
  /\ Running(r) => req[r].out = "none"

LEMMA FreshIsAttempt == Fresh \in AttemptStates
  <1>1. (CHOOSE i \in Ids : TRUE) \in Ids
    BY IdsAssumption
  <1> QED  BY <1>1 DEF Fresh, AttemptStates, Steps, Names

ReqInv == ReqTypes /\ CountTypes /\ \A r \in Attempts : Registered(r) /\ Drawn(r)

LEMMA ReqInit == Init => ReqInv
  <1> SUFFICES ASSUME Init
               PROVE  ReqInv
    OBVIOUS
  <1>1. ReqTypes /\ CountTypes
    BY FreshIsAttempt DEF Init, ReqTypes, CountTypes
  <1>2. ASSUME NEW r \in Attempts
        PROVE  Registered(r) /\ Drawn(r)
    BY DEF Init, Fresh, Registered, Drawn, Running
  <1> QED  BY <1>1, <1>2 DEF ReqInv

(* The sequences and counts only grow. *)
LEMMA CountStep ==
  ASSUME ReqInv, [Next]_vars
  PROVE  /\ CountTypes' /\ incSeq' >= incSeq /\ resSeq' >= resSeq
         /\ \A i \in Ids : done[i] > 0 => done'[i] > 0
  <1> USE DEF CountTypes, vars, rows, desk, history
  <1>1. CountTypes /\ ReqTypes
    BY DEF ReqInv
  <1>2. ASSUME NEW r \in Attempts, Apply(r)
        PROVE  UNCHANGED <<incSeq, resSeq, faults, restarts>>
               /\ done' = [done EXCEPT ![req[r].id] = @ + 1]
    BY <1>2 DEF Apply
  <1>3. ASSUME NEW r \in Attempts, Incident(r) \/ Resolution(r)
        PROVE  /\ UNCHANGED <<faults, restarts, done>>
               /\ incSeq' = incSeq \/ incSeq' = incSeq + 1
               /\ resSeq' = resSeq \/ resSeq' = resSeq + 1
    BY <1>3 DEF Incident, Resolution
  <1>4. ASSUME NEW r \in Attempts, ApplyFails(r) \/ TicketFails(r) \/ AuditLost(r)
        PROVE  /\ UNCHANGED <<incSeq, resSeq, restarts, done>>
               /\ faults' = faults \/ faults' = faults + 1
    BY <1>4 DEF ApplyFails, TicketFails, AuditLost
  <1>5. CASE Restart
    BY <1>1, <1>5 DEF Restart
  <1>6. ASSUME NEW r \in Attempts,
               \/ \E i \in Ids, a \in Names, c \in BOOLEAN : Approve(r, i, a, c) \/ Post(r, i, a, c)
               \/ Replay(r) \/ NotFound(r) \/ Lookup(r) \/ Check(r) \/ Audit(r)
               \/ AnswerDesktop(r) \/ AnswerClient(r)
        PROVE  UNCHANGED <<incSeq, resSeq, faults, restarts, done>>
    BY <1>6 DEF Approve, Post, Deliver, Replay, NotFound, Lookup, Check, Audit,
                AnswerDesktop, AnswerClient
  <1>7. CASE Cool \/ UNCHANGED vars
    BY <1>1, <1>7 DEF Cool
  <1> QED  BY <1>1, <1>2, <1>3, <1>4, <1>5, <1>6, <1>7 DEF Next, EngineStep

(* The attempt after its step. *)
Moves(r, u) ==
  LET t == req[r] IN
  \/ /\ t.at = "idle" /\ u.at = "lookup" /\ ~u.ok /\ ~u.broken /\ u.inc = 0
     /\ u.res = 0 /\ u.out = "none" /\ (u.via = "ws" => u.act \in Registry)
  \/ u.at \in {"answer", "over"} /\ u.via = t.via /\ u.act = t.act /\ t.at # "idle"
  \/ /\ t.at = "lookup" /\ t.act \in Registry /\ u = [t EXCEPT !.at = "check"]
  \/ t.at = "check" /\ \E at \in {"audit", "apply"} : u = [t EXCEPT !.at = at]
  \/ t.at = "apply" /\ u = [t EXCEPT !.at = "incident", !.ok = TRUE]
  \/ t.at = "apply" /\ u = [t EXCEPT !.at = "audit"]
  \/ t.at = "incident" /\ incSeq' = incSeq + 1 /\ u = [t EXCEPT !.at = "resolution", !.inc = incSeq + 1]
  \/ t.at = "incident" /\ u = [t EXCEPT !.at = "audit", !.broken = TRUE]
  \/ t.at = "resolution" /\ resSeq' = resSeq + 1 /\ u = [t EXCEPT !.at = "audit", !.res = resSeq + 1]
  \/ t.at \in {"incident", "resolution"} /\ u = [t EXCEPT !.at = "audit", !.broken = TRUE, !.inc = 0]

Acts(r) ==
  \/ \E i \in Ids, a \in Names, c \in BOOLEAN : Approve(r, i, a, c) \/ Post(r, i, a, c)
  \/ EngineStep(r)

LEMMA AttemptMoves ==
  ASSUME ReqInv, NEW r \in Attempts, RowTypes, Acts(r)
  PROVE  \E u \in AttemptStates : req' = [req EXCEPT ![r] = u] /\ Moves(r, u)
  <1>1. req[r] \in AttemptStates /\ req \in [Attempts -> AttemptStates]
    BY DEF ReqInv, ReqTypes
  <1>2. ASSUME NEW i \in Ids, NEW a \in Names, NEW c \in BOOLEAN, NEW via \in {"ws", "http"},
               Deliver(r, i, a, via, c), via = "ws" => a \in Registry
        PROVE  \E u \in AttemptStates : req' = [req EXCEPT ![r] = u] /\ Moves(r, u)
    <2> DEFINE u == [Fresh EXCEPT !.at = "lookup", !.id = i, !.act = a, !.via = via, !.customer = c]
    <2>1. u \in AttemptStates
      BY FreshIsAttempt DEF AttemptStates, Steps
    <2>2. u.at = "lookup" /\ ~u.ok /\ ~u.broken /\ u.inc = 0 /\ u.res = 0 /\ u.out = "none" /\ u.via = via /\ u.act = a
      BY DEF Fresh
    <2>3. req' = [req EXCEPT ![r] = u] /\ req[r].at = "idle"
      BY <1>2 DEF Deliver
    <2> HIDE DEF u
    <2> QED  BY <1>2, <2>1, <2>2, <2>3 DEF Moves
  <1>3. CASE NotFound(r) \/ AnswerDesktop(r) \/ AnswerClient(r) \/ Audit(r) \/ AuditLost(r)
    BY <1>1, <1>3 DEF NotFound, AnswerDesktop, AnswerClient, GoTo, Audit, AuditLost,
       Answered, Moves, AttemptStates, Steps
  <1>4. CASE Replay(r)
    <2>1. PICK e \in RowOf(req[r].id) :
            req' = [req EXCEPT ![r].at = "answer", ![r].inc = e.inc, ![r].res = e.res,
                      ![r].ok = e.ok,
                      ![r].out = IF e.ok \/ req[r].via = "ws" THEN "success"
                                 ELSE "failure"]
      BY <1>4 DEF Replay
    <2> DEFINE u == [req[r] EXCEPT !.at = "answer", !.inc = e.inc, !.res = e.res,
                       !.ok = e.ok, !.out = IF e.ok \/ req[r].via = "ws" THEN "success"
                                            ELSE "failure"]
    <2>2. e.inc \in Nat /\ e.res \in Nat /\ e.ok \in BOOLEAN
      BY DEF RowTypes, RowOf
    <2>3. u \in AttemptStates
      BY <1>1, <2>2 DEF AttemptStates, Steps
    <2>4. u.at = "answer" /\ u.via = req[r].via /\ u.act = req[r].act
      BY <1>1 DEF AttemptStates
    <2>5. req' = [req EXCEPT ![r] = u] /\ req[r].at # "idle"
      BY <1>4, <2>1 DEF Replay
    <2> HIDE DEF u
    <2> QED  BY <2>3, <2>4, <2>5 DEF Moves
  <1>5. CASE Lookup(r) \/ Check(r) \/ Apply(r) \/ ApplyFails(r)
    BY <1>1, <1>5 DEF Lookup, Check, Apply, ApplyFails, GoTo, Moves, AttemptStates, Steps
  <1>6. CASE Incident(r) \/ Resolution(r) \/ TicketFails(r)
    <2>1. incSeq + 1 \in Nat /\ resSeq + 1 \in Nat /\ 0 \in Nat
      BY DEF ReqInv, CountTypes
    <2>2. /\ [req[r] EXCEPT !.at = "resolution", !.inc = incSeq + 1] \in AttemptStates
          /\ [req[r] EXCEPT !.at = "audit", !.broken = TRUE] \in AttemptStates
          /\ [req[r] EXCEPT !.at = "audit", !.res = resSeq + 1] \in AttemptStates
          /\ [req[r] EXCEPT !.at = "audit", !.broken = TRUE, !.inc = 0] \in AttemptStates
      <3>1. \A n \in Nat : [req[r] EXCEPT !.at = "resolution", !.inc = n] \in AttemptStates
        BY <1>1 DEF AttemptStates, Steps
      <3>2. \A n \in Nat : [req[r] EXCEPT !.at = "audit", !.res = n] \in AttemptStates
        BY <1>1 DEF AttemptStates, Steps
      <3>3. [req[r] EXCEPT !.at = "audit", !.broken = TRUE] \in AttemptStates
        BY <1>1 DEF AttemptStates, Steps
      <3>4. [req[r] EXCEPT !.at = "audit", !.broken = TRUE, !.inc = 0] \in AttemptStates
        BY <1>1 DEF AttemptStates, Steps
      <3> QED  BY <2>1, <3>1, <3>2, <3>3, <3>4
    <2>3. CASE Incident(r)
      BY <1>1, <2>2, <2>3 DEF Incident, Moves
    <2>4. CASE Resolution(r)
      BY <1>1, <2>2, <2>4 DEF Resolution, Moves
    <2>5. CASE TicketFails(r)
      BY <1>1, <2>2, <2>5 DEF TicketFails, Moves
    <2> QED  BY <1>6, <2>3, <2>4, <2>5
  <1> QED  BY <1>2, <1>3, <1>4, <1>5, <1>6 DEF Acts, EngineStep, Approve, Post

(* A restart leaves an attempt idle, or over. *)
LEMMA RestartMoves ==
  ASSUME ReqInv, Restart
  PROVE  /\ req' \in [Attempts -> AttemptStates]
         /\ \A r \in Attempts :
              \/ req[r].at = "idle" /\ req'[r] = req[r]
              \/ req[r].at # "idle" /\ req'[r] = [req[r] EXCEPT !.at = "over"]
         /\ UNCHANGED <<rows, incSeq, resSeq, kyc, card, faults, done, worked>>
  <1>1. \A r \in Attempts : [req[r] EXCEPT !.at = "over"] \in AttemptStates
    BY DEF ReqInv, ReqTypes, AttemptStates, Steps
  <1>2. req' = [r \in Attempts |->
              IF req[r].at = "idle" THEN req[r] ELSE [req[r] EXCEPT !.at = "over"]]
    BY DEF Restart
  <1> QED  BY <1>1, <1>2 DEF ReqInv, ReqTypes, Restart

(* What the moves of an attempt keep. *)
LEMMA MovesKeep ==
  ASSUME ReqInv, CountTypes', NEW r \in Attempts, NEW u \in AttemptStates,
         req' = [req EXCEPT ![r] = u], Moves(r, u), incSeq' >= incSeq, resSeq' >= resSeq
  PROVE  Registered(r)' /\ Drawn(r)'
  <1>1. req[r] \in AttemptStates /\ req'[r] = u /\ Registered(r) /\ Drawn(r)
    BY DEF ReqInv, ReqTypes
  <1>2. incSeq \in Nat /\ resSeq \in Nat /\ incSeq' \in Nat /\ resSeq' \in Nat
    BY DEF ReqInv, CountTypes
  <1>3. Registered(r)'
    BY <1>1 DEF Registered, Moves, AttemptStates, Steps
  <1>4. Drawn(r)'
    <2> DEFINE t == req[r]
    <2> USE DEF AttemptStates, Steps
    <2>1. CASE u.at \in {"answer", "over"}
      BY <1>1, <2>1 DEF Drawn, Running
    <2>2. CASE t.at = "idle" /\ u.at = "lookup" /\ ~u.ok /\ ~u.broken /\ u.inc = 0
               /\ u.res = 0 /\ u.out = "none"
      BY <1>1, <2>2 DEF Drawn, Running
    <2>3. CASE t.at = "lookup" /\ u = [t EXCEPT !.at = "check"]
      BY <1>1, <2>3 DEF Drawn, Running
    <2>4. CASE t.at = "check" /\ \E at \in {"audit", "apply"} : u = [t EXCEPT !.at = at]
      BY <1>1, <2>4 DEF Drawn, Running
    <2>5. CASE t.at = "apply" /\ u = [t EXCEPT !.at = "incident", !.ok = TRUE]
      BY <1>1, <2>5 DEF Drawn, Running
    <2>6. CASE t.at = "apply" /\ u = [t EXCEPT !.at = "audit"]
      BY <1>1, <2>6 DEF Drawn, Running
    <2>7. CASE t.at = "incident" /\ incSeq' = incSeq + 1
               /\ u = [t EXCEPT !.at = "resolution", !.inc = incSeq + 1]
      <3>1. u.at = "resolution" /\ u.inc = incSeq + 1 /\ u.ok = t.ok /\ u.broken = t.broken
            /\ u.res = t.res /\ u.out = t.out
        BY <1>1, <2>7
      <3>2. t.ok /\ ~t.broken /\ t.res = 0 /\ t.out = "none"
        BY <1>1, <2>7 DEF Drawn, Running
      <3>3. u.inc \in 1..incSeq'
        BY <1>2, <2>7, <3>1
      <3> QED  BY <1>1, <3>1, <3>2, <3>3 DEF Drawn, Running
    <2>8. CASE t.at = "incident" /\ u = [t EXCEPT !.at = "audit", !.broken = TRUE]
      BY <1>1, <2>8 DEF Drawn, Running
    <2>9. CASE t.at = "resolution" /\ resSeq' = resSeq + 1
               /\ u = [t EXCEPT !.at = "audit", !.res = resSeq + 1]
      <3>1. u.at = "audit" /\ u.res = resSeq + 1 /\ u.ok = t.ok /\ u.broken = t.broken
            /\ u.inc = t.inc /\ u.out = t.out
        BY <1>1, <2>9
      <3>2. t.ok /\ ~t.broken /\ t.inc \in 1..incSeq /\ t.out = "none"
        BY <1>1, <2>9 DEF Drawn, Running
      <3>3. u.res \in 1..resSeq' /\ u.inc \in 1..incSeq'
        BY <1>2, <2>9, <3>1, <3>2
      <3> QED  BY <1>1, <3>1, <3>2, <3>3 DEF Drawn, Running
    <2>10. CASE /\ t.at \in {"incident", "resolution"}
                /\ u = [t EXCEPT !.at = "audit", !.broken = TRUE, !.inc = 0]
      <3>1. u.at = "audit" /\ u.broken /\ u.inc = 0 /\ u.res = t.res /\ u.out = t.out
        BY <1>1, <2>10
      <3>2. t.res = 0 /\ t.out = "none"
        BY <1>1, <2>10 DEF Drawn, Running
      <3> QED  BY <1>1, <3>1, <3>2 DEF Drawn, Running
    <2> QED  BY <1>1, <2>1, <2>2, <2>3, <2>4, <2>5, <2>6, <2>7, <2>8, <2>9, <2>10
             DEF Moves
  <1> QED  BY <1>3, <1>4

LEMMA ReqStep == ReqInv /\ RowTypes /\ [Next]_vars => ReqInv'
  <1> SUFFICES ASSUME ReqInv, RowTypes, [Next]_vars
               PROVE  ReqInv'
    OBVIOUS
  <1>1. CountTypes' /\ incSeq' >= incSeq /\ resSeq' >= resSeq
    BY CountStep
  <1>2. /\ CountTypes /\ ReqTypes
        /\ incSeq \in Nat /\ resSeq \in Nat /\ incSeq' \in Nat /\ resSeq' \in Nat
    BY <1>1 DEF ReqInv, CountTypes
  <1>3. ASSUME NEW r \in Attempts, Acts(r)
        PROVE  ReqInv'
    <2>1. PICK u \in AttemptStates : req' = [req EXCEPT ![r] = u] /\ Moves(r, u)
      BY <1>3, AttemptMoves
    <2>2. ReqTypes'
      BY <1>2, <2>1 DEF ReqTypes
    <2>3. ASSUME NEW q \in Attempts
          PROVE  Registered(q)' /\ Drawn(q)'
      <3>1. CASE q = r
        BY <1>1, <2>1, <3>1, MovesKeep DEF ReqInv
      <3>2. CASE q # r
        <4>1. req'[q] = req[q]
          BY <1>2, <2>1, <3>2 DEF ReqTypes
        <4> QED  BY <1>1, <1>2, <4>1 DEF ReqInv, Registered, Drawn, Running
      <3> QED  BY <3>1, <3>2
    <2> QED  BY <1>1, <2>2, <2>3 DEF ReqInv
  <1>4. CASE Restart
    <2>1. ASSUME NEW q \in Attempts
          PROVE  Registered(q)' /\ Drawn(q)'
      <3>1. req[q] \in AttemptStates /\ Registered(q) /\ Drawn(q)
        BY DEF ReqInv, ReqTypes
      <3>2. CASE req'[q] = req[q] /\ req[q].at = "idle"
        BY <3>1, <3>2 DEF Registered, Drawn, Running
      <3>3. CASE req'[q] = [req[q] EXCEPT !.at = "over"]
        <4>1. req'[q].at = "over" /\ req'[q].act = req[q].act /\ req'[q].via = req[q].via
          BY <3>1, <3>3 DEF AttemptStates
        <4> QED  BY <3>1, <4>1 DEF Registered, Drawn, Running, Steps
      <3> QED  BY <1>4, <3>2, <3>3, RestartMoves
    <2> QED  BY <1>1, <1>4, <2>1, RestartMoves DEF ReqInv, ReqTypes
  <1>5. CASE req' = req
    BY <1>1, <1>2, <1>5 DEF ReqInv, ReqTypes, Registered, Drawn, Running
  <1> QED  BY <1>3, <1>4, <1>5 DEF Next, Acts, Cool, vars

-----------------------------------------------------------------------------
(* The numbers.  A number drawn is held by one running attempt, or is that *)
(* of one row of the log, or is lost; the tickets are those of the rows.   *)
Tickets ==
  /\ incidents = {[num |-> e.inc, id |-> e.id] : e \in {x \in audit : x.ok}}
  /\ resolutions = {[num |-> e.res, inc |-> e.inc] : e \in {x \in audit : x.ok}}

Numbered ==
  /\ \A e, f \in audit : e.id = f.id \/ (e.inc # 0 /\ e.inc = f.inc)
                          \/ (e.res # 0 /\ e.res = f.res) => e = f
  /\ \A e \in audit : \/ e.ok /\ e.inc \in 1..incSeq /\ e.res \in 1..resSeq
                      \/ ~e.ok /\ e.inc = 0 /\ e.res = 0

(* Two running attempts hold different numbers, and no row has them yet. *)
Apart(r, q) ==
  Running(r) /\ Running(q) /\ r # q =>
    /\ req[r].inc # 0 => req[r].inc # req[q].inc
    /\ req[r].res # 0 => req[r].res # req[q].res

Unwritten(r) ==
  Running(r) => \A e \in audit : /\ req[r].inc # 0 => req[r].inc # e.inc
                                 /\ req[r].res # 0 => req[r].res # e.res

Holdings == \A r \in Attempts : Unwritten(r) /\ \A q \in Attempts : Apart(r, q)

NumberInv == RowTypes /\ Tickets /\ Numbered /\ Holdings

LEMMA NumberInit == Init => NumberInv
  <1> SUFFICES ASSUME Init
               PROVE  NumberInv
    OBVIOUS
  <1>1. RowTypes /\ Tickets /\ Numbered
    BY DEF Init, RowTypes, Tickets, Numbered
  <1>2. ASSUME NEW r \in Attempts
        PROVE  ~Running(r)
    BY DEF Init, Running, Fresh
  <1> QED  BY <1>1, <1>2 DEF NumberInv, Holdings, Unwritten, Apart

(* What a running attempt holds was drawn. *)
LEMMA HeldWasDrawn ==
  ASSUME ReqInv, NEW r \in Attempts, Running(r)
  PROVE  /\ req[r].inc \in 0..incSeq /\ req[r].res \in 0..resSeq
         /\ incSeq \in Nat /\ resSeq \in Nat
  BY DEF ReqInv, ReqTypes, CountTypes, AttemptStates, Steps, Drawn, Running

(* What an attempt holds after its move: nothing, what it held, or the     *)
(* next number.                                                            *)
LEMMA Holds ==
  ASSUME ReqInv, NEW r \in Attempts, NEW u \in AttemptStates, Moves(r, u)
  PROVE  \/ u.at \in {"answer", "over"}
         \/ /\ \/ u.inc = 0
               \/ Running(r) /\ u.inc = req[r].inc
               \/ incSeq' = incSeq + 1 /\ u.inc = incSeq + 1
            /\ \/ u.res = 0
               \/ Running(r) /\ u.res = req[r].res
               \/ resSeq' = resSeq + 1 /\ u.res = resSeq + 1
  <1> DEFINE t == req[r]
  <1>1. t \in AttemptStates
    BY DEF ReqInv, ReqTypes
  <1> USE DEF AttemptStates, Running
  <1>2. CASE u.inc = 0 /\ u.res = 0
    BY <1>2
  <1>3. CASE t.at = "lookup" /\ u = [t EXCEPT !.at = "check"]
    BY <1>1, <1>3
  <1>4. CASE t.at = "check" /\ \E at \in {"audit", "apply"} : u = [t EXCEPT !.at = at]
    BY <1>1, <1>4
  <1>5. CASE t.at = "apply" /\ (u = [t EXCEPT !.at = "incident", !.ok = TRUE]
                               \/ u = [t EXCEPT !.at = "audit"])
    BY <1>1, <1>5
  <1>6. CASE t.at = "incident" /\ incSeq' = incSeq + 1
             /\ u = [t EXCEPT !.at = "resolution", !.inc = incSeq + 1]
    BY <1>1, <1>6
  <1>7. CASE t.at = "incident" /\ u = [t EXCEPT !.at = "audit", !.broken = TRUE]
    BY <1>1, <1>7
  <1>8. CASE t.at = "resolution" /\ resSeq' = resSeq + 1
             /\ u = [t EXCEPT !.at = "audit", !.res = resSeq + 1]
    BY <1>1, <1>8
  <1>9. CASE /\ t.at \in {"incident", "resolution"}
             /\ u = [t EXCEPT !.at = "audit", !.broken = TRUE, !.inc = 0]
    BY <1>1, <1>9
  <1> QED  BY <1>2, <1>3, <1>4, <1>5, <1>6, <1>7, <1>8, <1>9 DEF Moves

(* Moves that write no row keep the numbers apart. *)
LEMMA HoldingsMove ==
  ASSUME ReqInv, NumberInv, NEW r \in Attempts, NEW u \in AttemptStates,
         req' = [req EXCEPT ![r] = u], Moves(r, u), UNCHANGED rows
  PROVE  Holdings'
  <1>1. /\ req'[r] = u /\ req \in [Attempts -> AttemptStates] /\ audit' = audit
        /\ \A q \in Attempts : q # r => req'[q] = req[q]
    BY DEF ReqInv, ReqTypes, rows
  <1>2. incSeq \in Nat /\ resSeq \in Nat
    BY DEF ReqInv, CountTypes
  <1>3. ASSUME Running(r)'
        PROVE  /\ \/ u.inc = 0
                  \/ Running(r) /\ u.inc = req[r].inc
                  \/ u.inc = incSeq + 1
               /\ \/ u.res = 0
                  \/ Running(r) /\ u.res = req[r].res
                  \/ u.res = resSeq + 1
    BY <1>1, <1>3, Holds DEF Running
  <1>4. \A e \in audit : e.inc # incSeq + 1 /\ e.res # resSeq + 1
    BY <1>2 DEF NumberInv, Numbered
  <1>5. ASSUME NEW q \in Attempts, Running(q)
        PROVE  req[q].inc # incSeq + 1 /\ req[q].res # resSeq + 1
    BY <1>2, <1>5, HeldWasDrawn
  <1>6. Unwritten(r)'
    BY <1>1, <1>3, <1>4 DEF NumberInv, Holdings, Unwritten
  <1>7. ASSUME NEW q \in Attempts, q # r
        PROVE  Unwritten(q)' /\ Apart(r, q)' /\ Apart(q, r)'
    <2>1. req'[q] = req[q] /\ (Running(q)' <=> Running(q))
      BY <1>1, <1>7 DEF Running
    <2>2. Unwritten(q)'
      BY <1>1, <2>1 DEF NumberInv, Holdings, Unwritten
    <2>3. Apart(r, q) /\ Apart(q, r)
      BY DEF NumberInv, Holdings
    <2>4. Apart(r, q)' /\ Apart(q, r)'
      BY <1>1, <1>3, <1>5, <1>7, <2>1, <2>3 DEF Apart
    <2> QED  BY <2>2, <2>4
  <1>8. ASSUME NEW p \in Attempts, NEW q \in Attempts, p # r, q # r
        PROVE  Apart(p, q)'
    BY <1>1, <1>8 DEF NumberInv, Holdings, Apart, Running
  <1>9. Apart(r, r)'
    BY DEF Apart
  <1> QED  BY <1>6, <1>7, <1>8, <1>9 DEF Holdings

(* The row of an attempt: a success with its numbers, or a failure. *)
Entry(r) == [id |-> req[r].id, ok |-> req[r].ok, inc |-> req[r].inc, res |-> req[r].res]

LEMMA EntryIsNew ==
  ASSUME ReqInv, NumberInv, NEW r \in Attempts, Audit(r)
  PROVE  /\ Entry(r) \in [id : Ids, ok : BOOLEAN, inc : Nat, res : Nat]
         /\ \/ req[r].ok /\ req[r].inc \in 1..incSeq /\ req[r].res \in 1..resSeq
            \/ ~req[r].ok /\ req[r].inc = 0 /\ req[r].res = 0
         /\ \A f \in audit : /\ f.id # req[r].id
                             /\ req[r].inc # 0 => f.inc # req[r].inc
                             /\ req[r].res # 0 => f.res # req[r].res
         /\ audit' = audit \cup {Entry(r)}
  <1>1. req[r].at = "audit" /\ req[r] \in AttemptStates /\ Drawn(r) /\ Running(r)
    BY DEF Audit, ReqInv, ReqTypes, Running
  <1>2. ~req[r].broken /\ RowOf(req[r].id) = {} /\ CommitRows(r)
    BY DEF Audit, Commits
  <1>3. \A f \in audit : f.id # req[r].id
    BY <1>2 DEF RowOf
  <1>4. Unwritten(r)
    BY DEF NumberInv, Holdings
  <1>5. Entry(r) \in [id : Ids, ok : BOOLEAN, inc : Nat, res : Nat]
    BY <1>1 DEF AttemptStates, Entry
  <1> QED  BY <1>1, <1>2, <1>3, <1>4, <1>5 DEF Drawn, CommitRows, Entry, Unwritten

LEMMA AuditNumbers ==
  ASSUME ReqInv, NumberInv, NEW r \in Attempts, Audit(r)
  PROVE  RowTypes' /\ Tickets' /\ Numbered'
  <1> DEFINE e == Entry(r)
  <1>1. /\ e \in [id : Ids, ok : BOOLEAN, inc : Nat, res : Nat]
        /\ e.id = req[r].id /\ e.ok = req[r].ok /\ e.inc = req[r].inc /\ e.res = req[r].res
        /\ \/ e.ok /\ e.inc \in 1..incSeq /\ e.res \in 1..resSeq
           \/ ~e.ok /\ e.inc = 0 /\ e.res = 0
        /\ \A f \in audit : /\ f.id # e.id
                            /\ e.inc # 0 => f.inc # e.inc
                            /\ e.res # 0 => f.res # e.res
        /\ audit' = audit \cup {e}
    BY EntryIsNew DEF Entry
  <1>2. /\ IF e.ok
           THEN /\ incidents' = incidents \cup {[num |-> e.inc, id |-> e.id]}
                /\ resolutions' = resolutions \cup {[num |-> e.res, inc |-> e.inc]}
           ELSE UNCHANGED <<incidents, resolutions>>
        /\ UNCHANGED <<incSeq, resSeq>>
    BY <1>1 DEF Audit, CommitRows
  <1>3. incSeq \in Nat /\ resSeq \in Nat
    BY DEF ReqInv, CountTypes
  <1> HIDE DEF e
  <1>4. RowTypes'
    BY <1>1, <1>2, <1>3 DEF NumberInv, RowTypes
  <1>5. Tickets'
    BY <1>1, <1>2 DEF NumberInv, Tickets
  <1>6. Numbered'
    BY <1>1, <1>2 DEF NumberInv, Numbered
  <1> QED  BY <1>4, <1>5, <1>6

LEMMA AuditHoldings ==
  ASSUME ReqInv, NumberInv, NEW r \in Attempts, Audit(r)
  PROVE  Holdings'
  <1>1. /\ audit' = audit \cup {Entry(r)} /\ Entry(r).inc = req[r].inc
        /\ Entry(r).res = req[r].res
    BY EntryIsNew DEF Entry
  <1>2. /\ req'[r].at = "answer" /\ Running(r)
        /\ \A q \in Attempts : q # r => req'[q] = req[q]
    BY DEF Audit, Answered, Running, ReqInv, ReqTypes, AttemptStates
  <1>3. ~Running(r)'
    BY <1>2 DEF Running
  <1>4. ASSUME NEW q \in Attempts, q # r
        PROVE  Unwritten(q)'
    <2>1. Apart(r, q) /\ Apart(q, r) /\ Unwritten(q)
      BY DEF NumberInv, Holdings
    <2>2. req'[q] = req[q] /\ (Running(q)' <=> Running(q))
      BY <1>2, <1>4 DEF Running
    <2> QED  BY <1>1, <1>2, <1>4, <2>1, <2>2 DEF Apart, Unwritten
  <1>5. ASSUME NEW p \in Attempts, NEW q \in Attempts
        PROVE  Apart(p, q)'
    BY <1>2, <1>3 DEF NumberInv, Holdings, Apart, Running
  <1> QED  BY <1>3, <1>4, <1>5 DEF Holdings, Unwritten

(* Every action but the commit of the audit row leaves the rows. *)
LEMMA RowsStay ==
  ASSUME [Next]_vars, ~ \E r \in Attempts : Audit(r)
  PROVE  UNCHANGED rows
  BY DEF Next, vars, rows, EngineStep, Approve, Post, Deliver, Replay, NotFound, Lookup,
         Check, Apply, ApplyFails, Incident, Resolution, TicketFails, AuditLost,
         AnswerDesktop, AnswerClient, Cool, Restart

LEMMA NumberStep == ReqInv /\ NumberInv /\ [Next]_vars => NumberInv'
  <1> SUFFICES ASSUME ReqInv, NumberInv, [Next]_vars
               PROVE  NumberInv'
    OBVIOUS
  <1>1. ASSUME NEW r \in Attempts, Audit(r)
        PROVE  NumberInv'
    BY <1>1, AuditNumbers, AuditHoldings DEF NumberInv
  <1>2. CASE ~ \E r \in Attempts : Audit(r)
    <2>1. UNCHANGED rows
      BY <1>2, RowsStay
    <2>2. incSeq \in Nat /\ resSeq \in Nat /\ incSeq' \in Nat /\ resSeq' \in Nat
          /\ incSeq' >= incSeq /\ resSeq' >= resSeq
      BY CountStep DEF ReqInv, CountTypes
    <2>3. RowTypes' /\ Tickets' /\ Numbered'
      BY <2>1, <2>2 DEF rows, NumberInv, RowTypes, Tickets, Numbered
    <2>4. Holdings'
      <3>1. ASSUME NEW r \in Attempts, Acts(r)
            PROVE  Holdings'
        BY <2>1, <3>1, AttemptMoves, HoldingsMove DEF NumberInv
      <3>2. CASE Restart
        <4>1. \A r \in Attempts : ~Running(r)'
          BY <3>2, RestartMoves DEF Running, ReqInv, ReqTypes, AttemptStates
        <4> QED  BY <4>1 DEF Holdings, Unwritten, Apart
      <3>3. CASE req' = req
        BY <2>1, <3>3 DEF rows, NumberInv, Holdings, Unwritten, Apart, Running
      <3> QED  BY <3>1, <3>2, <3>3 DEF Next, Acts, Cool, vars
    <2> QED  BY <2>3, <2>4 DEF NumberInv
  <1> QED  BY <1>1, <1>2

THEOREM NumberInvariant == Spec => [](ReqInv /\ NumberInv)
  <1>1. NumberInv => RowTypes
    BY DEF NumberInv
  <1> QED  BY <1>1, ReqInit, ReqStep, NumberInit, NumberStep, PTL DEF Spec

(* Through failures, restarts and overlapping attempts of execute_action,  *)
(* the tickets agree with the audit log and no number is given twice.      *)
THEOREM TicketsAlwaysMatch == Spec => []TicketsMatch
  <1>1. NumberInv => TicketsMatch
    <2> SUFFICES ASSUME NumberInv
                 PROVE  TicketsMatch
      OBVIOUS
    <2>1. \A n, m \in incidents : n.num = m.num => n = m
      BY DEF NumberInv, Tickets, Numbered
    <2>2. \A n, m \in resolutions : n.num = m.num => n = m
      BY DEF NumberInv, Tickets, Numbered
    <2>3. \A n \in incidents : \E e \in audit :
            e.id = n.id /\ e.ok /\ e.inc = n.num
              /\ [num |-> e.res, inc |-> n.num] \in resolutions
      <3> SUFFICES ASSUME NEW n \in incidents
                   PROVE  \E e \in audit : e.id = n.id /\ e.ok /\ e.inc = n.num
                            /\ [num |-> e.res, inc |-> n.num] \in resolutions
        OBVIOUS
      <3>1. PICK e \in audit : e.ok /\ n = [num |-> e.inc, id |-> e.id]
        BY DEF NumberInv, Tickets
      <3>2. [num |-> e.res, inc |-> e.inc] \in resolutions
        BY <3>1 DEF NumberInv, Tickets
      <3>3. n.num = e.inc /\ n.id = e.id
        BY <3>1
      <3> QED  BY <3>1, <3>2, <3>3
    <2>4. \A e \in audit : e.ok => [num |-> e.inc, id |-> e.id] \in incidents
      BY DEF NumberInv, Tickets
    <2>5. \A e \in resolutions : \E n \in incidents : n.num = e.inc
      <3> SUFFICES ASSUME NEW e \in resolutions
                   PROVE  \E n \in incidents : n.num = e.inc
        OBVIOUS
      <3>1. PICK f \in audit : f.ok /\ e = [num |-> f.res, inc |-> f.inc]
        BY DEF NumberInv, Tickets
      <3>2. [num |-> f.inc, id |-> f.id] \in incidents
        BY <3>1 DEF NumberInv, Tickets
      <3> QED  BY <3>1, <3>2
    <2> QED  BY <2>1, <2>2, <2>3, <2>4, <2>5 DEF TicketsMatch
  <1> QED  BY <1>1, NumberInvariant, PTL

-----------------------------------------------------------------------------
(* The log is a trail: each step of the engine appends one entry to it, as *)
(* AuditTrail allows, or leaves it.                                        *)
LEMMA AuditAppends ==
  ASSUME ReqInv, NumberInv, NEW r \in Attempts, Audit(r)
  PROVE  Trail!TrailNext
  <1> DEFINE e == Entry(r)
  <1>1. /\ e \in [id : Ids, ok : BOOLEAN, inc : Nat, res : Nat]
        /\ e.id = req[r].id /\ e.ok = req[r].ok /\ e.inc = req[r].inc /\ e.res = req[r].res
        /\ \/ e.ok /\ e.inc \in 1..incSeq /\ e.res \in 1..resSeq
           \/ ~e.ok /\ e.inc = 0 /\ e.res = 0
        /\ \A f \in audit : /\ f.id # e.id
                            /\ e.inc # 0 => f.inc # e.inc
                            /\ e.res # 0 => f.res # e.res
        /\ audit' = audit \cup {e}
    BY EntryIsNew DEF Entry
  <1>2. incSeq \in Nat /\ resSeq \in Nat
    BY DEF ReqInv, CountTypes
  <1> HIDE DEF e
  <1>3. \A n \in 1..incSeq : n # 0
    BY <1>2
  <1>4. \A n \in 1..resSeq : n # 0
    BY <1>2
  <1>5. Trail!Append(e)
    BY <1>1, <1>3, <1>4 DEF Trail!Append
  <1>6. e \in Trail!Entries /\ e \in audit'
    BY <1>1 DEF Trail!Entries
  <1> QED  BY <1>5, <1>6 DEF Trail!TrailNext

(* Whatever overlaps, fails or restarts, execute_action's log is the trail *)
(* that engine.py promises: appended to, one entry for an execution id.    *)
THEOREM LogIsATrail == Spec => TrailKept
  <1>1. Init => Trail!TrailInit
    BY DEF Init, Trail!TrailInit
  <1>2. ReqInv /\ NumberInv /\ [Next]_vars => [Trail!TrailNext]_audit
    BY AuditAppends, RowsStay DEF rows
  <1> QED  BY <1>1, <1>2, NumberInvariant, PTL DEF Spec, TrailKept, Trail!TrailSpec

-----------------------------------------------------------------------------
(* The work.  An attempt that says it is done has had its handler commit.  *)
Worked(r) ==
  Running(r) /\ req[r].ok => done[req[r].id] > 0 /\ req[r].act \in worked

EarnInv == RowsAreEarned /\ \A r \in Attempts : Worked(r)

LEMMA EarnInit == Init => EarnInv
  BY DEF Init, EarnInv, RowsAreEarned, Worked, Running, Fresh

(* An attempt that is done after its move was before, or was applied.      *)
LEMMA OkMoves ==
  ASSUME ReqInv, NEW r \in Attempts, NEW u \in AttemptStates, Moves(r, u), u.ok,
         u.at \notin {"idle", "answer", "over"}
  PROVE  /\ u.id = req[r].id /\ u.act = req[r].act
         /\ \/ req[r].ok /\ Running(r)
            \/ req[r].at = "apply" /\ u.at = "incident"
  BY DEF ReqInv, ReqTypes, Moves, AttemptStates, Running

(* Only the handler moves an attempt from "apply" to "incident". *)
LEMMA AppliesMeans ==
  ASSUME ReqInv, RowTypes, NEW r \in Attempts, Acts(r), req[r].at = "apply",
         req'[r].at = "incident"
  PROVE  Apply(r)
  <1>1. req[r] \in AttemptStates /\ req \in [Attempts -> AttemptStates]
    BY DEF ReqInv, ReqTypes
  <1>2. Apply(r) \/ ApplyFails(r)
    BY DEF Acts, EngineStep, Approve, Post, Deliver, Replay, NotFound, Lookup, Check,
           Incident, Resolution, TicketFails, Audit, AuditLost, AnswerDesktop, AnswerClient
  <1>3. ~ApplyFails(r)
    BY <1>1 DEF ApplyFails, GoTo, AttemptStates
  <1> QED  BY <1>2, <1>3

LEMMA WorkGrows ==
  ASSUME ReqInv, [Next]_vars
  PROVE  worked \subseteq worked' /\ \A i \in Ids : done[i] > 0 => done'[i] > 0
  <1>1. worked \subseteq worked'
    BY DEF Next, vars, EngineStep, Approve, Post, Deliver, Replay, NotFound, Lookup,
           Check, Apply, ApplyFails, Incident, Resolution, TicketFails, Audit, AuditLost,
           AnswerDesktop, AnswerClient, Cool, Restart, history
  <1> QED  BY <1>1, CountStep

LEMMA EarnStep == ReqInv /\ NumberInv /\ EarnInv /\ [Next]_vars => EarnInv'
  <1> SUFFICES ASSUME ReqInv, NumberInv, EarnInv, [Next]_vars
               PROVE  EarnInv'
    OBVIOUS
  <1>1. /\ worked \subseteq worked' /\ \A i \in Ids : done[i] > 0 => done'[i] > 0
        /\ RowTypes /\ req \in [Attempts -> AttemptStates]
        /\ \A r \in Attempts : req[r].id \in Ids
    BY WorkGrows DEF NumberInv, ReqInv, ReqTypes, AttemptStates
  <1>2. RowsAreEarned'
    <2>1. CASE UNCHANGED rows
      BY <1>1, <2>1 DEF EarnInv, RowsAreEarned, RowTypes, rows
    <2>2. ASSUME NEW r \in Attempts, Audit(r)
          PROVE  RowsAreEarned'
      <3>1. /\ audit' = audit \cup {Entry(r)} /\ Entry(r).id = req[r].id
            /\ Entry(r).ok = req[r].ok
        BY <2>2, EntryIsNew DEF Entry
      <3>2. Running(r) /\ Worked(r)
        BY <2>2 DEF Audit, Running, EarnInv
      <3> QED  BY <1>1, <3>1, <3>2 DEF EarnInv, RowsAreEarned, RowTypes, Worked
    <2> QED  BY <2>1, <2>2, RowsStay
  <1>3. ASSUME NEW r \in Attempts, Acts(r), NEW q \in Attempts
        PROVE  Worked(q)'
    <2>1. PICK u \in AttemptStates : req' = [req EXCEPT ![r] = u] /\ Moves(r, u)
      BY <1>1, <1>3, AttemptMoves
    <2>2. CASE q # r
      BY <1>1, <2>1, <2>2 DEF EarnInv, Worked, Running
    <2>3. CASE q = r
      <3> SUFFICES ASSUME Running(r)', u.ok
                   PROVE  done'[u.id] > 0 /\ u.act \in worked'
        BY <1>1, <2>1, <2>3 DEF Worked
      <3>1. /\ u.id = req[r].id /\ u.act = req[r].act
            /\ \/ req[r].ok /\ Running(r)
               \/ req[r].at = "apply" /\ u.at = "incident"
        BY <1>1, <2>1, OkMoves DEF Running
      <3>2. CASE req[r].ok /\ Running(r)
        BY <1>1, <3>1, <3>2 DEF EarnInv, Worked
      <3>3. CASE req[r].at = "apply" /\ u.at = "incident"
        <4>1. Apply(r)
          BY <1>1, <1>3, <2>1, <3>3, AppliesMeans
        <4>2. done[req[r].id] \in Nat /\ done \in [Ids -> Nat]
          BY <1>1 DEF ReqInv, CountTypes
        <4> QED  BY <1>1, <3>1, <4>1, <4>2 DEF Apply
      <3> QED  BY <3>1, <3>2, <3>3
    <2> QED  BY <2>2, <2>3
  <1>4. ASSUME Restart, NEW q \in Attempts
        PROVE  Worked(q)'
    <2>1. ~Running(q)'
      BY <1>1, <1>4, RestartMoves DEF Running, AttemptStates
    <2> QED  BY <2>1 DEF Worked
  <1>5. ASSUME req' = req, NEW q \in Attempts
        PROVE  Worked(q)'
    BY <1>1, <1>5 DEF EarnInv, Worked, Running
  <1> QED  BY <1>2, <1>3, <1>4, <1>5 DEF EarnInv, Next, Acts, Cool, vars

THEOREM EarnInvariant == Spec => []EarnInv
  BY EarnInit, EarnStep, NumberInvariant, PTL DEF Spec

(* No row of the audit log says that an action succeeded which no handler  *)
(* did under its execution id.                                             *)
THEOREM RowsAreAlwaysEarned == Spec => []RowsAreEarned
  BY EarnInvariant, PTL DEF EarnInv

-----------------------------------------------------------------------------
(* What is left of the types. *)
LEMMA DeskStep == ReqInv /\ DeskTypes /\ [Next]_vars => DeskTypes'
  <1> SUFFICES ASSUME ReqInv, DeskTypes, [Next]_vars
               PROVE  DeskTypes'
    OBVIOUS
  <1> USE DEF rows, desk, history, vars, DeskTypes, CardStates
  <1>1. ASSUME NEW r \in Attempts
        PROVE  /\ req[r].id \in Ids /\ Registered(r)
               /\ req[r] \in AttemptStates
    BY DEF ReqInv, ReqTypes, AttemptStates
  <1>2. ASSUME NEW r \in Attempts, NEW i \in Ids, NEW a \in Names, NEW c \in BOOLEAN,
               Approve(r, i, a, c) \/ Post(r, i, a, c)
        PROVE  DeskTypes'
    BY <1>2 DEF Approve, Post, Deliver
  <1>3. ASSUME NEW r \in Attempts,
               \/ Replay(r) \/ NotFound(r) \/ Lookup(r) \/ Check(r) \/ ApplyFails(r)
               \/ Incident(r) \/ Resolution(r) \/ TicketFails(r) \/ Audit(r)
               \/ AnswerClient(r)
        PROVE  DeskTypes'
    BY <1>3 DEF Replay, NotFound, Lookup, Check, ApplyFails, Incident, Resolution,
                TicketFails, Audit, AnswerClient
  <1>4. ASSUME NEW r \in Attempts, Apply(r)
        PROVE  DeskTypes'
    <2>1. req[r].act \in Registry
      BY <1>1, <1>4 DEF Apply, Registered, Steps
    <2> QED  BY <1>4, <2>1 DEF Apply, MarkKyc, SendCode
  <1>5. ASSUME NEW r \in Attempts, AuditLost(r)
        PROVE  DeskTypes'
    BY <1>1, <1>5 DEF AuditLost
  <1>6. ASSUME NEW r \in Attempts, AnswerDesktop(r)
        PROVE  DeskTypes'
    <2>1. req[r].act \in Registry
      BY <1>1, <1>6 DEF AnswerDesktop, Registered
    <2> QED  BY <1>6, <2>1 DEF AnswerDesktop, Settled
  <1>7. CASE Restart \/ Cool \/ UNCHANGED vars
    BY <1>1, <1>7 DEF Restart, Cool, Running
  <1> QED  BY <1>2, <1>3, <1>4, <1>5, <1>6, <1>7 DEF Next, EngineStep

(* The rows, the attempts and what the desktop shows stay within their     *)
(* types, whatever the engine's callers send.                              *)
THEOREM TypeCorrect == Spec => []EngineTypeOK
  <1>1. Init => DeskTypes
    BY DEF Init, DeskTypes, CardStates
  <1>2. ASSUME ReqInv, NumberInv, DeskTypes
        PROVE  EngineTypeOK
    BY <1>2 DEF ReqInv, NumberInv, DeskTypes, ReqTypes, CountTypes, RowTypes, EngineTypeOK
  <1> QED  BY <1>1, <1>2, DeskStep, NumberInvariant, PTL DEF Spec

-----------------------------------------------------------------------------
(* An id is undisturbed while its attempts do not overlap and lose no row: *)
(* then at most one runs, past the lookup it has no row yet, and the work  *)
(* was done once, by the one that runs or by the one whose row says so.    *)
Only(i) ==
  \A r, q \in Attempts : Running(r) /\ Running(q) /\ req[r].id = i /\ req[q].id = i => r = q

NoRowYet(i) ==
  \A r \in Attempts : Running(r) /\ req[r].at # "lookup" /\ req[r].id = i => RowOf(i) = {}

DoneOnce(i) ==
  /\ done[i] \in {0, 1}
  /\ done[i] = 1 => \/ \E e \in audit : e.id = i /\ e.ok
                    \/ \E r \in Attempts : Running(r) /\ req[r].id = i /\ req[r].ok

OnceInv == \A i \in Ids \ disturbed : Only(i) /\ NoRowYet(i) /\ DoneOnce(i)

LEMMA OnceInit == Init => OnceInv
  <1> SUFFICES ASSUME Init
               PROVE  OnceInv
    OBVIOUS
  <1>1. \A r \in Attempts : ~Running(r)
    BY DEF Init, Running, Fresh
  <1>2. \A i \in Ids : done[i] = 0
    BY DEF Init
  <1> QED  BY <1>1, <1>2 DEF OnceInv, Only, NoRowYet, DoneOnce

(* Nothing is undisturbed again. *)
LEMMA DisturbedGrows ==
  ASSUME [Next]_vars
  PROVE  disturbed \subseteq disturbed'
  BY DEF Next, vars, EngineStep, Approve, Post, Deliver, Replay, NotFound, Lookup,
         Check, Apply, ApplyFails, Incident, Resolution, TicketFails, Audit, AuditLost,
         AnswerDesktop, AnswerClient, Cool, Restart, history

(* The attempts an action of r leaves alone. *)
LEMMA OthersStay ==
  ASSUME ReqInv, RowTypes, NEW r \in Attempts, Acts(r)
  PROVE  \A q \in Attempts : q # r => req'[q] = req[q] /\ (Running(q)' <=> Running(q))
  <1>1. PICK u \in AttemptStates : req' = [req EXCEPT ![r] = u]
    BY AttemptMoves
  <1> QED  BY <1>1 DEF ReqInv, ReqTypes, Running

(* A delivery finds no running attempt of an id that stays undisturbed.    *)
LEMMA DeliverOnce ==
  ASSUME ReqInv, RowTypes, OnceInv, NEW r \in Attempts, NEW j \in Ids, NEW a \in Names,
         NEW c \in BOOLEAN, Approve(r, j, a, c) \/ Post(r, j, a, c),
         NEW i \in Ids \ disturbed'
  PROVE  Only(i)' /\ NoRowYet(i)' /\ DoneOnce(i)'
  <1>1. PICK via : Deliver(r, j, a, via, c)
    BY DEF Approve, Post
  <1>2. /\ req[r].at = "idle" /\ UNCHANGED <<audit, done>>
        /\ req' = [req EXCEPT ![r] = [Fresh EXCEPT !.at = "lookup", !.id = j,
                                       !.act = a, !.via = via, !.customer = c]]
        /\ disturbed' = IF \E q \in Attempts : Running(q) /\ req[q].id = j
                        THEN disturbed \cup {j} ELSE disturbed
    BY <1>1 DEF Deliver, rows
  <1>3. req'[r].at = "lookup" /\ req'[r].id = j /\ ~Running(r)
    BY <1>2 DEF ReqInv, ReqTypes, Fresh, Running
  <1>4. \A q \in Attempts : q # r => req'[q] = req[q] /\ (Running(q)' <=> Running(q))
    BY OthersStay DEF Acts
  <1>5. i \notin disturbed /\ Only(i) /\ NoRowYet(i) /\ DoneOnce(i)
    BY <1>2 DEF OnceInv
  <1>6. i = j => \A q \in Attempts : ~(Running(q) /\ req[q].id = j)
    BY <1>2
  <1>7. Only(i)'
    BY <1>3, <1>4, <1>5, <1>6 DEF Only
  <1>8. NoRowYet(i)'
    BY <1>2, <1>3, <1>4, <1>5 DEF NoRowYet, RowOf
  <1>9. DoneOnce(i)'
    <2>1. \A q \in Attempts : Running(q) => req'[q] = req[q] /\ Running(q)'
      BY <1>3, <1>4
    <2> QED  BY <1>2, <1>5, <2>1 DEF DoneOnce
  <1> QED  BY <1>7, <1>8, <1>9

(* A step of the engine that neither works nor writes a row.               *)
LEMMA QuietStep ==
  ASSUME ReqInv, RowTypes, OnceInv, NEW r \in Attempts, EngineStep(r),
         UNCHANGED <<audit, done>>, Running(r)' => req'[r].ok = req[r].ok,
         ~Running(r)' => ~req[r].ok \/ req[r].id \in disturbed' \/ ~Running(r),
         Running(r)' => Running(r), req'[r].id = req[r].id,
         Running(r)' /\ req[r].at = "lookup" => RowOf(req[r].id) = {},
         NEW i \in Ids \ disturbed', disturbed \subseteq disturbed'
  PROVE  Only(i)' /\ NoRowYet(i)' /\ DoneOnce(i)'
  <1>1. \A q \in Attempts : q # r => req'[q] = req[q] /\ (Running(q)' <=> Running(q))
    BY OthersStay DEF Acts
  <1>2. i \notin disturbed /\ Only(i) /\ NoRowYet(i) /\ DoneOnce(i)
    BY DEF OnceInv
  <1>3. Only(i)'
    BY <1>1, <1>2 DEF Only
  <1>4. NoRowYet(i)'
    BY <1>1, <1>2 DEF NoRowYet, RowOf
  <1>5. DoneOnce(i)'
    <2>1. \A q \in Attempts : Running(q) /\ req[q].id = i /\ req[q].ok =>
            Running(q)' /\ req'[q].id = i /\ req'[q].ok
      BY <1>1
    <2> QED  BY <1>2, <2>1 DEF DoneOnce
  <1> QED  BY <1>3, <1>4, <1>5

(* The handler works for an id that no row and no other attempt has done.  *)
LEMMA ApplyOnce ==
  ASSUME ReqInv, RowTypes, OnceInv, NEW r \in Attempts, Apply(r), NEW i \in Ids \ disturbed'
  PROVE  Only(i)' /\ NoRowYet(i)' /\ DoneOnce(i)'
  <1>1. \A q \in Attempts : q # r => req'[q] = req[q] /\ (Running(q)' <=> Running(q))
    BY OthersStay DEF Acts, EngineStep
  <1>2. /\ req[r].at = "apply" /\ Running(r) /\ ~req[r].ok /\ req[r].id \in Ids
        /\ req'[r].at = "incident" /\ req'[r].ok /\ req'[r].id = req[r].id /\ Running(r)'
        /\ done' = [done EXCEPT ![req[r].id] = @ + 1] /\ UNCHANGED <<audit, disturbed>>
    BY DEF Apply, ReqInv, ReqTypes, AttemptStates, Drawn, Running, rows
  <1>3. i \notin disturbed /\ Only(i) /\ NoRowYet(i) /\ DoneOnce(i)
    BY <1>2 DEF OnceInv
  <1>4. Only(i)' /\ NoRowYet(i)'
    BY <1>1, <1>2, <1>3 DEF Only, NoRowYet, RowOf
  <1>5. done \in [Ids -> Nat]
    BY DEF ReqInv, CountTypes
  <1>6. CASE req[r].id = i
    <2>1. RowOf(i) = {} /\ \A q \in Attempts : Running(q) /\ req[q].id = i => q = r
      BY <1>2, <1>3, <1>6 DEF Only, NoRowYet
    <2>2. done[i] # 1
      BY <1>2, <1>3, <2>1 DEF DoneOnce, RowOf
    <2>3. done[i] = 0
      BY <1>3, <2>2 DEF DoneOnce
    <2>4. done'[i] = 1
      BY <1>2, <1>5, <1>6, <2>3
    <2> QED  BY <1>2, <1>4, <1>6, <2>4 DEF DoneOnce
  <1>7. CASE req[r].id # i
    <2>1. done'[i] = done[i]
      BY <1>2, <1>5, <1>7
    <2>2. \A q \in Attempts : Running(q) /\ req[q].id = i =>
            Running(q)' /\ req'[q] = req[q]
      BY <1>1, <1>7
    <2> QED  BY <1>2, <1>3, <1>4, <2>1, <2>2 DEF DoneOnce
  <1> QED  BY <1>6, <1>7

(* The row that is written says what its attempt did.                      *)
LEMMA AuditOnce ==
  ASSUME ReqInv, NumberInv, OnceInv, NEW r \in Attempts, Audit(r),
         NEW i \in Ids \ disturbed'
  PROVE  Only(i)' /\ NoRowYet(i)' /\ DoneOnce(i)'
  <1>1. \A q \in Attempts : q # r => req'[q] = req[q] /\ (Running(q)' <=> Running(q))
    BY OthersStay DEF Acts, EngineStep, NumberInv
  <1>2. /\ Running(r) /\ ~Running(r)' /\ UNCHANGED <<done, disturbed>>
    BY DEF Audit, Answered, Running, ReqInv, ReqTypes, AttemptStates, history
  <1>3. /\ audit' = audit \cup {Entry(r)} /\ Entry(r).id = req[r].id
        /\ Entry(r).ok = req[r].ok
    BY EntryIsNew DEF Entry
  <1>4. i \notin disturbed /\ Only(i) /\ NoRowYet(i) /\ DoneOnce(i)
    BY <1>2 DEF OnceInv
  <1>5. Only(i)'
    BY <1>1, <1>2, <1>4 DEF Only
  <1>6. NoRowYet(i)'
    <2> SUFFICES ASSUME NEW q \in Attempts, Running(q)', req'[q].at # "lookup",
                        req'[q].id = i
                 PROVE  RowOf(i)' = {}
      BY DEF NoRowYet
    <2>1. q # r /\ Running(q) /\ req[q] = req'[q]
      BY <1>1, <1>2
    <2>2. req[r].id # i
      BY <1>2, <1>4, <2>1 DEF Only
    <2> QED  BY <1>3, <1>4, <2>1, <2>2 DEF NoRowYet, RowOf
  <1>7. DoneOnce(i)'
    <2>1. CASE \E e \in audit : e.id = i /\ e.ok
      BY <1>2, <1>3, <1>4, <2>1 DEF DoneOnce
    <2>2. ASSUME NEW q \in Attempts, Running(q), req[q].id = i, req[q].ok
          PROVE  DoneOnce(i)'
      <3>1. CASE q = r
        BY <1>2, <1>3, <1>4, <2>2, <3>1 DEF DoneOnce
      <3>2. CASE q # r
        BY <1>1, <1>2, <1>4, <2>2, <3>2 DEF DoneOnce
      <3> QED  BY <3>1, <3>2
    <2>3. CASE done[i] = 0
      BY <1>2, <2>3 DEF DoneOnce
    <2> QED  BY <1>4, <2>1, <2>2, <2>3 DEF DoneOnce
  <1> QED  BY <1>5, <1>6, <1>7

(* A replay answers for the same attempt. *)
LEMMA ReplayAnswers ==
  ASSUME ReqInv, NEW r \in Attempts, Replay(r)
  PROVE  /\ req'[r].at = "answer" /\ req[r].at = "lookup" /\ req'[r].id = req[r].id
         /\ req'[r].act = req[r].act /\ req'[r].via = req[r].via
         /\ UNCHANGED <<audit, done>>
  <1>1. req[r] \in AttemptStates /\ req \in [Attempts -> AttemptStates]
    BY DEF ReqInv, ReqTypes
  <1>2. PICK e \in RowOf(req[r].id) :
          req' = [req EXCEPT ![r].at = "answer", ![r].inc = e.inc, ![r].res = e.res,
                    ![r].ok = e.ok,
                    ![r].out = IF e.ok \/ req[r].via = "ws" THEN "success"
                               ELSE "failure"]
    BY DEF Replay
  <1>3. req[r].at = "lookup" /\ UNCHANGED <<audit, done>>
    BY DEF Replay, rows, history
  <1> QED  BY <1>1, <1>2, <1>3 DEF AttemptStates

LEMMA OnceStep == ReqInv /\ NumberInv /\ OnceInv /\ [Next]_vars => OnceInv'
  <1> SUFFICES ASSUME ReqInv, NumberInv, OnceInv, [Next]_vars, NEW i \in Ids \ disturbed'
               PROVE  Only(i)' /\ NoRowYet(i)' /\ DoneOnce(i)'
    BY DEF OnceInv
  <1> USE DEF rows, desk, history
  <1>1. RowTypes /\ disturbed \subseteq disturbed'
    BY DisturbedGrows DEF NumberInv
  <1>2. ASSUME NEW r \in Attempts
        PROVE  /\ req \in [Attempts -> AttemptStates] /\ req[r] \in AttemptStates /\ Drawn(r)
    BY DEF ReqInv, ReqTypes
  <1>3. ASSUME NEW r \in Attempts, NEW j \in Ids, NEW a \in Names, NEW c \in BOOLEAN,
               Approve(r, j, a, c) \/ Post(r, j, a, c)
        PROVE  Only(i)' /\ NoRowYet(i)' /\ DoneOnce(i)'
    BY <1>1, <1>3, DeliverOnce
  <1>4. ASSUME NEW r \in Attempts, Replay(r) \/ NotFound(r)
        PROVE  Only(i)' /\ NoRowYet(i)' /\ DoneOnce(i)'
    <2>1. /\ UNCHANGED <<audit, done>> /\ ~Running(r)' /\ req'[r].id = req[r].id /\ ~req[r].ok
      BY <1>2, <1>4, ReplayAnswers DEF NotFound, AttemptStates, Running, Drawn
    <2> QED  BY <1>1, <1>4, <2>1, QuietStep DEF EngineStep
  <1>5. ASSUME NEW r \in Attempts, Lookup(r)
        PROVE  Only(i)' /\ NoRowYet(i)' /\ DoneOnce(i)'
    <2>1. /\ UNCHANGED <<audit, done>> /\ Running(r) /\ req'[r].id = req[r].id
          /\ req'[r].ok = req[r].ok /\ Running(r)' /\ RowOf(req[r].id) = {}
      BY <1>2, <1>5 DEF Lookup, Replays, GoTo, AttemptStates, Running
    <2> QED  BY <1>1, <1>5, <2>1, QuietStep DEF EngineStep
  <1>6. ASSUME NEW r \in Attempts,
               Check(r) \/ ApplyFails(r) \/ Incident(r) \/ Resolution(r) \/ TicketFails(r)
        PROVE  Only(i)' /\ NoRowYet(i)' /\ DoneOnce(i)'
    <2>1. UNCHANGED <<audit, done>> /\ Running(r) /\ req[r].at # "lookup"
      BY <1>2, <1>6 DEF Check, ApplyFails, Incident, Resolution, TicketFails, Running
    <2>2. req'[r].id = req[r].id /\ req'[r].ok = req[r].ok /\ Running(r)'
      BY <1>2, <1>6 DEF Check, ApplyFails, Incident, Resolution, TicketFails, GoTo,
                        AttemptStates, Running
    <2> QED  BY <1>1, <1>6, <2>1, <2>2, QuietStep DEF EngineStep
  <1>7. ASSUME NEW r \in Attempts, AuditLost(r)
        PROVE  Only(i)' /\ NoRowYet(i)' /\ DoneOnce(i)'
    <2>1. /\ UNCHANGED <<audit, done>> /\ ~Running(r)' /\ req'[r].id = req[r].id
          /\ req[r].id \in disturbed'
      BY <1>2, <1>7 DEF AuditLost, Answered, AttemptStates, Running
    <2> QED  BY <1>1, <1>7, <2>1, QuietStep DEF EngineStep
  <1>8. ASSUME NEW r \in Attempts, AnswerDesktop(r) \/ AnswerClient(r)
        PROVE  Only(i)' /\ NoRowYet(i)' /\ DoneOnce(i)'
    <2>1. /\ UNCHANGED <<audit, done>> /\ ~Running(r)' /\ req'[r].id = req[r].id
          /\ ~Running(r)
      BY <1>2, <1>8 DEF AnswerDesktop, AnswerClient, GoTo, AttemptStates, Running
    <2> QED  BY <1>1, <1>8, <2>1, QuietStep DEF EngineStep
  <1>9. CASE Restart
    <2>1. \A q \in Attempts : ~Running(q)' /\ ~(Running(q) /\ req[q].id = i)
      BY <1>2, <1>9, RestartMoves DEF Restart, Running, AttemptStates
    <2>2. UNCHANGED <<audit, done>> /\ DoneOnce(i)
      BY <1>1, <1>9 DEF Restart, OnceInv
    <2> QED  BY <2>1, <2>2 DEF Only, NoRowYet, DoneOnce
  <1>10. CASE Cool \/ UNCHANGED vars
    <2>1. UNCHANGED <<req, audit, done, disturbed>>
      BY <1>10 DEF Cool, vars
    <2> QED  BY <2>1 DEF OnceInv, Only, NoRowYet, DoneOnce, RowOf, Running
  <1> QED  BY <1>1, <1>3, <1>4, <1>5, <1>6, <1>7, <1>8, <1>9, <1>10, ApplyOnce, AuditOnce
           DEF Next, EngineStep

(* An execution id whose attempts did not overlap, and lost no row, had    *)
(* its work done at most once, and its row says so.                        *)
THEOREM UndisturbedIsOnce == Spec => []OnceUndisturbed
  <1>1. OnceInv => OnceUndisturbed
    BY DEF OnceInv, DoneOnce, OnceUndisturbed
  <1> QED  BY <1>1, OnceInit, OnceStep, NumberInvariant, PTL DEF Spec

-----------------------------------------------------------------------------
(* What the callers are told. *)

(* The engine keeps who an attempt is of.                                  *)
LEMMA StepKeeps ==
  ASSUME ReqInv, NEW r \in Attempts, EngineStep(r)
  PROVE  /\ req'[r].id = req[r].id /\ req'[r].act = req[r].act /\ req'[r].via = req[r].via
         /\ req[r].at # "idle" /\ req'[r].at # "idle"
  <1>1. req[r] \in AttemptStates /\ req \in [Attempts -> AttemptStates]
    BY DEF ReqInv, ReqTypes
  <1>2. CASE \/ Replay(r) \/ NotFound(r) \/ Lookup(r) \/ Check(r) \/ Apply(r) \/ ApplyFails(r)
    BY <1>1, <1>2, ReplayAnswers DEF NotFound, Lookup, Check, Apply, ApplyFails, GoTo,
       AttemptStates
  <1>3. CASE \/ Incident(r) \/ Resolution(r) \/ TicketFails(r) \/ Audit(r) \/ AuditLost(r)
             \/ AnswerDesktop(r) \/ AnswerClient(r)
    BY <1>1, <1>3 DEF Incident, Resolution, TicketFails, Audit, AuditLost, Answered,
                      AnswerDesktop, AnswerClient, GoTo, AttemptStates
  <1> QED  BY <1>2, <1>3 DEF EngineStep

Told(r) ==
  req[r].at \in {"answer", "over"} /\ req[r].out = "success"
      /\ req[r].inc # 0 /\ req[r].id \notin disturbed
    => [num |-> req[r].inc, id |-> req[r].id] \in incidents

(* The incidents only grow. *)
LEMMA IncidentsGrow ==
  ASSUME [Next]_vars
  PROVE  incidents \subseteq incidents'
  BY RowsStay DEF rows, Audit, CommitRows

LEMMA ToldStep ==
  ASSUME ReqInv, NumberInv, NEW r \in Attempts, EngineStep(r), Told(r), [Next]_vars
  PROVE  Told(r)'
  <1>1. /\ req[r] \in AttemptStates /\ req \in [Attempts -> AttemptStates] /\ Drawn(r)
        /\ incidents \subseteq incidents' /\ disturbed \subseteq disturbed'
        /\ req'[r].id = req[r].id
    BY IncidentsGrow, DisturbedGrows, StepKeeps DEF ReqInv, ReqTypes
  <1>2. CASE Replay(r)
    <2>1. PICK e \in RowOf(req[r].id) : req'[r].inc = e.inc
      BY <1>1, <1>2 DEF Replay, AttemptStates
    <2>2. e.inc # 0 => [num |-> e.inc, id |-> e.id] \in incidents
      BY <2>1 DEF NumberInv, Numbered, Tickets, RowOf
    <2> QED  BY <1>1, <2>1, <2>2 DEF Told, RowOf
  <1>3. CASE Audit(r)
    <2>1. /\ req'[r].inc = req[r].inc /\ (req'[r].out = "success" => req[r].ok)
          /\ req[r].ok => [num |-> req[r].inc, id |-> req[r].id] \in incidents'
      BY <1>1, <1>3 DEF Audit, Answered, CommitRows, AttemptStates
    <2> QED  BY <1>1, <2>1 DEF Told
  <1>4. CASE AuditLost(r)
    BY <1>1, <1>4 DEF AuditLost, Told
  <1>5. CASE AnswerDesktop(r) \/ AnswerClient(r)
    <2>1. /\ req[r].at = "answer" /\ req'[r].inc = req[r].inc /\ req'[r].out = req[r].out
      BY <1>1, <1>5 DEF AnswerDesktop, AnswerClient, GoTo, AttemptStates
    <2> QED  BY <1>1, <2>1 DEF Told
  <1>6. CASE NotFound(r)
    BY <1>1, <1>6 DEF NotFound, Told, AttemptStates
  <1>7. CASE \/ Lookup(r) \/ Check(r) \/ Apply(r) \/ ApplyFails(r)
             \/ Incident(r) \/ Resolution(r) \/ TicketFails(r)
    <2>1. req'[r].at \notin {"answer", "over"}
      BY <1>1, <1>7 DEF Lookup, Check, Apply, ApplyFails, Incident, Resolution,
                        TicketFails, GoTo, AttemptStates
    <2> QED  BY <2>1 DEF Told
  <1> QED  BY <1>2, <1>3, <1>4, <1>5, <1>6, <1>7 DEF EngineStep

(* The ticket numbers an attempt is told, undisturbed, are those of an     *)
(* incident with its id.                                                   *)
THEOREM ToldNumbersAlwaysExist == Spec => []ToldNumbersExist
  <1> DEFINE TInv == \A r \in Attempts : Told(r)
  <1>1. Init => TInv
    BY DEF Init, Told, Fresh
  <1>2. ReqInv /\ NumberInv /\ TInv /\ [Next]_vars => TInv'
    <2> SUFFICES ASSUME ReqInv, NumberInv, TInv, [Next]_vars, NEW q \in Attempts
                 PROVE  Told(q)'
      OBVIOUS
    <2>1. /\ incidents \subseteq incidents' /\ disturbed \subseteq disturbed' /\ RowTypes
          /\ Told(q) /\ req \in [Attempts -> AttemptStates] /\ Drawn(q)
      BY IncidentsGrow, DisturbedGrows DEF NumberInv, ReqInv, ReqTypes
    <2>2. CASE req'[q] = req[q]
      BY <2>1, <2>2 DEF Told
    <2>3. ASSUME NEW r \in Attempts, Acts(r)
          PROVE  Told(q)'
      <3>1. CASE q # r
        BY <2>1, <2>2, <2>3, <3>1, OthersStay
      <3>2. CASE q = r /\ EngineStep(r)
        BY <2>1, <3>2, ToldStep
      <3>3. ASSUME q = r, NEW i \in Ids, NEW a \in Names, NEW c \in BOOLEAN,
                   Approve(r, i, a, c) \/ Post(r, i, a, c)
            PROVE  Told(q)'
        <4>1. PICK via : Deliver(r, i, a, via, c)
          BY <3>3 DEF Approve, Post
        <4>2. req'[r].at = "lookup"
          BY <2>1, <4>1 DEF Deliver, Fresh
        <4> QED  BY <3>3, <4>2 DEF Told
      <3> QED  BY <2>3, <3>1, <3>2, <3>3 DEF Acts
    <2>4. CASE Restart
      <3>1. CASE req'[q] = [req[q] EXCEPT !.at = "over"] /\ req[q].at # "idle"
        <4>1. /\ req'[q].out = req[q].out /\ req'[q].inc = req[q].inc /\ req'[q].id = req[q].id
              /\ req[q] \in AttemptStates
          BY <2>1, <3>1 DEF AttemptStates
        <4>2. CASE Running(q)
          BY <2>1, <4>1, <4>2 DEF Drawn, Told
        <4>3. CASE req[q].at \in {"answer", "over"}
          BY <2>1, <4>1, <4>3 DEF Told
        <4> QED  BY <3>1, <4>1, <4>2, <4>3 DEF Running
      <3> QED  BY <2>2, <2>4, <3>1, RestartMoves
    <2> QED  BY <2>2, <2>3, <2>4 DEF Next, Acts, Cool, vars
  <1>3. TInv => ToldNumbersExist
    BY DEF Told, ToldNumbersExist
  <1> HIDE DEF TInv
  <1> QED  BY <1>1, <1>2, <1>3, NumberInvariant, PTL DEF Spec

-----------------------------------------------------------------------------
(* A desktop's ids are its own: no other attempt has one, no row of an     *)
(* attempt that ended does, so a desktop is never answered by a replay.    *)
OwnId(r) ==
  req[r].via = "ws" /\ req[r].at # "idle" =>
    \A q \in Attempts : req[q].at # "idle" /\ req[q].id = req[r].id => q = r

RowsUsed == \A e \in audit : \E q \in Attempts : req[q].at # "idle" /\ req[q].id = e.id

NoReplay(r) == req[r].via = "ws" /\ Running(r) => RowOf(req[r].id) = {}

ToldDone(r) ==
  req[r].via = "ws" /\ req[r].at = "answer" /\ req[r].out = "success" => req[r].act \in worked

IdsInv ==
  /\ CompletedWasDone
  /\ RowsUsed
  /\ \A r \in Attempts : OwnId(r) /\ NoReplay(r) /\ ToldDone(r)

LEMMA IdsInit == Init => IdsInv
  <1> SUFFICES ASSUME Init
               PROVE  IdsInv
    OBVIOUS
  <1>1. \A r \in Attempts : req[r].at = "idle"
    BY DEF Init, Fresh
  <1>2. CompletedWasDone /\ RowsUsed
    BY DEF Init, CompletedWasDone, RowsUsed
  <1> QED  BY <1>1, <1>2 DEF IdsInv, OwnId, NoReplay, ToldDone, Running

(* An attempt that was delivered has its id from then on. *)
LEMMA Delivered ==
  ASSUME ReqInv, NEW r \in Attempts, NEW i \in Ids, NEW a \in Names, NEW c \in BOOLEAN,
         Approve(r, i, a, c) \/ Post(r, i, a, c)
  PROVE  /\ req[r].at = "idle" /\ req'[r].at = "lookup" /\ req'[r].id = i
         /\ Approve(r, i, a, c) => i \notin UsedIds
         /\ req'[r].via = "ws" => Approve(r, i, a, c)
         /\ Post(r, i, a, c) => \A q \in Attempts : req[q].via = "ws" => req[q].id # i
         /\ UNCHANGED <<rows, worked, completed>>
         /\ card' = card \/ card' = [card EXCEPT ![a] = "executing"]
  <1>1. req[r] \in AttemptStates /\ req \in [Attempts -> AttemptStates]
    BY DEF ReqInv, ReqTypes
  <1>2. PICK via : Deliver(r, i, a, via, c) /\ (via = "ws" => Approve(r, i, a, c))
    BY DEF Approve, Post
  <1>3. /\ req[r].at = "idle" /\ req'[r].at = "lookup" /\ req'[r].id = i /\ req'[r].via = via
        /\ UNCHANGED <<rows, worked, completed>>
    BY <1>1, <1>2 DEF Deliver, Fresh
  <1> QED  BY <1>2, <1>3 DEF Approve, Post

LEMMA DeliverKeepsIds ==
  ASSUME ReqInv, NumberInv, IdsInv, NEW r \in Attempts, NEW i \in Ids, NEW a \in Names,
         NEW c \in BOOLEAN, Approve(r, i, a, c) \/ Post(r, i, a, c)
  PROVE  RowsUsed' /\ \A q \in Attempts : OwnId(q)' /\ NoReplay(q)' /\ ToldDone(q)'
  <1>1. \A q \in Attempts : q # r => req'[q] = req[q] /\ (Running(q)' <=> Running(q))
    BY OthersStay DEF Acts, NumberInv
  <1>2. /\ req[r].at = "idle" /\ req'[r].at = "lookup" /\ req'[r].id = i
        /\ audit' = audit /\ worked' = worked
    BY Delivered DEF rows
  <1>3. RowsUsed'
    BY <1>1, <1>2 DEF IdsInv, RowsUsed
  <1>4. ASSUME req'[r].via = "ws"
        PROVE  i \notin UsedIds /\ RowOf(i) = {}
    <2>1. i \notin UsedIds
      BY <1>4, Delivered
    <2> QED  BY <2>1 DEF UsedIds, IdsInv, RowsUsed, RowOf
  <1>5. OwnId(r)' /\ NoReplay(r)' /\ ToldDone(r)'
    BY <1>1, <1>2, <1>4 DEF UsedIds, OwnId, NoReplay, ToldDone, RowOf
  <1>6. ASSUME NEW q \in Attempts, q # r
        PROVE  OwnId(q)' /\ NoReplay(q)' /\ ToldDone(q)'
    <2>1. OwnId(q) /\ NoReplay(q) /\ ToldDone(q) /\ req'[q] = req[q]
      BY <1>1, <1>6 DEF IdsInv
    <2>2. NoReplay(q)' /\ ToldDone(q)'
      BY <1>1, <1>2, <1>6, <2>1 DEF NoReplay, ToldDone, RowOf
    <2>3. ASSUME req[q].via = "ws", req[q].at # "idle"
          PROVE  req[q].id # i
      <3>1. CASE Approve(r, i, a, c)
        BY <2>3, <3>1, Delivered DEF UsedIds
      <3>2. CASE Post(r, i, a, c)
        BY <2>3, <3>2, Delivered
      <3> QED  BY <3>1, <3>2
    <2>4. OwnId(q)'
      BY <1>1, <1>2, <1>6, <2>1, <2>3 DEF OwnId
    <2> QED  BY <2>2, <2>4
  <1> QED  BY <1>3, <1>5, <1>6

(* The outcome a desktop is told comes from its own attempt. *)
LEMMA StepKeepsIds ==
  ASSUME ReqInv, NumberInv, EarnInv, IdsInv, NEW r \in Attempts, EngineStep(r), [Next]_vars
  PROVE  RowsUsed' /\ \A q \in Attempts : OwnId(q)' /\ NoReplay(q)' /\ ToldDone(q)'
  <1>1. \A q \in Attempts : q # r => req'[q] = req[q] /\ (Running(q)' <=> Running(q))
    BY OthersStay DEF Acts, NumberInv
  <1>2. /\ req'[r].id = req[r].id /\ req'[r].act = req[r].act /\ req'[r].via = req[r].via
        /\ req[r].at # "idle" /\ req'[r].at # "idle" /\ worked \subseteq worked'
        /\ req[r] \in AttemptStates /\ req \in [Attempts -> AttemptStates]
    BY StepKeeps, WorkGrows DEF ReqInv, ReqTypes
  <1>3. \/ audit' = audit
        \/ Audit(r) /\ audit' = audit \cup {Entry(r)} /\ Entry(r).id = req[r].id
    <2>1. CASE Audit(r)
      BY <2>1, EntryIsNew DEF Entry
    <2>2. CASE ~Audit(r)
      BY <2>2 DEF EngineStep, rows, Replay, NotFound, Lookup, Check, Apply, ApplyFails,
                  Incident, Resolution, TicketFails, AuditLost, AnswerDesktop, AnswerClient
    <2> QED  BY <2>1, <2>2
  <1>4. RowsUsed'
    BY <1>1, <1>2, <1>3 DEF IdsInv, RowsUsed
  <1>5. \A q \in Attempts : OwnId(q)'
    BY <1>1, <1>2 DEF IdsInv, OwnId
  <1>6. Audit(r) => ~Running(r)'
    BY <1>2 DEF Audit, Answered, Running, AttemptStates
  <1>7. Running(r)' => Running(r)
    BY <1>2, ReplayAnswers DEF EngineStep, NotFound, Lookup, Check, Apply, ApplyFails,
       Incident, Resolution, TicketFails, Audit, AuditLost, Answered, AnswerDesktop,
       AnswerClient, GoTo, Running, AttemptStates
  <1>8. ASSUME NEW q \in Attempts
        PROVE  NoReplay(q)'
    <2>1. NoReplay(q) /\ OwnId(q)
      BY DEF IdsInv
    <2>2. CASE q = r
      BY <1>2, <1>3, <1>6, <1>7, <2>1, <2>2 DEF NoReplay, RowOf
    <2>3. CASE q # r
      <3> SUFFICES ASSUME req[q].via = "ws", Running(q)
                   PROVE  RowOf(req[q].id)' = {}
        BY <1>1, <2>3 DEF NoReplay, RowOf
      <3>1. req[q].at # "idle" /\ req[r].id # req[q].id
        BY <1>2, <2>1, <2>3 DEF OwnId, Running
      <3> QED  BY <1>1, <1>3, <2>1, <2>3, <3>1 DEF NoReplay, RowOf
    <2> QED  BY <2>2, <2>3
  <1>9. ToldDone(r)'
    <2> SUFFICES ASSUME req[r].via = "ws", req'[r].at = "answer", req'[r].out = "success"
                 PROVE  req[r].act \in worked
      BY <1>2 DEF ToldDone
    <2>1. ~Replay(r)
      BY DEF Replay, Replays, IdsInv, NoReplay, Running
    <2>2. Audit(r) \/ AuditLost(r)
      BY <1>2, <2>1 DEF EngineStep, NotFound, Lookup, Check, Apply, ApplyFails, Incident,
         Resolution, TicketFails, AnswerDesktop, AnswerClient, GoTo, AttemptStates
    <2>3. req[r].ok /\ Running(r)
      BY <1>2, <2>2 DEF Audit, AuditLost, Answered, Running, AttemptStates
    <2> QED  BY <2>3 DEF EarnInv, Worked
  <1>10. ASSUME NEW q \in Attempts
         PROVE  ToldDone(q)'
    BY <1>1, <1>2, <1>9 DEF IdsInv, ToldDone
  <1> QED  BY <1>4, <1>5, <1>8, <1>10

(* What the session and the cards say was done was. *)
LEMMA CardsStep ==
  ASSUME ReqInv, NumberInv, EarnInv, IdsInv, DeskTypes, [Next]_vars
  PROVE  CompletedWasDone'
  <1>1. worked \subseteq worked' /\ CompletedWasDone /\ card \in [Registry -> CardStates]
    BY WorkGrows DEF IdsInv, DeskTypes
  <1>2. CASE UNCHANGED desk
    BY <1>1, <1>2 DEF desk, CompletedWasDone
  <1>3. ASSUME NEW r \in Attempts, NEW i \in Ids, NEW a \in Names, NEW c \in BOOLEAN,
               Approve(r, i, a, c) \/ Post(r, i, a, c)
        PROVE  CompletedWasDone'
    BY <1>1, <1>3, Delivered DEF CompletedWasDone, CardStates
  <1>4. ASSUME NEW r \in Attempts, AnswerDesktop(r)
        PROVE  CompletedWasDone'
    <2>1. ToldDone(r) /\ req[r].via = "ws" /\ req[r].at = "answer"
      BY <1>4 DEF IdsInv, AnswerDesktop
    <2>2. Settled(r) = "completed" => req[r].act \in worked
      BY <2>1 DEF Settled, ToldDone
    <2>3. completed' = (IF Settled(r) = "completed"
                        THEN completed \cup {req[r].act} ELSE completed)
          /\ card' = [card EXCEPT ![req[r].act] = Settled(r)]
      BY <1>4 DEF AnswerDesktop
    <2> QED  BY <1>1, <2>2, <2>3 DEF CompletedWasDone
  <1>5. CASE Restart
    BY <1>1, <1>5 DEF Restart, CompletedWasDone
  <1> QED  BY <1>2, <1>3, <1>4, <1>5 DEF Next, EngineStep, Replay, NotFound, Lookup, Check,
              Apply, ApplyFails, Incident, Resolution, TicketFails, Audit, AuditLost,
              AnswerClient, Cool, vars, desk

LEMMA IdsStep ==
  ReqInv /\ NumberInv /\ EarnInv /\ IdsInv /\ DeskTypes /\ [Next]_vars => IdsInv'
  <1> SUFFICES ASSUME ReqInv, NumberInv, EarnInv, IdsInv, DeskTypes, [Next]_vars
               PROVE  IdsInv'
    OBVIOUS
  <1>1. CompletedWasDone'
    BY CardsStep
  <1>2. RowsUsed' /\ \A q \in Attempts : OwnId(q)' /\ NoReplay(q)' /\ ToldDone(q)'
    <2>1. ASSUME NEW r \in Attempts, Acts(r)
          PROVE  RowsUsed' /\ \A q \in Attempts : OwnId(q)' /\ NoReplay(q)' /\ ToldDone(q)'
      BY <2>1, DeliverKeepsIds, StepKeepsIds DEF Acts
    <2>2. CASE Restart
      <3>1. ASSUME NEW q \in Attempts
            PROVE  /\ req'[q].id = req[q].id /\ req'[q].via = req[q].via
                   /\ (req'[q].at = "idle" <=> req[q].at = "idle")
                   /\ ~Running(q)' /\ req'[q].at # "answer"
        <4>1. req[q] \in AttemptStates
          BY DEF ReqInv, ReqTypes
        <4>2. CASE req[q].at = "idle" /\ req'[q] = req[q]
          BY <4>2 DEF Running
        <4>3. CASE req[q].at # "idle" /\ req'[q] = [req[q] EXCEPT !.at = "over"]
          BY <4>1, <4>3 DEF AttemptStates, Running
        <4> QED  BY <2>2, <4>2, <4>3, RestartMoves
      <3>2. audit' = audit
        BY <2>2, RestartMoves DEF rows
      <3> QED  BY <3>1, <3>2 DEF IdsInv, RowsUsed, OwnId, NoReplay, ToldDone
    <2>3. CASE UNCHANGED <<req, audit, worked>>
      BY <2>3 DEF IdsInv, RowsUsed, OwnId, NoReplay, ToldDone, Running, RowOf
    <2> QED  BY <2>1, <2>2, <2>3 DEF Next, Acts, Cool, vars, rows, history
  <1> QED  BY <1>1, <1>2 DEF IdsInv

(* A card the desktop shows as completed, and an action the session will   *)
(* not suggest again, is one whose handler did its work.                   *)
THEOREM CompletedWasAlwaysDone == Spec => []CompletedWasDone
  <1>1. Init => DeskTypes
    BY DEF Init, DeskTypes, CardStates
  <1>2. IdsInv => CompletedWasDone
    BY DEF IdsInv
  <1> QED  BY <1>1, <1>2, DeskStep, IdsInit, IdsStep, NumberInvariant, EarnInvariant, PTL
           DEF Spec

(* The log and the handlers' work belong together: rows are earned, and an *)
(* undisturbed id works once and has its row.                              *)
THEOREM WorkIsAlwaysLogged == Spec => []WorkIsLogged
  <1>1. RowsAreEarned /\ OnceUndisturbed => WorkIsLogged
    BY DEF WorkIsLogged
  <1> QED  BY <1>1, RowsAreAlwaysEarned, UndisturbedIsOnce, PTL

(* What the callers are told, by an answer or by a card, is true.          *)
THEOREM TheTruthIsTold == Spec => []ToldTheTruth
  <1>1. ToldNumbersExist /\ CompletedWasDone => ToldTheTruth
    BY DEF ToldTheTruth
  <1> QED  BY <1>1, ToldNumbersAlwaysExist, CompletedWasAlwaysDone, PTL

=============================================================================
