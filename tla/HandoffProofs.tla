--------------------------- MODULE HandoffProofs ---------------------------
(***************************************************************************)
(* Proofs about the handoff: for any number of calls and of desktops, and  *)
(* any number of faults and of uses of the buttons, no escalation is       *)
(* dropped, and worker and API agree on who talks to the caller.           *)
(***************************************************************************)
EXTENDS Handoff, TLAPS

-----------------------------------------------------------------------------
(* Who touches what.                                                       *)

ByCaller(c) ==
  \/ Start(c) \/ HangUp(c) \/ Ask(c) \/ WorkerStep(c)
  \/ Press(c) \/ PressTimesOut(c) \/ PressAgain(c) \/ Revert(c)

ByMessage(m) == Arrive(m) \/ Lose(m)

BySocket(s) == Connect(s) \/ Cut(s) \/ Close(s) \/ \E new \in {"active", "busy"} : SetStatus(s, new)

ByDesk(s) == Accept(s) \/ Decline(s) \/ End(s) \/ Submit(s)

LEMMA Actors ==
  ASSUME Next
  PROVE  \/ \E c \in Calls : ByCaller(c)
         \/ \E m \in mail : ByMessage(m)
         \/ \E t \in tasks : TaskRuns(t)
         \/ \E s \in Sockets : BySocket(s)
         \/ \E s \in Sockets : ByDesk(s)
  BY DEF Next, ByCaller, ByMessage, BySocket, ByDesk

LEMMA CallerFrame ==
  ASSUME NEW c \in Calls, ByCaller(c)
  PROVE  /\ UNCHANGED <<queue, connected, life, status, online, desk>>
         /\ ~ Start(c) => UNCHANGED active
         /\ ~ Escalate(c) => UNCHANGED mail
         /\ ~ Press(c) => UNCHANGED <<tasks, told>>
         /\ ~ (Ask(c) \/ WorkerStep(c)) => UNCHANGED worker
         /\ ~ (Press(c) \/ PressTimesOut(c) \/ Revert(c)) => UNCHANGED api
  BY DEF ByCaller, Start, HangUp, Ask, WorkerStep, Look, LookAgain, NoSpecialist,
         Escalate, EscalateTimesOut, Press, PressTimesOut, PressAgain, Revert,
         sessions, wires, desks, past

LEMMA MessageFrame ==
  ASSUME NEW m \in mail, ByMessage(m)
  PROVE  /\ UNCHANGED <<active, queue, connected, life, status, online, desk>>
         /\ ~ TakeUp(m) => UNCHANGED <<tasks, told>>
         /\ ~ HearAccept(m) => UNCHANGED worker
         /\ ~ (TakeUp(m) \/ Cancel(m)) => UNCHANGED api
         /\ mail' = mail \ {m}
  BY DEF ByMessage, Arrive, TakeUp, HearAccept, Cancel, Lose, Got, desks, past

LEMMA TaskFrame ==
  ASSUME NEW t \in tasks, TaskRuns(t)
  PROVE  /\ UNCHANGED <<worker, screen, active, mail, life, status, online, told>>
         /\ UNCHANGED <<faults, toggles, presses>>
         /\ tasks' = tasks \ {t}
         /\ ~ Deliver(t) => UNCHANGED <<api, desk>>
         /\ ~ DeliverLater(t) => UNCHANGED queue
  BY DEF TaskRuns, Deliver, DeliverLater, sessions, bounds, past

LEMMA SocketFrame ==
  ASSUME NEW s \in Sockets, BySocket(s)
  PROVE  /\ UNCHANGED <<worker, screen, api, active, mail, told>>
         /\ ~ Connect(s) => UNCHANGED <<tasks, queue>>
         /\ UNCHANGED desk \/ desk' = [desk EXCEPT ![s] = NoCall]
  BY DEF BySocket, Connect, Cut, Close, SetStatus, sessions, wires, past

LEMMA DeskFrame ==
  ASSUME NEW s \in Sockets, ByDesk(s)
  PROVE  /\ UNCHANGED <<worker, active, tasks, queue, told>>
         /\ UNCHANGED <<connected, life, status, online, faults, toggles, presses>>
         /\ ~ Accept(s) => UNCHANGED api
         /\ ~ (Accept(s) \/ Decline(s)) => UNCHANGED mail
         /\ ~ End(s) => UNCHANGED screen
  BY DEF ByDesk, Accept, Decline, End, Submit, sessions, wires, past, bounds

-----------------------------------------------------------------------------
(* Types.  A desk that is not idle shows a call, so that what is answered, *)
(* declined and ended is a call.                                           *)
WorkerSession == [esc : BOOLEAN, joined : BOOLEAN, pend : BOOLEAN, task : TaskSteps]
ApiSession == [esc : BOOLEAN, bundle : BOOLEAN, joined : BOOLEAN,
               cached : {"no", "bundle", "bare"}, ws : Sockets \cup {None}]
Delivery == [call : Calls, bundle : BOOLEAN, to : Sockets \cup {None}]
Desk == [call : Calls \cup {None}, phase : {"idle", "ring", "active", "acw"}]

SessionTypes ==
  /\ worker \in [Calls -> WorkerSession]
  /\ screen \in [Calls -> {"talk", "transfer", "human", "over"}]
  /\ api \in [Calls -> ApiSession]

WireTypes ==
  /\ active \subseteq Calls
  /\ mail \subseteq Message
  /\ tasks \subseteq Delivery
  /\ queue \subseteq Item
  /\ told \subseteq Calls

SocketTypes ==
  /\ connected \subseteq Sockets
  /\ life \in [Sockets -> {"new", "up", "cut", "closed"}]
  /\ \A s \in connected : life[s] \in {"up", "cut"}
  /\ status \in [Sockets -> {"active", "busy"}]
  /\ online \subseteq Sockets

DeskTypes ==
  /\ desk \in [Sockets -> Desk]
  /\ \A s \in Sockets : desk[s].phase # "idle" => desk[s].call \in Calls

BoundTypes ==
  /\ faults \in 0..MaxFaults
  /\ toggles \in Nat /\ presses \in Nat /\ toggles + presses <= MaxUses

Shaped == SessionTypes /\ WireTypes /\ SocketTypes /\ DeskTypes

Typed == Shaped /\ BoundTypes

LEMMA TypedInit == Init => Typed
  BY BoundsAssumption DEF Init, Typed, Shaped, SessionTypes, WireTypes, SocketTypes,
     DeskTypes,
     BoundTypes, WorkerSession, ApiSession, Desk, NoCall, TaskSteps

LEMMA WireRecords ==
  ASSUME NEW c \in Calls, NEW b \in BOOLEAN, NEW to \in Sockets \cup {None},
         NEW k \in {"escalation", "accepted", "cancel"}
  PROVE  /\ [kind |-> k, call |-> c, bundle |-> b] \in Message
         /\ Task(c, b, to) \in Delivery
         /\ [call |-> c, bundle |-> b] \in Item
  BY DEF Message, Task, Delivery, Item

LEMMA Posted ==
  ASSUME NEW k, NEW c, NEW b, Post(k, c, b)
  PROVE  /\ mail \subseteq mail'
         /\ \E m \in mail' : m.kind = k /\ m.call = c
         /\ \A m \in mail' : m \in mail \/ (m.kind = k /\ m.call = c)
  <1> DEFINE n == [kind |-> k, call |-> c, bundle |-> b]
  <1>1. n.kind = k /\ n.call = c
    OBVIOUS
  <1>2. mail' = mail \cup {n}
    BY DEF Post
  <1> HIDE DEF n
  <1> QED  BY <1>1, <1>2

LEMMA TaskOf ==
  ASSUME NEW c, NEW b, NEW to
  PROVE  Task(c, b, to).call = c
  BY DEF Task

(* The counters stay as they are, or go up within their bounds.            *)
BoundsMove ==
  /\ faults' = faults \/ (faults < MaxFaults /\ faults' = faults + 1)
  /\ \/ presses' = presses /\ toggles' = toggles
     \/ /\ toggles + presses < MaxUses
        /\ \/ presses' = presses + 1 /\ toggles' = toggles
           \/ presses' = presses /\ toggles' = toggles + 1

LEMMA CallerBounds ==
  ASSUME NEW c \in Calls, ByCaller(c)
  PROVE  BoundsMove
  <1>1. CASE WorkerStep(c)
    BY <1>1 DEF BoundsMove, WorkerStep, Look, LookAgain, NoSpecialist, Escalate,
       EscalateTimesOut, Fault, Strikes, bounds
  <1>2. CASE Press(c) \/ PressTimesOut(c) \/ PressAgain(c)
    BY <1>2 DEF BoundsMove, Press, PressTimesOut, PressAgain, MayPress, Strikes
  <1>3. CASE Start(c) \/ HangUp(c) \/ Ask(c) \/ Revert(c)
    BY <1>3 DEF BoundsMove, Start, HangUp, Ask, Revert, bounds
  <1> QED  BY <1>1, <1>2, <1>3 DEF ByCaller

LEMMA BoundsMoved ==
  ASSUME Next
  PROVE  BoundsMove
  <1>1. ASSUME NEW m \in mail, ByMessage(m)
        PROVE  BoundsMove
    BY <1>1 DEF BoundsMove, ByMessage, Arrive, TakeUp, HearAccept, Cancel, Lose, Fault,
       Strikes, bounds
  <1>2. ASSUME NEW s \in Sockets, BySocket(s)
        PROVE  BoundsMove
    BY <1>2 DEF BoundsMove, BySocket, Connect, Cut, Close, SetStatus, Fault, Strikes,
       bounds
  <1> QED
    BY <1>1, <1>2, Actors, CallerBounds, TaskFrame, DeskFrame DEF BoundsMove

LEMMA BoundsKept ==
  ASSUME BoundTypes, BoundsMove
  PROVE  BoundTypes'
  BY BoundsAssumption DEF BoundTypes, BoundsMove

LEMMA TypedCaller ==
  ASSUME Shaped, NEW c \in Calls, ByCaller(c)
  PROVE  Shaped'
  <1> USE DEF Shaped
  <1>1. worker' \in [Calls -> WorkerSession]
    <2>1. worker \in [Calls -> WorkerSession] /\ worker[c] \in WorkerSession
      BY DEF SessionTypes
    <2>2. /\ [worker[c] EXCEPT !.pend = TRUE, !.task = "delay"] \in WorkerSession
          /\ [worker[c] EXCEPT !.task = "tool"] \in WorkerSession
          /\ [worker[c] EXCEPT !.task = "again"] \in WorkerSession
          /\ [worker[c] EXCEPT !.task = "none", !.pend = FALSE] \in WorkerSession
          /\ [worker[c] EXCEPT !.esc = TRUE, !.task = "none"] \in WorkerSession
      BY <2>1 DEF WorkerSession, TaskSteps
    <2>3. CASE Ask(c)
      BY <2>1, <2>2, <2>3 DEF Ask
    <2>4. CASE WorkerStep(c)
      BY <2>1, <2>2, <2>4 DEF WorkerStep, Look, LookAgain, NoSpecialist, Escalate,
         EscalateTimesOut, Frees, Escalated
    <2> QED  BY <2>1, <2>3, <2>4, CallerFrame
  <1>2. screen' \in [Calls -> {"talk", "transfer", "human", "over"}]
    BY DEF SessionTypes, ByCaller, Start, HangUp, Ask, WorkerStep, Look, LookAgain,
       NoSpecialist, Escalate, EscalateTimesOut, Press, PressTimesOut, PressAgain,
       Revert, Pressed
  <1>3. api' \in [Calls -> ApiSession]
    <2>1. api \in [Calls -> ApiSession] /\ api[c] \in ApiSession
      BY DEF SessionTypes
    <2>2. ASSUME NEW b \in BOOLEAN, NEW a \in BOOLEAN, Pressed(c, b, a)
          PROVE  api' \in [Calls -> ApiSession]
      <3> DEFINE k == IF b THEN "bundle" ELSE "bare"
      <3>1. [api[c] EXCEPT !.esc = api[c].esc \/ a, !.bundle = b, !.cached = k]
              \in ApiSession
        BY <2>1 DEF ApiSession
      <3> QED  BY <2>1, <2>2, <3>1 DEF Pressed
    <2>3. CASE Press(c)
      <3>1. \/ Pressed(c, TRUE, TRUE) \/ Pressed(c, FALSE, TRUE)
            \/ Pressed(c, api[c].cached = "bundle", FALSE)
        BY <2>3 DEF Press
      <3>2. (api[c].cached = "bundle") \in BOOLEAN
        OBVIOUS
      <3> QED  BY <2>2, <3>1, <3>2
    <2>4. CASE PressTimesOut(c) \/ Revert(c)
      <3>1. /\ [api[c] EXCEPT !.esc = TRUE] \in ApiSession
            /\ [api[c] EXCEPT !.esc = FALSE] \in ApiSession
        BY <2>1 DEF ApiSession
      <3> QED  BY <2>1, <2>4, <3>1 DEF PressTimesOut, Revert, CancelOf
    <2> QED  BY <2>1, <2>3, <2>4, CallerFrame
  <1>4. active' \subseteq Calls
    BY CallerFrame DEF WireTypes, Start
  <1>5. mail' \subseteq Message
    BY CallerFrame, WireRecords DEF WireTypes, Escalate, Reports, Post
  <1>6. tasks' \subseteq Delivery /\ told' \subseteq Calls
    <2>1. CASE Press(c)
      <3>1. \E b \in BOOLEAN : tasks' = tasks \cup {Task(c, b, None)} /\ told' = told \cup {c}
        BY <2>1 DEF Press, Pressed
      <3> QED  BY <3>1, WireRecords DEF WireTypes
    <2> QED  BY <2>1, CallerFrame DEF WireTypes
  <1> QED
    BY <1>1, <1>2, <1>3, <1>4, <1>5, <1>6, CallerFrame
       DEF SessionTypes, WireTypes, SocketTypes, DeskTypes

LEMMA TypedMessage ==
  ASSUME Shaped, NEW m \in mail, ByMessage(m)
  PROVE  Shaped'
  <1> USE DEF Shaped
  <1>0. m.call \in Calls /\ m.bundle \in BOOLEAN
    BY DEF WireTypes, Message
  <1>1. worker' \in [Calls -> WorkerSession]
    <2>1. worker \in [Calls -> WorkerSession] /\ worker[m.call] \in WorkerSession
      BY <1>0 DEF SessionTypes
    <2>2. [worker[m.call] EXCEPT !.joined = TRUE] \in WorkerSession
      BY <2>1 DEF WorkerSession
    <2> QED  BY <1>0, <2>1, <2>2, MessageFrame DEF HearAccept, Hears
  <1>2. screen' \in [Calls -> {"talk", "transfer", "human", "over"}]
    BY <1>0 DEF SessionTypes, ByMessage, Arrive, TakeUp, HearAccept, Cancel, Lose
  <1>3. api' \in [Calls -> ApiSession]
    <2>1. api \in [Calls -> ApiSession] /\ api[m.call] \in ApiSession
      BY <1>0 DEF SessionTypes
    <2>2. /\ [api[m.call] EXCEPT !.esc = FALSE] \in ApiSession
          /\ [api[m.call] EXCEPT !.esc = TRUE, !.bundle = m.bundle] \in ApiSession
      BY <1>0, <2>1 DEF ApiSession
    <2> QED  BY <1>0, <2>1, <2>2, MessageFrame DEF TakeUp, Cancel, CancelOf
  <1>4. tasks' \subseteq Delivery /\ told' \subseteq Calls
    <2>1. Task(m.call, m.bundle, None) \in Delivery
      BY <1>0 DEF Task, Delivery
    <2> QED  BY <1>0, <2>1, MessageFrame DEF WireTypes, TakeUp
  <1> QED
    BY <1>1, <1>2, <1>3, <1>4, MessageFrame
       DEF SessionTypes, WireTypes, SocketTypes, DeskTypes

LEMMA TypedTask ==
  ASSUME Shaped, NEW t \in tasks, TaskRuns(t)
  PROVE  Shaped'
  <1> USE DEF Shaped
  <1>0. t.call \in Calls /\ t.bundle \in BOOLEAN /\ Willing(t) \subseteq Sockets
    BY DEF WireTypes, SocketTypes, Delivery, Willing, Targets
  <1>1. api' \in [Calls -> ApiSession]
    <2>1. api \in [Calls -> ApiSession]
      BY DEF SessionTypes
    <2>2. CASE Deliver(t)
      <3>1. PICK s \in Willing(t) :
              api' = IF t.call \in active THEN [api EXCEPT ![t.call].ws = s] ELSE api
        BY <2>2 DEF Deliver
      <3>2. [api[t.call] EXCEPT !.ws = s] \in ApiSession
        BY <1>0, <2>1, <3>1 DEF ApiSession
      <3> QED  BY <1>0, <2>1, <3>1, <3>2
    <2> QED  BY <2>1, <2>2, TaskFrame
  <1>2. queue' \subseteq Item
    BY <1>0, TaskFrame, WireRecords DEF WireTypes, DeliverLater, Keeps
  <1>3. connected' \subseteq connected
    BY DEF TaskRuns, Deliver, DeliverLater, Without
  <1>4. DeskTypes'
    <2>1. CASE desk' = desk
      BY <2>1 DEF DeskTypes
    <2>2. CASE desk' # desk
      <3>1. PICK s \in Willing(t) : desk' = [desk EXCEPT ![s].call = t.call,
                                                         ![s].phase = "ring"]
        BY <2>2, TaskFrame DEF Deliver
      <3> QED  BY <1>0, <3>1 DEF DeskTypes, Desk
    <2> QED  BY <2>1, <2>2
  <1> QED
    BY <1>1, <1>2, <1>3, <1>4, TaskFrame
       DEF SessionTypes, WireTypes, SocketTypes

LEMMA TypedSocket ==
  ASSUME Shaped, NEW s \in Sockets, BySocket(s)
  PROVE  Shaped'
  <1> USE DEF Shaped
  <1>1. tasks' \subseteq Delivery /\ queue' \subseteq Item
    <2>1. CASE Connect(s)
      <3>1. \A q \in queue : q.call \in Calls /\ q.bundle \in BOOLEAN
        BY DEF WireTypes, Item
      <3>2. Orphans \subseteq Calls
        BY DEF WireTypes, Orphans
      <3>3. {Task(q.call, q.bundle, None) : q \in queue} \subseteq Delivery
        BY <3>1 DEF Delivery, Task
      <3>4. {Task(c, TRUE, s) : c \in Orphans} \subseteq Delivery
        BY <3>2, WireRecords
      <3> QED  BY <2>1, <3>3, <3>4 DEF WireTypes, Connect, Flush
    <2> QED  BY <2>1, SocketFrame DEF WireTypes
  <1>2. SocketTypes'
    BY DEF SocketTypes, BySocket, Connect, Cut, Close, SetStatus, Leaves
  <1>3. DeskTypes'
    BY SocketFrame DEF DeskTypes, Desk, NoCall
  <1> QED
    BY <1>1, <1>2, <1>3, SocketFrame DEF SessionTypes, WireTypes

LEMMA TypedDesk ==
  ASSUME Shaped, NEW s \in Sockets, ByDesk(s)
  PROVE  Shaped'
  <1> USE DEF Shaped
  <1>0. desk[s].call \in Calls
    BY DEF ByDesk, Accept, Decline, End, Submit, Shows, DeskTypes
  <1>1. screen' \in [Calls -> {"talk", "transfer", "human", "over"}]
    BY <1>0, DeskFrame DEF SessionTypes, End
  <1>2. api' \in [Calls -> ApiSession]
    <2>1. api \in [Calls -> ApiSession] /\ api[desk[s].call] \in ApiSession
      BY <1>0 DEF SessionTypes
    <2>2. [api[desk[s].call] EXCEPT !.joined = TRUE] \in ApiSession
      BY <2>1 DEF ApiSession
    <2> QED  BY <1>0, <2>1, <2>2, DeskFrame DEF Accept
  <1>3. mail' \subseteq Message
    BY <1>0, DeskFrame, WireRecords DEF WireTypes, Accept, Decline, Post
  <1>4. DeskTypes'
    <2>1. CASE desk' = [desk EXCEPT ![s] = NoCall]
      BY <2>1 DEF DeskTypes, Desk, NoCall
    <2>2. CASE \E p \in {"active", "acw"} : desk' = [desk EXCEPT ![s].phase = p]
      BY <1>0, <2>2 DEF DeskTypes, Desk
    <2> QED  BY <2>1, <2>2 DEF ByDesk, Accept, Decline, End, Submit
  <1> QED
    BY <1>1, <1>2, <1>3, <1>4, DeskFrame
       DEF SessionTypes, WireTypes, SocketTypes

LEMMA TypedStep == Typed /\ [Next]_vars => Typed'
  <1> SUFFICES ASSUME Typed, [Next]_vars
               PROVE  Typed'
    OBVIOUS
  <1>1. CASE Next
    <2>1. Shaped'
      BY <1>1, Actors, TypedCaller, TypedMessage, TypedTask, TypedSocket, TypedDesk
         DEF Typed
    <2>2. BoundTypes'
      BY <1>1, BoundsMoved, BoundsKept DEF Typed
    <2> QED  BY <2>1, <2>2 DEF Typed
  <1>2. CASE UNCHANGED vars
    BY <1>2 DEF vars, Typed, Shaped, SessionTypes, WireTypes, SocketTypes, DeskTypes,
       BoundTypes
  <1> QED  BY <1>1, <1>2

LEMMA AlwaysTyped == Spec => []Typed
  BY TypedInit, TypedStep, PTL DEF Spec

(* Sessions, messages, sockets and desks keep their types; a socket is     *)
(* among the connected only while it is up, or cut and not yet noticed.    *)
THEOREM TypeCorrect == Spec => []HandoffTypeOK
  <1>1. Typed => HandoffTypeOK
    BY DEF Typed, Shaped, SessionTypes, WireTypes, SocketTypes, DeskTypes, BoundTypes,
       HandoffTypeOK, WorkerSession, ApiSession, Delivery, Desk
  <1> QED  BY <1>1, AlwaysTyped, PTL

-----------------------------------------------------------------------------
(* What the steps of each actor do to the sessions.                        *)
LEMMA CallerMoves ==
  ASSUME Shaped, NEW d \in Calls, ByCaller(d), NEW c \in Calls
  PROVE  /\ worker'[c].joined = worker[c].joined
         /\ \/ worker'[c].esc = worker[c].esc
            \/ c = d /\ worker'[c].esc /\ (Escalate(d) \/ EscalateTimesOut(d))
         /\ api'[c].joined = api[c].joined
         /\ api'[c].ws = api[c].ws
         /\ \/ api'[c].cached = api[c].cached
            \/ c = d /\ api'[c].cached # "no"
         /\ api'[c].bundle => api[c].bundle \/ api'[c].cached # "no"
  <1>1. /\ worker \in [Calls -> WorkerSession] /\ worker[c] \in WorkerSession
        /\ api \in [Calls -> ApiSession] /\ api[c] \in ApiSession
    BY DEF Shaped, SessionTypes
  <1>2. \/ worker'[c] = worker[c]
        \/ worker'[c] = [worker[c] EXCEPT !.pend = TRUE, !.task = "delay"]
        \/ worker'[c] = [worker[c] EXCEPT !.task = "tool"]
        \/ worker'[c] = [worker[c] EXCEPT !.task = "again"]
        \/ worker'[c] = [worker[c] EXCEPT !.task = "none", !.pend = FALSE]
        \/ /\ c = d /\ worker'[c] = [worker[c] EXCEPT !.esc = TRUE, !.task = "none"]
           /\ Escalate(d) \/ EscalateTimesOut(d)
    BY <1>1, CallerFrame DEF Ask, WorkerStep, Look, LookAgain, NoSpecialist, Escalate,
       EscalateTimesOut, Frees, Escalated
  <1>3. ASSUME NEW b, NEW a, Pressed(d, b, a)
        PROVE  \/ api'[c] = api[c]
               \/ c = d /\ api'[c] = [api[c] EXCEPT !.esc = api[c].esc \/ a, !.bundle = b,
                                        !.cached = IF b THEN "bundle" ELSE "bare"]
    BY <1>1, <1>3 DEF Pressed
  <1>4. /\ worker'[c].joined = worker[c].joined
        /\ \/ worker'[c].esc = worker[c].esc
           \/ c = d /\ worker'[c].esc /\ (Escalate(d) \/ EscalateTimesOut(d))
    BY <1>1, <1>2 DEF WorkerSession
  <1>5. /\ api'[c].joined = api[c].joined
        /\ api'[c].ws = api[c].ws
        /\ \/ api'[c].cached = api[c].cached
           \/ c = d /\ api'[c].cached # "no"
        /\ api'[c].bundle => api[c].bundle \/ api'[c].cached # "no"
    <2>1. ASSUME NEW b, NEW a, Pressed(d, b, a)
          PROVE  /\ api'[c].joined = api[c].joined
                 /\ api'[c].ws = api[c].ws
                 /\ \/ api'[c].cached = api[c].cached
                    \/ c = d /\ api'[c].cached # "no"
                 /\ api'[c].bundle => api[c].bundle \/ api'[c].cached # "no"
      BY <1>1, <1>3, <2>1 DEF ApiSession
    <2>2. CASE Press(d)
      BY <2>1, <2>2 DEF Press
    <2>3. CASE ~ Press(d)
      <3>1. \/ api'[c] = api[c]
            \/ api'[c] = [api[c] EXCEPT !.esc = TRUE]
            \/ api'[c] = [api[c] EXCEPT !.esc = FALSE]
        BY <1>1, <2>3, CallerFrame DEF PressTimesOut, Revert, CancelOf
      <3> QED  BY <1>1, <3>1 DEF ApiSession
    <2> QED  BY <2>2, <2>3
  <1> QED  BY <1>4, <1>5

LEMMA MessageMoves ==
  ASSUME Shaped, NEW m \in mail, ByMessage(m), NEW c \in Calls
  PROVE  /\ worker'[c].esc = worker[c].esc
         /\ worker'[c].joined = (worker[c].joined \/ (HearAccept(m) /\ m.call = c))
         /\ api'[c].joined = api[c].joined
         /\ api'[c].ws = api[c].ws
         /\ api'[c].cached = api[c].cached
         /\ api'[c].bundle => api[c].bundle \/ (TakeUp(m) /\ m.call = c)
  <1>1. /\ worker \in [Calls -> WorkerSession] /\ worker[c] \in WorkerSession
        /\ api \in [Calls -> ApiSession] /\ api[c] \in ApiSession
    BY DEF Shaped, SessionTypes
  <1>2. \/ worker'[c] = worker[c] /\ ~ (HearAccept(m) /\ m.call = c)
        \/ worker'[c] = [worker[c] EXCEPT !.joined = TRUE] /\ HearAccept(m) /\ m.call = c
    BY <1>1, MessageFrame DEF HearAccept, Hears
  <1>3. \/ api'[c] = api[c]
        \/ api'[c] = [api[c] EXCEPT !.esc = FALSE]
        \/ /\ api'[c] = [api[c] EXCEPT !.esc = TRUE, !.bundle = m.bundle]
           /\ TakeUp(m) /\ m.call = c
    BY <1>1, MessageFrame DEF TakeUp, Cancel, CancelOf
  <1>4. /\ worker'[c].esc = worker[c].esc
        /\ worker'[c].joined = (worker[c].joined \/ (HearAccept(m) /\ m.call = c))
    BY <1>1, <1>2 DEF WorkerSession
  <1>5. /\ api'[c].joined = api[c].joined
        /\ api'[c].ws = api[c].ws
        /\ api'[c].cached = api[c].cached
        /\ api'[c].bundle => api[c].bundle \/ (TakeUp(m) /\ m.call = c)
    BY <1>1, <1>3 DEF ApiSession
  <1> QED  BY <1>4, <1>5

LEMMA TaskMoves ==
  ASSUME Shaped, NEW t \in tasks, TaskRuns(t), NEW c \in Calls
  PROVE  /\ api'[c].joined = api[c].joined
         /\ api'[c].cached = api[c].cached
         /\ api'[c].bundle = api[c].bundle
         /\ api'[c].ws = api[c].ws \/ api'[c].ws \in Sockets
         /\ Deliver(t) /\ t.call = c /\ c \in active => api'[c].ws \in Sockets
  <1>1. /\ api \in [Calls -> ApiSession] /\ api[c] \in ApiSession
        /\ Willing(t) \subseteq Sockets
    BY DEF Shaped, SessionTypes, WireTypes, SocketTypes, Delivery, Willing, Targets
  <1>2. \/ /\ api'[c] = api[c]
           /\ ~ (Deliver(t) /\ t.call = c /\ c \in active)
        \/ \E s \in Sockets : api'[c] = [api[c] EXCEPT !.ws = s]
    <2>1. CASE Deliver(t)
      <3>1. PICK s \in Willing(t) :
              api' = IF t.call \in active THEN [api EXCEPT ![t.call].ws = s] ELSE api
        BY <2>1 DEF Deliver
      <3> QED  BY <1>1, <3>1
    <2> QED  BY <2>1, TaskFrame
  <1> QED  BY <1>1, <1>2 DEF ApiSession

LEMMA DeskMoves ==
  ASSUME Shaped, NEW s \in Sockets, ByDesk(s), NEW c \in Calls
  PROVE  /\ \/ api'[c].joined = api[c].joined
            \/ Accept(s) /\ desk[s].call = c
         /\ api'[c].ws = api[c].ws
         /\ api'[c].cached = api[c].cached
         /\ api'[c].bundle = api[c].bundle
  <1>1. api \in [Calls -> ApiSession] /\ api[c] \in ApiSession
    BY DEF Shaped, SessionTypes
  <1>2. \/ api'[c] = api[c]
        \/ /\ api'[c] = [api[c] EXCEPT !.joined = TRUE]
           /\ Accept(s) /\ desk[s].call = c
    BY <1>1, DeskFrame DEF Accept
  <1> QED  BY <1>1, <1>2 DEF ApiSession

-----------------------------------------------------------------------------
(* Who knows.  Without a fault, what one side has done is known to the     *)
(* other or on its way.                                                    *)
LEMMA NoFaultYet ==
  ASSUME BoundTypes, Next, faults' = 0
  PROVE  faults = 0
  BY BoundsMoved, BoundsAssumption DEF BoundTypes, BoundsMove

LEMMA MutedInit == Init => MutedIsKnown
  BY DEF Init, MutedIsKnown

LEMMA MutedStep == Typed /\ MutedIsKnown /\ [Next]_vars => MutedIsKnown'
  <1> SUFFICES ASSUME Typed, MutedIsKnown, Next
               PROVE  MutedIsKnown'
    BY DEF vars, MutedIsKnown
  <1> SUFFICES ASSUME NEW c \in Calls, worker'[c].esc, faults' = 0
               PROVE  \/ c \in told'
                      \/ \E m \in mail' : m.kind = "escalation" /\ m.call = c
    BY DEF MutedIsKnown
  <1> USE DEF Typed
  <1>1. faults = 0
    BY NoFaultYet
  <1>2. worker[c].esc => \/ c \in told
                         \/ \E m \in mail : m.kind = "escalation" /\ m.call = c
    BY <1>1 DEF MutedIsKnown
  <1>3. ASSUME NEW d \in Calls, ByCaller(d)
        PROVE  \/ c \in told'
               \/ \E m \in mail' : m.kind = "escalation" /\ m.call = c
    <2>1. mail \subseteq mail' /\ told \subseteq told'
      BY <1>3, CallerFrame DEF Escalate, Reports, Post, Press, Pressed
    <2>2. CASE worker'[c].esc = worker[c].esc
      BY <1>2, <2>1, <2>2
    <2>3. CASE Escalate(c)
      <3>1. \E b : Post("escalation", c, b)
        BY <2>3 DEF Escalate, Reports
      <3> QED  BY <3>1, Posted
    <2>4. ~ EscalateTimesOut(c)
      BY <1>1 DEF EscalateTimesOut, Fault, Strikes
    <2> QED  BY <1>3, <2>2, <2>3, <2>4, CallerMoves
  <1>4. ASSUME NEW m \in mail, ByMessage(m)
        PROVE  \/ c \in told'
               \/ \E n \in mail' : n.kind = "escalation" /\ n.call = c
    <2>1. worker'[c].esc = worker[c].esc
      BY <1>4, MessageMoves
    <2>2. told \subseteq told' /\ mail' = mail \ {m}
      BY <1>4, MessageFrame DEF TakeUp
    <2>3. m.kind = "escalation" => m.call \in told'
      BY <1>1, <1>4 DEF ByMessage, Arrive, TakeUp, HearAccept, Cancel, Lose, Fault, Strikes
    <2> QED  BY <1>2, <2>1, <2>2, <2>3
  <1>5. ASSUME NEW s \in Sockets, ByDesk(s)
        PROVE  worker' = worker /\ told' = told /\ mail \subseteq mail'
    BY <1>5, DeskFrame DEF Accept, Decline, Post
  <1> QED
    BY <1>2, <1>3, <1>4, <1>5, Actors, TaskFrame, SocketFrame

(* An AI that went quiet for an escalation is known to the API, or the     *)
(* news is on its way, unless something failed.                            *)
THEOREM MutedIsAlwaysKnown == Spec => []MutedIsKnown
  BY MutedInit, MutedStep, AlwaysTyped, PTL DEF Spec

LEMMA AnsweredInit == Init => AnsweredTakesOver
  BY DEF Init, AnsweredTakesOver

LEMMA AnsweredStep == Typed /\ AnsweredTakesOver /\ [Next]_vars => AnsweredTakesOver'
  <1> SUFFICES ASSUME Typed, AnsweredTakesOver, Next
               PROVE  AnsweredTakesOver'
    BY DEF vars, AnsweredTakesOver
  <1> SUFFICES ASSUME NEW c \in Calls, api'[c].joined, faults' = 0
               PROVE  \/ worker'[c].joined
                      \/ \E m \in mail' : m.kind = "accepted" /\ m.call = c
    BY DEF AnsweredTakesOver
  <1> USE DEF Typed
  <1>1. faults = 0
    BY NoFaultYet
  <1>2. api[c].joined => \/ worker[c].joined
                         \/ \E m \in mail : m.kind = "accepted" /\ m.call = c
    BY <1>1 DEF AnsweredTakesOver
  <1>3. ASSUME NEW d \in Calls, ByCaller(d)
        PROVE  \/ worker'[c].joined
               \/ \E m \in mail' : m.kind = "accepted" /\ m.call = c
    <2>1. mail \subseteq mail'
      BY <1>3, CallerFrame DEF Escalate, Reports, Post
    <2> QED  BY <1>2, <1>3, <2>1, CallerMoves
  <1>4. ASSUME NEW m \in mail, ByMessage(m)
        PROVE  \/ worker'[c].joined
               \/ \E n \in mail' : n.kind = "accepted" /\ n.call = c
    <2>1. m.kind = "accepted" => HearAccept(m)
      BY <1>1, <1>4 DEF ByMessage, Arrive, TakeUp, Cancel, Lose, Fault, Strikes
    <2>2. mail' = mail \ {m} /\ api'[c].joined = api[c].joined
      BY <1>4, MessageFrame, MessageMoves
    <2>3. worker'[c].joined = (worker[c].joined \/ (HearAccept(m) /\ m.call = c))
      BY <1>4, MessageMoves
    <2> QED  BY <1>2, <2>1, <2>2, <2>3
  <1>5. ASSUME NEW t \in tasks, TaskRuns(t)
        PROVE  \/ worker'[c].joined
               \/ \E m \in mail' : m.kind = "accepted" /\ m.call = c
    BY <1>2, <1>5, TaskFrame, TaskMoves
  <1>6. ASSUME NEW s \in Sockets, ByDesk(s)
        PROVE  \/ worker'[c].joined
               \/ \E m \in mail' : m.kind = "accepted" /\ m.call = c
    <2>1. mail \subseteq mail'
      BY <1>6, DeskFrame DEF Accept, Decline, Post
    <2>2. CASE Accept(s) /\ desk[s].call = c
      <3>1. \E b : Post("accepted", c, b)
        BY <2>2 DEF Accept
      <3> QED  BY <3>1, Posted
    <2> QED  BY <1>2, <1>6, <2>1, <2>2, DeskFrame, DeskMoves
  <1> QED
    BY <1>2, <1>3, <1>4, <1>5, <1>6, Actors, SocketFrame

(* When a specialist has answered, the worker of the call is quiet, or the *)
(* news is on its way, unless something failed.                            *)
THEOREM AnswersAlwaysTakeOver == Spec => []AnsweredTakesOver
  BY AnsweredInit, AnsweredStep, AlwaysTyped, PTL DEF Spec

(* Without a fault, worker and API agree on who talks to the caller.       *)
THEOREM ProcessesAlwaysAgree == Spec => []ProcessesAgree
  <1>1. MutedIsKnown /\ AnsweredTakesOver => ProcessesAgree
    BY DEF ProcessesAgree
  <1> QED  BY <1>1, MutedIsAlwaysKnown, AnswersAlwaysTakeOver, PTL

-----------------------------------------------------------------------------
(* Nothing is dropped.  A call can only be waited for, or be on its way to *)
(* a desktop, after its start; so that a delivery always finds the session *)
(* in which it notes the socket.                                           *)
Begun ==
  /\ \A c \in Calls : worker[c].task # "none" => c \in active
  /\ \A m \in mail : m.kind = "escalation" => m.call \in active
  /\ \A t \in tasks : t.call \in active
  /\ \A q \in queue : q.call \in active

LEMMA BegunInit == Init => Begun /\ NeverDropped
  BY DEF Init, Begun, NeverDropped

LEMMA BegunStep == Typed /\ Begun /\ [Next]_vars => Begun'
  <1> SUFFICES ASSUME Typed, Begun, Next
               PROVE  Begun'
    BY DEF vars, Begun
  <1> USE DEF Typed
  <1>1. ASSUME NEW d \in Calls, ByCaller(d)
        PROVE  Begun'
    <2>1. active \subseteq active'
      BY <1>1, CallerFrame DEF Start
    <2>2. ASSUME NEW c \in Calls, worker'[c].task # "none"
          PROVE  c \in active'
      <3>1. worker \in [Calls -> WorkerSession] /\ worker[c] \in WorkerSession
        BY DEF Shaped, SessionTypes
      <3>2. CASE worker'[c] = worker[c]
        BY <2>1, <2>2, <3>2 DEF Begun
      <3>3. CASE worker'[c] # worker[c]
        <4>1. d = c /\ (Ask(d) \/ WorkerStep(d))
          BY <1>1, <3>1, <3>3, CallerFrame DEF Ask, WorkerStep, Look, LookAgain,
             NoSpecialist, Escalate, EscalateTimesOut, Frees, Escalated
        <4>2. c \in active
          BY <4>1 DEF Begun, Ask, On, WorkerStep, Look, LookAgain, NoSpecialist,
             Escalate, EscalateTimesOut
        <4> QED  BY <2>1, <4>2
      <3> QED  BY <3>2, <3>3
    <2>3. \A m \in mail' : m.kind = "escalation" => m.call \in active'
      <3>1. CASE Escalate(d)
        <4>1. \E b : Post("escalation", d, b)
          BY <3>1 DEF Escalate, Reports
        <4>2. d \in active
          BY <3>1 DEF Begun, Escalate
        <4> QED  BY <2>1, <4>1, <4>2, Posted DEF Begun
      <3> QED  BY <1>1, <2>1, <3>1, CallerFrame DEF Begun
    <2>4. \A t \in tasks' : t.call \in active'
      <3>1. CASE Press(d)
        <4>1. d \in active /\ \E b : tasks' = tasks \cup {Task(d, b, None)}
          BY <3>1 DEF Press, Pressed, MayPress, On
        <4> QED  BY <2>1, <4>1, TaskOf DEF Begun
      <3> QED  BY <1>1, <2>1, <3>1, CallerFrame DEF Begun
    <2> QED  BY <1>1, <2>1, <2>2, <2>3, <2>4, CallerFrame DEF Begun
  <1>2. ASSUME NEW m \in mail, ByMessage(m)
        PROVE  Begun'
    <2>1. ASSUME NEW c \in Calls, worker'[c].task # "none"
          PROVE  c \in active
      <3>1. worker \in [Calls -> WorkerSession] /\ worker[c] \in WorkerSession
        BY DEF Shaped, SessionTypes
      <3>2. worker'[c] = worker[c] \/ worker'[c] = [worker[c] EXCEPT !.joined = TRUE]
        BY <1>2, <3>1, MessageFrame DEF HearAccept, Hears
      <3> QED  BY <2>1, <3>1, <3>2 DEF Begun, WorkerSession
    <2>2. \A t \in tasks' : t.call \in active
      <3>1. CASE TakeUp(m)
        <4>1. m.call \in active /\ tasks' = tasks \cup {Task(m.call, m.bundle, None)}
          BY <3>1 DEF Begun, TakeUp
        <4> QED  BY <4>1, TaskOf DEF Begun
      <3> QED  BY <1>2, <3>1, MessageFrame DEF Begun
    <2> QED  BY <1>2, <2>1, <2>2, MessageFrame DEF Begun
  <1>3. ASSUME NEW t \in tasks, TaskRuns(t)
        PROVE  Begun'
    BY <1>3, TaskFrame DEF Begun, DeliverLater, Keeps
  <1>4. ASSUME NEW s \in Sockets, BySocket(s)
        PROVE  Begun'
    BY <1>4, SocketFrame DEF Begun, Connect, Flush, Task, Orphans
  <1>5. ASSUME NEW s \in Sockets, ByDesk(s)
        PROVE  Begun'
    <2>1. \A m \in mail' : m.kind = "escalation" => m \in mail
      <3>1. \/ mail' = mail
            \/ \E b : Post("accepted", desk[s].call, b)
            \/ \E b : Post("cancel", desk[s].call, b)
        BY <1>5, DeskFrame DEF Accept, Decline
      <3> QED  BY <3>1, Posted
    <2> QED  BY <1>5, <2>1, DeskFrame DEF Begun
  <1> QED
    BY <1>1, <1>2, <1>3, <1>4, <1>5, Actors

LEMMA DroppedStep == Typed /\ Begun /\ NeverDropped /\ [Next]_vars => NeverDropped'
  <1> SUFFICES ASSUME Typed, Begun, NeverDropped, Next
               PROVE  NeverDropped'
    BY DEF vars, NeverDropped
  <1> USE DEF Typed
  <1> SUFFICES ASSUME NEW c \in told'
               PROVE  \/ api'[c].ws # None
                      \/ \E q \in queue' : q.call = c
                      \/ \E t \in tasks' : t.call = c
    BY DEF NeverDropped
  <1>1. c \in told => \/ api[c].ws # None
                      \/ \E q \in queue : q.call = c
                      \/ \E t \in tasks : t.call = c
    BY DEF NeverDropped
  <1>2. told \subseteq Calls
    BY DEF Shaped, WireTypes
  <1>3. ASSUME NEW d \in Calls, ByCaller(d)
        PROVE  \/ api'[c].ws # None
               \/ \E q \in queue' : q.call = c
               \/ \E t \in tasks' : t.call = c
    <2>1. CASE Press(d)
      <3>1. told' = told \cup {d} /\ \E b : tasks' = tasks \cup {Task(d, b, None)}
        BY <2>1 DEF Press, Pressed
      <3>2. tasks \subseteq tasks' /\ \E t \in tasks' : t.call = d
        BY <3>1, TaskOf
      <3> QED  BY <1>1, <1>2, <1>3, <3>1, <3>2, CallerFrame, CallerMoves
    <2>2. CASE ~ Press(d)
      BY <1>1, <1>2, <1>3, <2>2, CallerFrame, CallerMoves
    <2> QED  BY <2>1, <2>2
  <1>4. ASSUME NEW m \in mail, ByMessage(m)
        PROVE  \/ api'[c].ws # None
               \/ \E q \in queue' : q.call = c
               \/ \E t \in tasks' : t.call = c
    <2>1. CASE TakeUp(m)
      <3>1. /\ tasks \subseteq tasks' /\ told' = told \cup {m.call}
            /\ \E t \in tasks' : t.call = m.call
        BY <2>1, TaskOf DEF TakeUp
      <3> QED  BY <1>1, <1>2, <1>4, <3>1, MessageFrame, MessageMoves
    <2>2. CASE ~ TakeUp(m)
      BY <1>1, <1>2, <1>4, <2>2, MessageFrame, MessageMoves
    <2> QED  BY <2>1, <2>2
  <1>5. ASSUME NEW t \in tasks, TaskRuns(t)
        PROVE  \/ api'[c].ws # None
               \/ \E q \in queue' : q.call = c
               \/ \E u \in tasks' : u.call = c
    <2>1. c \in told /\ c \in Calls
      BY <1>2, <1>5, TaskFrame
    <2>2. api[c].ws # None => api'[c].ws # None
      BY <1>5, <2>1, TaskMoves, NoneAssumption
    <2>3. queue \subseteq queue'
      BY <1>5, TaskFrame DEF DeliverLater, Keeps
    <2>4. t.call = c => api'[c].ws # None \/ \E q \in queue' : q.call = c
      <3>1. CASE Deliver(t)
        BY <2>1, <1>5, <3>1, TaskMoves, NoneAssumption DEF Begun
      <3>2. CASE DeliverLater(t)
        <4> DEFINE q == [call |-> t.call, bundle |-> t.bundle]
        <4>1. q \in queue' /\ q.call = t.call
          BY <3>2 DEF DeliverLater, Keeps
        <4> QED  BY <4>1
      <3> QED  BY <1>5, <3>1, <3>2 DEF TaskRuns
    <2> QED  BY <1>1, <1>5, <2>1, <2>2, <2>3, <2>4, TaskFrame
  <1>6. ASSUME NEW s \in Sockets, BySocket(s)
        PROVE  \/ api'[c].ws # None
               \/ \E q \in queue' : q.call = c
               \/ \E t \in tasks' : t.call = c
    <2>1. CASE Connect(s)
      <3>1. /\ tasks \subseteq tasks'
            /\ \A q \in queue : Task(q.call, q.bundle, None) \in tasks'
        BY <2>1 DEF Connect, Flush
      <3> QED  BY <1>1, <1>6, <3>1, TaskOf, SocketFrame
    <2> QED  BY <1>1, <1>6, <2>1, SocketFrame
  <1>7. ASSUME NEW s \in Sockets, ByDesk(s)
        PROVE  \/ api'[c].ws # None
               \/ \E q \in queue' : q.call = c
               \/ \E t \in tasks' : t.call = c
    BY <1>1, <1>2, <1>7, DeskFrame, DeskMoves
  <1> QED
    BY <1>3, <1>4, <1>5, <1>6, <1>7, Actors

(* An escalation the API took up is never dropped: it waits, is scheduled, *)
(* or was handed to a socket that the session names.                       *)
THEOREM NothingIsDropped == Spec => []NeverDropped
  BY BegunInit, BegunStep, DroppedStep, AlwaysTyped, PTL DEF Spec

-----------------------------------------------------------------------------
(* A desktop only rings for a call whose worker escalated, or that was     *)
(* escalated by the button; neither is ever undone.                        *)
Known == {c \in Calls : worker[c].esc \/ api[c].cached # "no"}

Origin ==
  /\ \A m \in mail : m.kind = "escalation" => m.call \in Known
  /\ \A t \in tasks : t.call \in Known
  /\ \A q \in queue : q.call \in Known
  /\ \A c \in Calls : api[c].bundle => c \in Known
  /\ \A s \in Sockets : desk[s].phase # "idle" => desk[s].call \in Known

LEMMA OriginInit == Init => Origin
  BY DEF Init, Origin, NoCall

LEMMA KnownStays ==
  ASSUME Shaped, Next
  PROVE  Known \subseteq Known'
  <1> SUFFICES ASSUME NEW c \in Calls, c \in Known
               PROVE  c \in Known'
    BY DEF Known
  <1> QED
    BY Actors, CallerMoves, MessageMoves, TaskMoves, DeskMoves, MessageFrame, TaskFrame,
       SocketFrame, DeskFrame DEF Known

LEMMA OriginStep == Typed /\ Origin /\ [Next]_vars => Origin'
  <1> SUFFICES ASSUME Typed, Origin, Next
               PROVE  Origin'
    BY DEF vars, Origin, Known
  <1> USE DEF Typed
  <1>0. Known \subseteq Known'
    BY KnownStays
  <1>3. /\ \A m \in mail : m.kind = "escalation" => m.call \in Known'
        /\ \A t \in tasks : t.call \in Known'
        /\ \A q \in queue : q.call \in Known'
        /\ \A c \in Calls : api[c].bundle => c \in Known'
        /\ \A s \in Sockets : desk[s].phase # "idle" => desk[s].call \in Known'
    BY <1>0 DEF Origin
  <1>4. ASSUME NEW d \in Calls, ByCaller(d)
        PROVE  Origin'
    <2>1. \A m \in mail' : m.kind = "escalation" => m.call \in Known'
      <3>1. CASE Escalate(d)
        <4>1. \E b : Post("escalation", d, b)
          BY <3>1 DEF Escalate, Reports
        <4>2. d \in Known'
          BY <3>1 DEF Known, Shaped, SessionTypes, WorkerSession, Escalate, Escalated
        <4> QED  BY <1>3, <4>1, <4>2, Posted
      <3> QED  BY <1>3, <1>4, <3>1, CallerFrame
    <2>2. \A t \in tasks' : t.call \in Known'
      <3>1. CASE Press(d)
        <4>1. \E b : tasks' = tasks \cup {Task(d, b, None)}
          BY <3>1 DEF Press, Pressed
        <4>2. d \in Known'
          <5>1. api \in [Calls -> ApiSession] /\ api[d] \in ApiSession
            BY DEF Shaped, SessionTypes
          <5>2. ASSUME NEW b, NEW a, Pressed(d, b, a)
                PROVE  api'[d].cached # "no"
            <6>1. api'[d] = [api[d] EXCEPT !.esc = api[d].esc \/ a, !.bundle = b,
                                           !.cached = IF b THEN "bundle" ELSE "bare"]
              BY <5>1, <5>2 DEF Pressed
            <6> QED  BY <5>1, <6>1 DEF ApiSession
          <5> QED  BY <3>1, <5>2 DEF Known, Press
        <4> QED  BY <1>3, <4>1, <4>2, TaskOf
      <3> QED  BY <1>3, <1>4, <3>1, CallerFrame
    <2>3. \A c \in Calls : api'[c].bundle => c \in Known'
      <3> SUFFICES ASSUME NEW c \in Calls, api'[c].bundle
                   PROVE  c \in Known'
        OBVIOUS
      <3>1. api[c].bundle \/ api'[c].cached # "no"
        BY <1>4, CallerMoves
      <3> QED  BY <1>3, <3>1 DEF Known
    <2>4. /\ \A q \in queue' : q.call \in Known'
          /\ \A s \in Sockets : desk'[s].phase # "idle" => desk[s].call \in Known'
      BY <1>3, <1>4, CallerFrame
    <2> QED  BY <1>4, <2>1, <2>2, <2>3, <2>4, CallerFrame DEF Origin, Known
  <1>5. ASSUME NEW m \in mail, ByMessage(m)
        PROVE  Origin'
    <2>1. \A t \in tasks' : t.call \in Known'
      <3>1. CASE TakeUp(m)
        <4>1. m.kind = "escalation" /\ tasks' = tasks \cup {Task(m.call, m.bundle, None)}
          BY <3>1 DEF TakeUp
        <4> QED  BY <1>3, <4>1, TaskOf
      <3> QED  BY <1>3, <1>5, <3>1, MessageFrame
    <2>2. \A c \in Calls : api'[c].bundle => c \in Known'
      <3> SUFFICES ASSUME NEW c \in Calls, api'[c].bundle
                   PROVE  c \in Known'
        OBVIOUS
      <3>1. api[c].bundle \/ (TakeUp(m) /\ m.call = c)
        BY <1>5, MessageMoves
      <3> QED  BY <1>3, <3>1 DEF TakeUp
    <2> QED  BY <1>3, <1>5, <2>1, <2>2, MessageFrame DEF Origin, Known
  <1>6. ASSUME NEW t \in tasks, TaskRuns(t)
        PROVE  Origin'
    <2>1. \A q \in queue' : q.call \in Known'
      BY <1>3, <1>6, TaskFrame DEF DeliverLater, Keeps
    <2>2. \A c \in Calls : api'[c].bundle => c \in Known'
      BY <1>3, <1>6, TaskMoves
    <2>3. \A s \in Sockets : desk'[s].phase # "idle" => desk'[s].call \in Known'
      <3>1. CASE desk' = desk
        BY <1>3, <3>1
      <3>2. CASE desk' # desk
        <4>1. PICK s \in Willing(t) : desk' = [desk EXCEPT ![s].call = t.call,
                                                           ![s].phase = "ring"]
          BY <1>6, <3>2, TaskFrame DEF Deliver
        <4> QED
          BY <1>3, <4>1 DEF Shaped, DeskTypes, Desk
      <3> QED  BY <3>1, <3>2
    <2> QED  BY <1>3, <1>6, <2>1, <2>2, <2>3, TaskFrame DEF Origin, Known
  <1>7. ASSUME NEW s \in Sockets, BySocket(s)
        PROVE  Origin'
    <2>1. (\A t \in tasks' : t.call \in Known') /\ (\A q \in queue' : q.call \in Known')
      <3>1. CASE Connect(s)
        <4>1. \A c \in Orphans : c \in Calls /\ api[c].bundle
          BY DEF Orphans, Shaped, WireTypes
        <4>2. \A t \in tasks' : \/ t \in tasks
                                \/ \E q \in queue : t.call = q.call
                                \/ \E c \in Orphans : t.call = c
          BY <3>1 DEF Connect, Flush, Task
        <4>3. queue' = {}
          BY <3>1 DEF Connect, Flush
        <4> QED  BY <1>3, <4>1, <4>2, <4>3
      <3> QED  BY <1>3, <1>7, <3>1, SocketFrame
    <2>2. \A x \in Sockets : desk'[x].phase # "idle" => desk'[x] = desk[x]
      BY <1>7, SocketFrame DEF Shaped, DeskTypes, NoCall
    <2> QED  BY <1>3, <1>7, <2>1, <2>2, SocketFrame DEF Origin, Known
  <1>8. ASSUME NEW s \in Sockets, ByDesk(s)
        PROVE  Origin'
    <2>1. \A m \in mail' : m.kind = "escalation" => m \in mail
      <3>1. \/ mail' = mail
            \/ \E b : Post("accepted", desk[s].call, b)
            \/ \E b : Post("cancel", desk[s].call, b)
        BY <1>8, DeskFrame DEF Accept, Decline
      <3> QED  BY <3>1, Posted
    <2>2. \A c \in Calls : api'[c].bundle => c \in Known'
      BY <1>3, <1>8, DeskMoves
    <2>3. \A x \in Sockets : desk'[x].phase # "idle" =>
             desk[x].phase # "idle" /\ desk'[x].call = desk[x].call
      <3>1. CASE desk' = [desk EXCEPT ![s] = NoCall]
        BY <3>1 DEF Shaped, DeskTypes, NoCall
      <3>2. CASE /\ desk[s].phase # "idle"
                 /\ \E p \in {"active", "acw"} : desk' = [desk EXCEPT ![s].phase = p]
        BY <3>2 DEF Shaped, DeskTypes, Desk
      <3> QED  BY <1>8, <3>1, <3>2 DEF ByDesk, Accept, Decline, End, Submit, Shows
    <2> QED  BY <1>3, <1>8, <2>1, <2>2, <2>3, DeskFrame DEF Origin, Known
  <1> QED
    BY <1>4, <1>5, <1>6, <1>7, <1>8, Actors

(* Words a specialist types reach the caller, or are lost on a call that   *)
(* was escalated by the button.                                            *)
THEOREM LostOnlyEverByButton == Spec => []LostOnlyByButton
  <1>1. Typed /\ Origin => LostOnlyByButton
    BY DEF Origin, Known, LostOnlyByButton, Typing, Shows, Speaks
  <1> QED  BY <1>1, OriginInit, OriginStep, AlwaysTyped, PTL DEF Spec

=============================================================================
