------------------------------ MODULE Handoff ------------------------------
(***************************************************************************)
(* The handoff of a call to a specialist.  Three processes take part: the  *)
(* voice worker of the call (backend/voice), the API (backend/routers),    *)
(* and the specialists' desktops behind their sockets; the caller's        *)
(* browser shows whom the caller talks to.  The worker and the API hold a  *)
(* CallSession each, kept in step by HTTP events and by data messages of   *)
(* the room, either of which may be lost.                                  *)
(*                                                                         *)
(* A caller escalates by voice or by the button "Talk to Human".  A        *)
(* desktop that reconnects is another socket.                              *)
(***************************************************************************)
EXTENDS Naturals

CONSTANTS
  Calls,
  ByVoice,     \* the calls whose caller may ask for a human aloud
  ByButton,    \* the calls whose caller may press the button
  Connections, \* bound: the connections of desktops
  None,        \* no call, no socket
  MaxFaults,   \* bound: lost messages, failed writes, cut connections
  MaxUses      \* bound: a caller's presses of the button and a specialist's
               \*        changes of status, together


(* The sockets of desktops, numbered as they connect, each used once.      *)
Sockets == 1..Connections

ASSUME NoneAssumption == None \notin Calls \cup Sockets
ASSUME CallersAssumption == ByVoice \subseteq Calls /\ ByButton \subseteq Calls
ASSUME BoundsAssumption == /\ MaxFaults \in Nat /\ MaxUses \in Nat
                           /\ Connections \in Nat

VARIABLES
  worker,     \* the worker's session of each call, and its deferred task
  screen,     \* the caller's browser
  api,        \* the API's session of each call
  active,     \* ACTIVE_CALLS of the API
  mail,       \* events and data messages on their way
  tasks,      \* deliveries of incoming_call that are scheduled
  queue,      \* app_state.pending_escalations
  connected,  \* app_state.connected_agents
  life,       \* the sockets
  status,     \* app_state.agent_statuses
  online,     \* the sockets whose agent_profiles.status is 'online'
  desk,       \* what each desktop shows
  faults, toggles, presses,
  told        \* history: calls whose escalation the API took up

sessions == <<worker, api, active>>
wires == <<mail, tasks, queue>>
desks == <<connected, life, status, online, desk>>
bounds == <<faults, toggles, presses>>
past == <<told>>
vars == <<worker, screen, api, active, mail, tasks, queue, connected,
          life, status, online, desk, faults, toggles, presses, told>>

TaskSteps == {"none", "delay", "again", "tool"}

Message == [kind : {"escalation", "accepted", "cancel"}, call : Calls,
            bundle : BOOLEAN]
Item == [call : Calls, bundle : BOOLEAN]

HandoffTypeOK ==
  /\ worker \in [Calls -> [esc : BOOLEAN, joined : BOOLEAN, pend : BOOLEAN,
                           task : TaskSteps]]
  /\ screen \in [Calls -> {"talk", "transfer", "human", "over"}]
  /\ api \in [Calls -> [esc : BOOLEAN, bundle : BOOLEAN, joined : BOOLEAN,
                        cached : {"no", "bundle", "bare"},
                        ws : Sockets \cup {None}]]
  /\ active \subseteq Calls
  /\ mail \subseteq Message
  /\ tasks \subseteq [call : Calls, bundle : BOOLEAN, to : Sockets \cup {None}]
  /\ queue \subseteq Item
  /\ connected \subseteq Sockets
  /\ life \in [Sockets -> {"new", "up", "cut", "closed"}]
  /\ \A s \in connected : life[s] \in {"up", "cut"}
  /\ status \in [Sockets -> {"active", "busy"}]
  /\ online \subseteq Sockets
  /\ desk \in [Sockets -> [call : Calls \cup {None},
                           phase : {"idle", "ring", "active", "acw"}]]
  /\ faults \in 0..MaxFaults
  /\ toggles \in Nat /\ presses \in Nat /\ toggles + presses <= MaxUses
  /\ told \subseteq Calls

NoCall == [call |-> None, phase |-> "idle"]

Init ==
  /\ worker = [c \in Calls |-> [esc |-> FALSE, joined |-> FALSE,
                                pend |-> FALSE, task |-> "none"]]
  /\ screen = [c \in Calls |-> "talk"]
  /\ api = [c \in Calls |-> [esc |-> FALSE, bundle |-> FALSE,
                             joined |-> FALSE, cached |-> "no", ws |-> None]]
  /\ active = {}
  /\ mail = {} /\ tasks = {} /\ queue = {}
  /\ connected = {}
  /\ life = [s \in Sockets |-> "new"]
  /\ status = [s \in Sockets |-> "active"]
  /\ online = {}
  /\ desk = [s \in Sockets |-> NoCall]
  /\ faults = 0 /\ toggles = 0 /\ presses = 0
  /\ told = {}

On(c) == c \in active /\ screen[c] # "over"
Strikes == faults < MaxFaults /\ faults' = faults + 1
Fault == Strikes /\ UNCHANGED <<toggles, presses>>

Post(kind, c, b) == mail' = mail \cup {[kind |-> kind, call |-> c, bundle |-> b]}
Got(m) == mail' = mail \ {m}

(* start-call, and the webhook of a call by telephone. *)
Start(c) ==
  /\ c \notin active
  /\ active' = active \cup {c}
  /\ UNCHANGED <<worker, screen, api, wires, desks, bounds, past>>

(* The caller leaves; no session of the API is ever removed.               *)
HangUp(c) ==
  /\ On(c)
  /\ screen' = [screen EXCEPT ![c] = "over"]
  /\ UNCHANGED <<sessions, wires, desks, bounds, past>>

-----------------------------------------------------------------------------
(* The worker.                                                             *)

(* llm_node says the transfer phrase and defers the tool by 3.5 seconds;   *)
(* nothing else escalates meanwhile.                                       *)
Ask(c) ==
  /\ On(c) /\ c \in ByVoice
  /\ ~worker[c].esc /\ ~worker[c].joined /\ ~worker[c].pend
  /\ worker' = [worker EXCEPT ![c].pend = TRUE, ![c].task = "delay"]
  /\ UNCHANGED <<screen, api, active, wires, desks, bounds, past>>

Active(s) == s \in connected /\ status[s] = "active"

(* GET /api/agents/availability: the column first, the memory otherwise.   *)
Available == online # {} \/ \E s \in Sockets : Active(s)

(* Two looks, 0.7 s apart; a look that fails counts as available.          *)
Look(c) ==
  /\ worker[c].task \in {"delay", "again"}
  /\ \/ Available /\ UNCHANGED bounds
     \/ ~Available /\ Fault
  /\ worker' = [worker EXCEPT ![c].task = "tool"]
  /\ UNCHANGED <<screen, api, active, wires, desks, past>>

LookAgain(c) ==
  /\ worker[c].task = "delay" /\ ~Available
  /\ worker' = [worker EXCEPT ![c].task = "again"]
  /\ UNCHANGED <<screen, api, active, wires, desks, bounds, past>>

(* Variant: the guard of the deferred task is left standing. *)
FreesNever(c) == [worker EXCEPT ![c].task = "none"]
Frees(c) == [worker EXCEPT ![c].task = "none", ![c].pend = FALSE]

(* Nobody: the caller's browser is told to go back, and the caller may ask *)
(* again.                                                                  *)
NoSpecialist(c) ==
  /\ worker[c].task = "again" /\ ~Available
  /\ worker' = Frees(c)
  /\ screen' = [screen EXCEPT ![c] = IF @ = "transfer" THEN "talk" ELSE @]
  /\ UNCHANGED <<api, active, wires, desks, bounds, past>>

Escalated(c) == [worker EXCEPT ![c].esc = TRUE, ![c].task = "none"]

(* Variant: reported only while a desktop is available. *)
ReportsIfAvailable(c, b) ==
  IF Available THEN Post("escalation", c, b) ELSE UNCHANGED mail
Reports(c, b) == Post("escalation", c, b)

(* The tool marks the session, then writes the call's row.  When the write *)
(* fails the retry finds the session escalated: a success with no bundle.  *)
(* The browser shows the transfer, and the API is told.                    *)
Escalate(c) ==
  /\ worker[c].task = "tool"
  /\ worker' = Escalated(c)
  /\ screen' = [screen EXCEPT ![c] = IF @ = "over" THEN @ ELSE "transfer"]
  /\ \/ Reports(c, TRUE) /\ UNCHANGED bounds
     \/ Reports(c, FALSE) /\ Fault
  /\ UNCHANGED <<api, active, tasks, queue, desks, past>>

(* The write takes longer than three seconds: not retried, a failure, and  *)
(* the session stays marked.                                               *)
EscalateTimesOut(c) ==
  /\ worker[c].task = "tool"
  /\ Fault
  /\ worker' = Escalated(c)
  /\ UNCHANGED <<screen, api, active, wires, desks, past>>

-----------------------------------------------------------------------------
(* The API.                                                                *)

Task(c, b, to) == [call |-> c, bundle |-> b, to |-> to]

(* worker_event takes up the escalation: its own session is brought in     *)
(* step and a delivery scheduled.                                          *)
TakeUp(m) ==
  /\ m \in mail /\ m.kind = "escalation"
  /\ Got(m)
  /\ api' = IF m.call \in active
            THEN [api EXCEPT ![m.call].esc = TRUE, ![m.call].bundle = m.bundle]
            ELSE api
  /\ tasks' = tasks \cup {Task(m.call, m.bundle, None)}
  /\ told' = told \cup {m.call}
  /\ UNCHANGED <<worker, screen, active, queue, desks, bounds>>

(* A message is lost: the sender logs it.                                  *)
Lose(m) ==
  /\ m \in mail
  /\ Got(m)
  /\ Fault
  /\ UNCHANGED <<worker, screen, api, active, tasks, queue, desks, past>>

(* The button: request-human escalates in the API's process, and the       *)
(* worker is not told.  A result of the last ten minutes comes from the    *)
(* store of idempotency keys: then the tool does not run, and does not     *)
(* mark the session.                                                       *)
Pressed(c, b, marks) ==
  /\ api' = [api EXCEPT ![c].esc = @ \/ marks, ![c].bundle = b,
                        ![c].cached = IF b THEN "bundle" ELSE "bare"]
  /\ tasks' = tasks \cup {Task(c, b, None)}
  /\ screen' = [screen EXCEPT ![c] = "transfer"]
  /\ told' = told \cup {c}

MayPress(c) ==
  /\ On(c) /\ c \in ByButton /\ screen[c] = "talk"
  /\ toggles + presses < MaxUses /\ presses' = presses + 1
  /\ UNCHANGED toggles

Press(c) ==
  /\ MayPress(c) /\ ~api[c].esc
  /\ \/ Pressed(c, TRUE, TRUE) /\ UNCHANGED faults
     \/ Pressed(c, FALSE, TRUE) /\ Strikes
     \/ /\ api[c].cached # "no"
        /\ Pressed(c, api[c].cached = "bundle", FALSE)
        /\ UNCHANGED faults
  /\ UNCHANGED <<worker, active, mail, queue, desks>>

(* It times out: an error to the browser, the session stays marked.        *)
PressTimesOut(c) ==
  /\ MayPress(c) /\ ~api[c].esc
  /\ Strikes
  /\ api' = [api EXCEPT ![c].esc = TRUE]
  /\ UNCHANGED <<worker, screen, active, wires, desks, past>>

(* Pressed when the session is marked already: "already_escalated".        *)
PressAgain(c) ==
  /\ MayPress(c) /\ api[c].esc
  /\ screen' = [screen EXCEPT ![c] = "transfer"]
  /\ UNCHANGED <<worker, api, active, wires, desks, faults, past>>

(* cancel-escalation, called by the caller's browser and by a decline.     *)
CancelOf(c) == IF api[c].joined THEN api ELSE [api EXCEPT ![c].esc = FALSE]

(* "Back to AI" in the browser, whatever the answer.                       *)
Revert(c) ==
  /\ On(c) /\ screen[c] = "transfer"
  /\ api' = CancelOf(c)
  /\ screen' = [screen EXCEPT ![c] = "talk"]
  /\ UNCHANGED <<worker, active, wires, desks, bounds, past>>

(* The decline's request arrives: the browser leaves the transfer.         *)
Cancel(m) ==
  /\ m \in mail /\ m.kind = "cancel"
  /\ Got(m)
  /\ api' = CancelOf(m.call)
  /\ screen' = IF ~api[m.call].joined /\ screen[m.call] = "transfer"
               THEN [screen EXCEPT ![m.call] = "talk"] ELSE screen
  /\ UNCHANGED <<worker, active, tasks, queue, desks, bounds, past>>

-----------------------------------------------------------------------------
(* Delivery.                                                               *)

Targets(t) == IF t.to = None THEN connected ELSE {t.to}
Willing(t) == {s \in Targets(t) : status[s] = "active"}

(* What is left of the connected desktops when dead ones are dropped. *)
Without(t, dead) == IF t.to = None THEN connected \ dead ELSE connected

(* _send_escalation_to_agent: the first active socket whose send does not  *)
(* raise takes the call.  A cut connection may swallow it.                 *)
Deliver(t) ==
  /\ t \in tasks
  /\ tasks' = tasks \ {t}
  /\ \E s \in Willing(t) :
       LET dead == {x \in Willing(t) : x < s} IN
       /\ life[s] \in {"up", "cut"}
       /\ \A x \in dead : life[x] # "up"
       /\ connected' = Without(t, dead)
       /\ api' = IF t.call \in active
                 THEN [api EXCEPT ![t.call].ws = s] ELSE api
       /\ desk' = IF life[s] = "up"
                  THEN [desk EXCEPT ![s].call = t.call, ![s].phase = "ring"]
                  ELSE desk
  /\ UNCHANGED <<worker, screen, active, mail, queue, life, status, online,
                 bounds, past>>

(* Variant: an escalation nobody takes is forgotten. *)
KeepsNot(t) == UNCHANGED queue
Keeps(t) == queue' = queue \cup {[call |-> t.call, bundle |-> t.bundle]}

(* Nobody takes it: it waits.                                              *)
DeliverLater(t) ==
  /\ t \in tasks
  /\ \A s \in Willing(t) : life[s] # "up"
  /\ tasks' = tasks \ {t}
  /\ Keeps(t)
  /\ connected' = Without(t, Willing(t))
  /\ UNCHANGED <<sessions, screen, mail, life, status, online, desk,
                 bounds, past>>

-----------------------------------------------------------------------------
(* The desktops' sockets.                                                  *)

Lives(s) == s \in connected

(* Calls that were escalated with a bundle and whose socket is gone.       *)
Orphans == {c \in active : api[c].esc /\ api[c].bundle
                                  /\ (api[c].ws = None \/ ~Lives(api[c].ws))}

(* Variant: what waited is left waiting. *)
FlushOrphans(s) ==
  /\ queue' = queue
  /\ tasks' = tasks \cup {Task(c, TRUE, s) : c \in Orphans}

(* A desktop connects: everything that waits is scheduled for whoever is   *)
(* connected, and the orphans for the newcomer.                            *)
Flush(s) ==
  /\ queue' = {}
  /\ tasks' = tasks \cup {Task(q.call, q.bundle, None) : q \in queue}
                   \cup {Task(c, TRUE, s) : c \in Orphans}

Connect(s) ==
  /\ life[s] = "new" /\ \A x \in 1..(s - 1) : life[x] # "new"
  /\ life' = [life EXCEPT ![s] = "up"]
  /\ connected' = connected \cup {s}
  /\ online' = online \cup {s}
  /\ Flush(s)
  /\ UNCHANGED <<sessions, screen, mail, status, desk, bounds, past>>

(* The connection is cut; the server notices later.                        *)
Cut(s) ==
  /\ life[s] = "up"
  /\ Fault
  /\ life' = [life EXCEPT ![s] = "cut"]
  /\ desk' = [desk EXCEPT ![s] = NoCall]
  /\ UNCHANGED <<sessions, screen, wires, connected, status, online, past>>

Leaves(s) == connected' = connected \ {s}

(* The handler of the socket ends: closed by the desktop, or found cut.    *)
(* A status that is not there counts as active.                            *)
Close(s) ==
  /\ life[s] \in {"up", "cut"}
  /\ life' = [life EXCEPT ![s] = "closed"]
  /\ Leaves(s)
  /\ online' = online \ {s}
  /\ status' = [status EXCEPT ![s] = "active"]
  /\ desk' = [desk EXCEPT ![s] = NoCall]
  /\ UNCHANGED <<sessions, screen, wires, bounds, past>>

(* set_status.  The column follows; what waits is not flushed.             *)
SetStatus(s, new) ==
  /\ life[s] = "up" /\ status[s] # new
  /\ toggles + presses < MaxUses
  /\ toggles' = toggles + 1
  /\ status' = [status EXCEPT ![s] = new]
  /\ online' = IF new = "active" THEN online \cup {s} ELSE online \ {s}
  /\ UNCHANGED <<sessions, screen, wires, connected, life, desk, faults, presses,
                 past>>

-----------------------------------------------------------------------------
(* The specialist.                                                         *)

Shows(s, phase) == life[s] = "up" /\ desk[s].phase = phase

(* agent-join: the API's session is marked, escalated or not, and the      *)
(* worker told by a data message.                                          *)
Accept(s) ==
  LET c == desk[s].call IN
  /\ Shows(s, "ring")
  /\ desk' = [desk EXCEPT ![s].phase = "active"]
  /\ api' = [api EXCEPT ![c].joined = TRUE]
  /\ Post("accepted", c, FALSE)
  /\ UNCHANGED <<worker, screen, active, tasks, queue, connected, life, status,
                 online, bounds, past>>

(* Variant: heard only by a worker that escalated. *)
HearsIfEscalated(c) == [worker EXCEPT ![c].joined = worker[c].esc]
Hears(c) == [worker EXCEPT ![c].joined = TRUE]

(* The worker: the AI is quiet from now on.                                *)
HearAccept(m) ==
  /\ m \in mail /\ m.kind = "accepted"
  /\ Got(m)
  /\ worker' = Hears(m.call)
  /\ screen' = [screen EXCEPT ![m.call] =
                  IF @ = "over" \/ worker[m.call].joined THEN @ ELSE "human"]
  /\ UNCHANGED <<api, active, tasks, queue, desks, bounds, past>>

(* decline_call.                                                           *)
Decline(s) ==
  LET c == desk[s].call IN
  /\ Shows(s, "ring")
  /\ desk' = [desk EXCEPT ![s] = NoCall]
  /\ Post("cancel", c, FALSE)
  /\ UNCHANGED <<worker, screen, api, active, tasks, queue, connected, life,
                 status, online, bounds, past>>

(* agent-say: the specialist can type to the caller of this call.          *)
Typing(s) == Shows(s, "active") /\ On(desk[s].call)

(* Variant: spoken only once the worker knows the specialist. *)
SpeaksIfJoined(c) == worker[c].esc /\ worker[c].joined
(* on_data speaks the words if the worker's session is escalated.          *)
Speaks(c) == worker[c].esc

(* end_call: the room is deleted, which ends the call.                     *)
End(s) ==
  LET c == desk[s].call IN
  /\ Shows(s, "active")
  /\ desk' = [desk EXCEPT ![s].phase = "acw"]
  /\ screen' = [screen EXCEPT ![c] = "over"]
  /\ UNCHANGED <<worker, api, active, wires, connected, life, status, online,
                 bounds, past>>

(* acw_submit: the summary is written to a call of this socket; the desk   *)
(* is free.                                                                *)
Submit(s) ==
  /\ Shows(s, "acw")
  /\ desk' = [desk EXCEPT ![s] = NoCall]
  /\ UNCHANGED <<sessions, screen, wires, connected, life, status, online,
                 bounds, past>>

-----------------------------------------------------------------------------
WorkerStep(c) ==
  Look(c) \/ LookAgain(c) \/ NoSpecialist(c) \/ Escalate(c) \/ EscalateTimesOut(c)

Arrive(m) == TakeUp(m) \/ HearAccept(m) \/ Cancel(m)

TaskRuns(t) == Deliver(t) \/ DeliverLater(t)

Next ==
  \/ \E c \in Calls :
       \/ Start(c) \/ HangUp(c) \/ Ask(c) \/ WorkerStep(c)
       \/ Press(c) \/ PressTimesOut(c) \/ PressAgain(c) \/ Revert(c)
  \/ \E m \in mail : Arrive(m) \/ Lose(m)
  \/ \E t \in tasks : TaskRuns(t)
  \/ \E s \in Sockets :
       \/ Connect(s) \/ Cut(s) \/ Close(s)
       \/ \E new \in {"active", "busy"} : SetStatus(s, new)
       \/ Accept(s) \/ Decline(s) \/ End(s) \/ Submit(s)

Spec == Init /\ [][Next]_vars

(* Tasks of the two event loops go on; a message that is not lost arrives. *)
FairSpec ==
  /\ Spec
  /\ \A c \in Calls : WF_vars(WorkerStep(c))
  /\ WF_vars(\E m \in mail : Arrive(m))
  /\ WF_vars(\E t \in tasks : TaskRuns(t))

-----------------------------------------------------------------------------
(* Properties.                                                             *)

(* deliver_incoming_call "queues the escalation (never drops)"             *)
(* (ws_agent.py:363), through flushes, failed sends and reconnections: one *)
(* the API took up waits, is scheduled, or was handed to a socket.         *)
NeverDropped ==
  \A c \in told : \/ api[c].ws # None
                  \/ \E q \in queue : q.call = c
                  \/ \E t \in tasks : t.call = c

(* When the worker has gone quiet for an escalation, the API knows or will *)
(* know of it, unless something failed.                                    *)
MutedIsKnown ==
  \A c \in Calls : worker[c].esc /\ faults = 0 =>
    \/ c \in told
    \/ \E m \in mail : m.kind = "escalation" /\ m.call = c

(* Words a specialist types are only lost on calls escalated by the        *)
(* button, whose worker does not know (agent_session.py:420).              *)
LostOnlyByButton ==
  \A s \in Sockets : Typing(s) =>
    Speaks(desk[s].call) \/ api[desk[s].call].cached # "no"

(* Once a specialist has answered, the worker knows or will know, unless   *)
(* something failed: two voices never talk to the caller.                  *)
AnsweredTakesOver ==
  \A c \in Calls : api[c].joined /\ faults = 0 =>
    \/ worker[c].joined
    \/ \E m \in mail : m.kind = "accepted" /\ m.call = c

(* Worker and API agree on who talks to the caller, when nothing fails.    *)
ProcessesAgree == MutedIsKnown /\ AnsweredTakesOver

(* An escalation the API took up is handed to a desktop, unless none stays *)
(* that is active, or one's status was changed under it.                   *)
QueueServed ==
  \A c \in Calls : (c \in told) ~>
    \/ api[c].ws # None
    \/ \A s \in Sockets : ~(Active(s) /\ life[s] = "up")
    \/ toggles > 0

(* The deferred escalation of llm_node ends: the worker is escalated, or   *)
(* the caller may ask again.                                               *)
DeferredEnds ==
  \A c \in Calls : worker[c].pend ~> (worker[c].esc \/ ~worker[c].pend)

(* An escalation gets on, in the worker and in the API.                    *)
EscalationsProceed == DeferredEnds /\ QueueServed

-----------------------------------------------------------------------------
(* What the repository says and the code refutes.                          *)

(* cancel-escalation is to "return control to the AI agent"                *)
(* (livekit_router.py:308), for a decline (ws_agent.py:256) and for the    *)
(* caller's own change of mind: once an escalation the API took up is      *)
(* cancelled and nothing is under way, the worker's AI is not mute.        *)
CancelReturnsToAI ==
  \A c \in told :
    screen[c] = "talk" /\ ~api[c].esc /\ (\A m \in mail : m.call # c)
    => ~worker[c].esc

(* What a specialist types "must always reach the TTS layer"               *)
(* (agent_session.py:415).                                                 *)
SpecialistHeard == \A s \in Sockets : Typing(s) => Speaks(desk[s].call)

=============================================================================
