--------------------------- MODULE WorkflowStore ---------------------------
(***************************************************************************)
(* The workflow definitions: rows that editors change over HTTP, the       *)
(* embeddings of their intents, the cache of the API that utterances are   *)
(* matched against, and the cache of the worker of a call.  A request      *)
(* reads, embeds, writes and reloads between awaits; a task of the start   *)
(* of the API fills in missing embeddings in one transaction.              *)
(***************************************************************************)
EXTENDS Naturals, FiniteSets

CONSTANTS
  Seeded,       \* workflows that the seed script writes
  Drafts,       \* workflows that an editor may create
  Editors,      \* requests that may be under way at once
  MaxText,      \* bound: intent texts 0..MaxText, the empty one among them
  MaxRequests,  \* bound: requests
  MaxUpsets     \* bound: failures, restarts and runs of the seed script

ASSUME StoreConstants ==
  /\ Seeded \cap Drafts = {} /\ MaxText \in Nat \ {0}
  /\ MaxRequests \in Nat /\ MaxUpsets \in Nat

Ids == Seeded \cup Drafts
Texts == 0..MaxText
Empty == 0      \* no intent definition, no example
Null == MaxText + 1
Keep == MaxText + 1

VARIABLES
  rows,       \* workflow_definitions
  job,        \* the requests
  boot,       \* the task of the start
  cache,      \* _active_workflows of the API
  match,      \* an utterance that is being matched
  call,       \* whether the call has started
  worker,     \* _active_workflows of the worker of the call
  told,       \* what the last match came to in the worker
  agreed,     \* history: on these, worker, cache and row agreed at the call's
              \* start, and nothing has changed since
  mixed,      \* history: two reloads, or the task and a request, overlapped
  requests, faults, restarts, seeds

asked == <<match, call, worker, told>>
bounds == <<requests, faults, restarts, seeds>>
vars == <<rows, job, boot, cache, match, call, worker, told, agreed, mixed,
          requests, faults, restarts, seeds>>

Rows == [made : BOOLEAN, active : BOOLEAN, text : Texts,
         own : (Texts \ {Empty}) \cup {Null}, emb : Texts \cup {Null}]
(* The editor sends everything, other clients what they change.            *)
Bodies == [text : Texts, active : {"on", "off"}]
          \cup [text : {Keep}, active : {"keep", "on", "off"}]
Entries == [id : Ids, text : Texts, emb : Texts \cup {Null}]
Idle == [pc |-> "idle"]
NotLoaded == {}       \* None, which get_active_workflows takes for no workflow

StoreTypeOK ==
  /\ rows \in [Ids -> Rows]
  /\ \A id \in Ids : ~rows[id].made => ~rows[id].active
  /\ \A e \in Editors :
       /\ job[e].pc \in {"idle", "embed", "write", "written", "select", "assign"}
       /\ job[e].pc \in {"embed", "write"} =>
            job[e].id \in Ids /\ job[e].row \in Rows
       /\ job[e].pc = "assign" => job[e].got \subseteq Entries
  /\ boot.pc \in {"embed", "written", "select", "assign", "over"}
  /\ boot.todo \subseteq Entries /\ boot.done \subseteq Entries
  /\ {n.id : n \in boot.todo} \cap {n.id : n \in boot.done} = {}
  /\ cache \subseteq Entries /\ worker \subseteq Entries
  /\ match \in [pc : {"asked"}, id : Ids] \cup {Idle}
  /\ told \in [id : Ids, known : BOOLEAN] \cup {Idle}
  /\ call \in BOOLEAN /\ agreed \subseteq Ids /\ mixed \in BOOLEAN

-----------------------------------------------------------------------------
(* _load_workflows: the active rows.  The definition's own intent text is  *)
(* preferred to the column, the embedding is the column's.                 *)
Entry(id) == [id |-> id, emb |-> rows[id].emb,
              text |-> IF rows[id].own = Null THEN rows[id].text ELSE rows[id].own]
Active == {Entry(id) : id \in {i \in Ids : rows[i].active}}

(* The task of the start, over what it finds in the cache. *)
Booted(loaded) == [pc |-> "embed", todo |-> {n \in loaded : n.emb = Null},
                   done |-> {}, got |-> {}]

Init ==
  /\ rows = [id \in Ids |-> [made |-> id \in Seeded, active |-> id \in Seeded,
                             text |-> 1, emb |-> Null,
                             own |-> IF id \in Seeded THEN 1 ELSE Null]]
  /\ job = [e \in Editors |-> Idle]
  /\ cache = Active /\ boot = Booted(cache)
  /\ match = Idle /\ call = FALSE /\ worker = {} /\ told = Idle
  /\ agreed = {} /\ mixed = FALSE
  /\ requests = 0 /\ faults = 0 /\ restarts = 0 /\ seeds = 0

Upset == faults + restarts + seeds < MaxUpsets
Fault == Upset /\ faults' = faults + 1 /\ UNCHANGED <<requests, restarts, seeds>>
Request == requests < MaxRequests /\ requests' = requests + 1
           /\ UNCHANGED <<faults, restarts, seeds>>

(* Where a loader is between busting the cache and setting it. *)
Loading(pc) == pc \in {"select", "assign"}
SomeoneLoads == Loading(boot.pc) \/ \E e \in Editors : Loading(job[e].pc)

-----------------------------------------------------------------------------
(* Requests.                                                               *)

(* What is not there is a 404, or an UPDATE of nothing. *)
Exists(id) == rows[id].made

(* What the body of a PUT leaves out is as it was read.                    *)
Edited(row, body) ==
  [row EXCEPT !.text = IF body.text = Keep THEN @ ELSE body.text,
              !.active = IF body.active = "keep" THEN @ ELSE body.active = "on"]

(* PUT reads the row; only a text that is given is embedded.               *)
Put(e, id, body) ==
  /\ job[e] = Idle /\ Exists(id)
  /\ Request
  /\ job' = [job EXCEPT ![e] =
       [pc |-> IF body.text = Keep THEN "write" ELSE "embed", id |-> id,
        row |-> Edited(rows[id], body)]]
  /\ mixed' = (mixed \/ boot.pc = "embed")
  /\ UNCHANGED <<rows, boot, cache, asked, agreed>>

(* POST: an id of its own.                                                 *)
Post(e, id, text, on) ==
  /\ job[e] = Idle /\ ~rows[id].made
  /\ ~\E f \in Editors : job[f].pc \in {"embed", "write"} /\ job[f].id = id
  /\ Request
  /\ job' = [job EXCEPT ![e] =
       [pc |-> "embed", id |-> id,
        row |-> [made |-> TRUE, active |-> on, text |-> text, own |-> Null, emb |-> Null]]]
  /\ UNCHANGED <<rows, boot, cache, asked, agreed, mixed>>

(* Variant: there is an embedding already. *)
VectorKept(row) ==
  IF row.emb # Null THEN row.emb ELSE IF row.text = Empty THEN Null ELSE row.text
(* _compute_embedding: of the text of the body, if there is any. *)
Vector(row) == IF row.text = Empty THEN Null ELSE row.text

Embed(e) ==
  /\ job[e].pc = "embed"
  /\ \/ /\ job' = [job EXCEPT ![e].pc = "write", ![e].row.emb = Vector(job[e].row)]
        /\ UNCHANGED bounds
     \/ /\ job[e].row.text # Empty
        /\ job' = [job EXCEPT ![e].pc = "write", ![e].row.emb = Null]
        /\ Fault
  /\ UNCHANGED <<rows, boot, cache, asked, agreed, mixed>>

(* The rows that the uncommitted UPDATEs of the task of the start lock. *)
Locked == {n.id : n \in boot.done}

Store(id, row) ==
  /\ id \notin Locked
  /\ rows' = [rows EXCEPT ![id] = row]
  /\ agreed' = IF row.active = rows[id].active THEN agreed ELSE agreed \ {id}
  /\ mixed' = (mixed \/ boot.pc = "embed")

(* Variant: only a PUT reloads. *)
ReloadsPut(pc) == IF pc = "idle" THEN "idle" ELSE "written"
(* Every write is followed by a reload. *)
Reloads(pc) == "written"

Write(e) ==
  /\ job[e].pc = "write"
  /\ \/ /\ Store(job[e].id, job[e].row)
        /\ job' = [job EXCEPT ![e] = [pc |-> Reloads("write")]]
        /\ UNCHANGED bounds
     \/ /\ job' = [job EXCEPT ![e] = Idle]
        /\ UNCHANGED <<rows, agreed, mixed>>
        /\ Fault
  /\ UNCHANGED <<boot, cache, asked>>

(* DELETE and activate: a blind UPDATE of the flag. *)
Toggle(e, id, on) ==
  /\ job[e] = Idle /\ Exists(id)
  /\ Request
  /\ Store(id, [rows[id] EXCEPT !.active = on])
  /\ job' = [job EXCEPT ![e] = [pc |-> Reloads("idle")]]
  /\ UNCHANGED <<boot, cache, asked>>

(* reload_workflows: the cache is busted,                                  *)
Bust(e) ==
  /\ job[e].pc = "written"
  /\ cache' = NotLoaded
  /\ job' = [job EXCEPT ![e].pc = "select"]
  /\ mixed' = (mixed \/ SomeoneLoads)
  /\ UNCHANGED <<rows, boot, asked, agreed, bounds>>

(* the rows are read, or nothing is,                                       *)
Select(e) ==
  /\ job[e].pc = "select"
  /\ \/ job' = [job EXCEPT ![e] = [pc |-> "assign", got |-> Active]] /\ UNCHANGED bounds
     \/ job' = [job EXCEPT ![e] = [pc |-> "assign", got |-> {}]] /\ Fault
  /\ UNCHANGED <<rows, boot, cache, asked, agreed, mixed>>

(* and the cache is set.                                                   *)
Assign(e) ==
  /\ job[e].pc = "assign"
  /\ cache' = job[e].got
  /\ job' = [job EXCEPT ![e] = Idle]
  /\ UNCHANGED <<rows, boot, asked, agreed, mixed, bounds>>

-----------------------------------------------------------------------------
(* The start of the API.                                                   *)

(* One UPDATE per workflow, in a transaction that stays open; a workflow   *)
(* without a text is passed over.                                          *)
BootEmbed(n) ==
  /\ boot.pc = "embed" /\ n \in boot.todo
  /\ \/ /\ n.text # Empty
        /\ boot' = [boot EXCEPT !.todo = @ \ {n}, !.done = @ \cup {n}]
        /\ UNCHANGED bounds
     \/ /\ n.text # Empty
        /\ boot' = [boot EXCEPT !.todo = @ \ {n}]
        /\ Fault
     \/ /\ n.text = Empty
        /\ boot' = [boot EXCEPT !.todo = @ \ {n}]
        /\ UNCHANGED bounds
  /\ UNCHANGED <<rows, job, cache, asked, agreed, mixed>>

(* Variant: the transaction is closed without a commit. *)
FilledNot(done) == rows
(* The embedding is that of the cached text.                               *)
Filled(done) ==
  [id \in Ids |-> IF \E n \in done : n.id = id
                  THEN [rows[id] EXCEPT !.emb = (CHOOSE n \in done : n.id = id).text]
                  ELSE rows[id]]

BootCommit ==
  /\ boot.pc = "embed" /\ boot.todo = {}
  /\ \/ /\ rows' = Filled(boot.done)
        /\ boot' = [boot EXCEPT !.done = {},
                                !.pc = IF boot.done = {} THEN "over" ELSE "written"]
        /\ UNCHANGED bounds
     \/ /\ boot.done # {} /\ boot' = [boot EXCEPT !.done = {}, !.pc = "over"]
        /\ UNCHANGED rows /\ Fault
  /\ UNCHANGED <<job, cache, asked, agreed, mixed>>

BootReload ==
  \/ /\ boot.pc = "written"
     /\ cache' = NotLoaded /\ boot' = [boot EXCEPT !.pc = "select"]
     /\ mixed' = (mixed \/ SomeoneLoads)
     /\ UNCHANGED <<rows, job, asked, agreed, bounds>>
  \/ /\ boot.pc = "select"
     /\ \/ boot' = [boot EXCEPT !.pc = "assign", !.got = Active] /\ UNCHANGED bounds
        \/ boot' = [boot EXCEPT !.pc = "assign", !.got = {}] /\ Fault
     /\ UNCHANGED <<rows, job, cache, asked, agreed, mixed>>
  \/ /\ boot.pc = "assign"
     /\ cache' = boot.got /\ boot' = [boot EXCEPT !.pc = "over", !.got = {}]
     /\ UNCHANGED <<rows, job, asked, agreed, mixed, bounds>>

(* A restart loses the requests, and loads before it serves. *)
Restart ==
  /\ Upset /\ restarts' = restarts + 1
  /\ job' = [e \in Editors |-> Idle]
  /\ \/ cache' = Active /\ UNCHANGED faults
     \/ cache' = {} /\ faults' = faults + 1
  /\ boot' = Booted(cache')
  /\ match' = Idle
  /\ UNCHANGED <<rows, call, worker, told, agreed, mixed, requests, seeds>>

(* The seed script, in a process of its own: texts and definition, not the *)
(* embedding, not the flag.                                                *)
Seed(id, text) ==
  /\ Upset /\ seeds' = seeds + 1
  /\ id \notin Locked
  /\ rows' = [rows EXCEPT ![id].text = text, ![id].own = text]
  /\ UNCHANGED <<job, boot, cache, asked, agreed, mixed, requests, faults, restarts>>

-----------------------------------------------------------------------------
(* Calls.                                                                  *)

(* Variant: the worker keeps what it had loaded. *)
FreshNever == worker
(* The worker of a call reloads when the call starts.                      *)
Fresh == Active

CallStart ==
  /\ ~call
  /\ call' = TRUE
  /\ \/ worker' = Fresh /\ UNCHANGED bounds
     \/ worker' = {} /\ Fault
  /\ UNCHANGED <<match, told>>
  /\ agreed' = IF SomeoneLoads THEN {}
               ELSE {id \in Ids : rows[id].active <=> \E n \in cache : n.id = id}
  /\ UNCHANGED <<rows, job, boot, cache, mixed>>

(* /internal/match: one of those that have an embedding, as cached now, is *)
(* the best and good enough (when none is, nothing comes of it).           *)
Ask ==
  /\ call /\ match = Idle
  /\ \E n \in cache : n.emb # Null /\ match' = [pc |-> "asked", id |-> n.id]
  /\ told' = Idle
  /\ UNCHANGED <<rows, job, boot, cache, call, worker, agreed, mixed, bounds>>

(* The utterance is embedded, or is not; the workflow is entered in the    *)
(* worker, if it knows it.                                                 *)
Answer ==
  /\ match # Idle
  /\ match' = Idle
  /\ told' \in {Idle, [id |-> match.id, known |-> \E w \in worker : w.id = match.id]}
  /\ UNCHANGED <<rows, job, boot, cache, call, worker, agreed, mixed, bounds>>

-----------------------------------------------------------------------------
Reload(e) == Bust(e) \/ Select(e) \/ Assign(e)
Handle(e) == Embed(e) \/ Write(e) \/ Reload(e)
Boot == (\E n \in boot.todo : BootEmbed(n)) \/ BootCommit \/ BootReload

Next ==
  \/ \E e \in Editors :
       \/ Handle(e)
       \/ \E id \in Ids, body \in Bodies : Put(e, id, body)
       \/ \E id \in Drafts, text \in Texts, on \in BOOLEAN : Post(e, id, text, on)
       \/ \E id \in Ids, on \in BOOLEAN : Toggle(e, id, on)
  \/ Boot \/ Restart
  \/ \E id \in Seeded, text \in Texts \ {Empty} : Seed(id, text)
  \/ CallStart \/ Ask \/ Answer

Spec == Init /\ [][Next]_vars

-----------------------------------------------------------------------------
(* Properties.                                                             *)

(* What the definition itself says, where an editor left nothing. *)
Said(row) == IF row.text = Empty THEN row.own ELSE row.text

(* Whatever PUTs overlap, an embedding is that of the intent text in its   *)
(* row, or, when that is empty, of the one inside the definition; if no    *)
(* edit crossed the task of the start, nothing failed and the seed script  *)
(* did not run again.                                                      *)
EmbeddingFits ==
  ~mixed /\ faults = 0 /\ seeds = 0 =>
    \A id \in Ids : rows[id].emb \in {Null, Said(rows[id])}

Quiet == /\ \A e \in Editors : job[e].pc \in {"idle", "embed", "write"}
         /\ boot.pc \in {"embed", "over"}

(* Once every reload is done the cache is the active rows, if no two of    *)
(* them overlapped and none failed.                                        *)
CacheFollows == Quiet /\ ~mixed /\ faults = 0 /\ seeds = 0 => cache = Active

(* A workflow that was active, cached and known to the worker when the     *)
(* call began, and has not been switched since, is entered when it is      *)
(* matched, whatever is edited and reloaded meanwhile.                     *)
MatchIsKnown == told # Idle /\ ~told.known => told.id \notin agreed \/ faults > 0

(* What the repair at the start is for (main.py:336): when it is over every *)
(* active workflow with an intent text has an embedding, through later     *)
(* edits as well, unless a failure or an overlapping request took it away  *)
(* or the seed script gave a text to a row that had none.                  *)
Repaired ==
  boot.pc = "over" /\ ~mixed /\ faults = 0 /\ seeds = 0 =>
    \A id \in Ids : rows[id].active /\ rows[id].text # Empty => rows[id].emb # Null

(* What the comment says of it; no run has it, because a workflow without  *)
(* a text is passed over.                                                  *)
EveryoneEmbedded ==
  boot.pc = "over" /\ ~mixed /\ faults = 0 /\ seeds = 0 =>
    \A id \in Ids : rows[id].active => rows[id].emb # Null

=============================================================================
