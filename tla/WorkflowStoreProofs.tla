------------------------ MODULE WorkflowStoreProofs ------------------------
(***************************************************************************)
(* Proofs about the workflow definitions: for any number of workflows,     *)
(* texts and overlapping requests, and any number of failures, restarts    *)
(* and runs of the seed script, the rows, their embeddings and the caches  *)
(* keep together as the properties of WorkflowStore say.                   *)
(***************************************************************************)
EXTENDS WorkflowStore, TLAPS

-----------------------------------------------------------------------------
(* Types.                                                                  *)

Jobs == {Idle} \cup [pc : {"written", "select"}] \cup [pc : {"assign"}, got : SUBSET Entries]
        \cup [pc : {"embed", "write"}, id : Ids, row : {r \in Rows : r.made}]

Boots == [pc : {"embed", "written", "select", "assign", "over"},
          todo : SUBSET Entries, done : SUBSET Entries, got : SUBSET Entries]

Single(S) == \A n, m \in S : n.id = m.id => n = m

Stored ==
  /\ rows \in [Ids -> Rows]
  /\ \A id \in Ids : ~rows[id].made => ~rows[id].active

Working ==
  /\ job \in [Editors -> Jobs]
  /\ boot \in Boots
  /\ Single(boot.todo)
  /\ \A n \in boot.todo, m \in boot.done : n.id # m.id
  /\ \A n \in boot.done : n.text # Empty
  /\ cache \subseteq Entries

Calling ==
  /\ worker \subseteq Entries
  /\ match \in [pc : {"asked"}, id : Ids] \cup {Idle}
  /\ told \in [id : Ids, known : BOOLEAN] \cup {Idle}
  /\ call \in BOOLEAN /\ agreed \subseteq Ids /\ mixed \in BOOLEAN

Counts == faults \in Nat /\ seeds \in Nat /\ requests \in Nat /\ restarts \in Nat

Typed == Stored /\ Working /\ Calling /\ Counts

LEMMA JobCases ==
  ASSUME NEW j \in Jobs
  PROVE  /\ j.pc \in {"idle", "embed", "write", "written", "select", "assign"}
         /\ j.pc = "idle" => j = Idle
         /\ j.pc \in {"embed", "write"} =>
              /\ j \in [pc : {"embed", "write"}, id : Ids, row : {r \in Rows : r.made}]
              /\ j.id \in Ids /\ j.row \in Rows /\ j.row.made
         /\ j.pc \in {"written", "select"} => j \in [pc : {"written", "select"}]
         /\ j.pc = "assign" => j.got \subseteq Entries
  BY DEF Jobs, Idle

LEMMA EntryTyped ==
  ASSUME rows \in [Ids -> Rows], NEW id \in Ids
  PROVE  Entry(id) \in Entries /\ Entry(id).id = id /\ Entry(id).emb = rows[id].emb
  <1>1. /\ rows[id].text \in Texts /\ rows[id].own \in Texts \cup {Null}
        /\ rows[id].emb \in Texts \cup {Null}
    BY DEF Rows
  <1> QED  BY <1>1 DEF Entry, Entries

LEMMA ActiveTyped ==
  ASSUME rows \in [Ids -> Rows]
  PROVE  /\ Active \subseteq Entries /\ Single(Active)
         /\ \A id \in Ids : rows[id].active <=> \E n \in Active : n.id = id
         /\ \A n \in Active : n.id \in Ids /\ n = Entry(n.id) /\ rows[n.id].active
  BY EntryTyped DEF Active, Single

LEMMA BootedTyped ==
  ASSUME NEW S \in SUBSET Entries, Single(S)
  PROVE  /\ Booted(S) \in Boots /\ Single(Booted(S).todo)
         /\ Booted(S).done = {} /\ Booted(S).pc = "embed"
         /\ Booted(S).todo = {n \in S : n.emb = Null}
  BY DEF Booted, Boots, Single

LEMMA InitTyped == Init => Typed
  <1> SUFFICES ASSUME Init PROVE Typed
    OBVIOUS
  <1>1. 1 \in Texts /\ 1 # Empty
    BY StoreConstants DEF Texts, Empty
  <1>2. Stored
    BY <1>1 DEF Init, Stored, Rows
  <1>3. Working
    <2>1. cache \subseteq Entries /\ Single(cache)
      BY <1>2, ActiveTyped DEF Init, Stored
    <2>2. job \in [Editors -> Jobs]
      BY DEF Init, Jobs
    <2> QED  BY <2>1, <2>2, BootedTyped DEF Init, Working
  <1>4. Calling /\ Counts
    BY DEF Init, Calling, Counts
  <1> QED  BY <1>2, <1>3, <1>4 DEF Typed

-----------------------------------------------------------------------------
(* Who touches what.                                                       *)

Begins(e) ==
  \/ \E id \in Ids, body \in Bodies : Put(e, id, body)
  \/ \E id \in Drafts, text \in Texts, on \in BOOLEAN : Post(e, id, text, on)
  \/ Embed(e)

Stores(e) == Write(e) \/ \E id \in Ids, on \in BOOLEAN : Toggle(e, id, on)

ByBoot == (\E n \in boot.todo : BootEmbed(n)) \/ BootCommit

ByCall == CallStart \/ Ask \/ Answer

LEMMA Actors ==
  ASSUME Next
  PROVE  \/ \E e \in Editors : Begins(e) \/ Stores(e) \/ Reload(e)
         \/ ByBoot \/ BootReload \/ Restart \/ ByCall
         \/ \E id \in Seeded, text \in Texts \ {Empty} : Seed(id, text)
  BY DEF Next, Begins, Stores, Handle, Boot, ByBoot, ByCall

(* Counters only grow. *)
Ticks == \/ Request \/ Fault \/ UNCHANGED bounds
         \/ UNCHANGED <<faults, restarts, requests>> /\ seeds' = seeds + 1
         \/ /\ UNCHANGED <<requests, seeds>> /\ restarts' = restarts + 1
            /\ faults' = faults + 1 \/ UNCHANGED faults

LEMMA EveryStepTicks == ASSUME Next PROVE Ticks
  <1>1. ASSUME NEW e \in Editors, Begins(e) PROVE Ticks
    BY <1>1 DEF Ticks, Begins, Put, Post, Embed
  <1>2. ASSUME NEW e \in Editors, Stores(e) PROVE Ticks
    BY <1>2 DEF Ticks, Stores, Write, Toggle
  <1>3. ASSUME NEW e \in Editors, Reload(e) PROVE Ticks
    BY <1>3 DEF Ticks, Reload, Bust, Select, Assign
  <1>4. CASE ByBoot \/ BootReload
    BY <1>4 DEF Ticks, ByBoot, BootEmbed, BootCommit, BootReload
  <1>5. CASE Restart
    BY <1>5 DEF Ticks, Restart
  <1>6. CASE ByCall
    BY <1>6 DEF Ticks, ByCall, CallStart, Ask, Answer
  <1>7. CASE \E id \in Seeded, text \in Texts \ {Empty} : Seed(id, text)
    BY <1>7 DEF Ticks, Seed
  <1> QED  BY <1>1, <1>2, <1>3, <1>4, <1>5, <1>6, <1>7, Actors

LEMMA CountsGrow ==
  ASSUME Counts, Next
  PROVE  /\ Counts'
         /\ faults' = 0 => faults = 0
         /\ seeds' = 0 => seeds = 0
  BY EveryStepTicks DEF Ticks, Counts, Request, Fault, bounds

LEMMA MixedGrows ==
  ASSUME mixed \in BOOLEAN, Next
  PROVE  mixed' \in BOOLEAN /\ (mixed => mixed')
  <1>1. ASSUME NEW e \in Editors, Begins(e) \/ Stores(e) \/ Reload(e)
        PROVE  mixed' = mixed \/ mixed' = TRUE
    <2>1. CASE Begins(e)
      BY <2>1 DEF Begins, Put, Post, Embed
    <2>2. CASE Stores(e)
      BY <2>2 DEF Stores, Write, Toggle, Store
    <2>3. CASE Reload(e)
      BY <2>3 DEF Reload, Bust, Select, Assign
    <2> QED  BY <1>1, <2>1, <2>2, <2>3
  <1>2. CASE ByBoot \/ BootReload
    BY <1>2 DEF ByBoot, BootEmbed, BootCommit, BootReload
  <1>3. CASE Restart \/ ByCall \/ \E id \in Seeded, text \in Texts \ {Empty} : Seed(id, text)
    BY <1>3 DEF Restart, ByCall, CallStart, Ask, Answer, Seed
  <1> QED  BY <1>1, <1>2, <1>3, Actors

-----------------------------------------------------------------------------
(* What a request does to its job, and to nothing else.                    *)

Mine(e) == job' \in [Editors -> Jobs] /\ \A f \in Editors \ {e} : job'[f] = job[f]

LEMMA MineIfJob ==
  ASSUME job \in [Editors -> Jobs], NEW e \in Editors, NEW j \in Jobs,
         job' = [job EXCEPT ![e] = j]
  PROVE  Mine(e) /\ job'[e] = j
  BY DEF Mine

LEMMA BeginsMoves ==
  ASSUME Typed, NEW e \in Editors, Begins(e)
  PROVE  /\ UNCHANGED <<rows, boot, cache, call, match, worker, told, agreed>>
         /\ Mine(e)
         /\ job[e].pc \in {"idle", "embed"} /\ job'[e].pc \in {"embed", "write"}
  <1> USE DEF asked
  <1>1. job[e] \in Jobs /\ rows \in [Ids -> Rows]
    BY DEF Typed, Working, Stored
  <1>2. ASSUME NEW id \in Ids, NEW body \in Bodies, Put(e, id, body)
        PROVE  Mine(e) /\ job'[e].pc \in {"embed", "write"}
    <2>1. Edited(rows[id], body) \in Rows /\ Edited(rows[id], body).made
      <3>1. rows[id] \in Rows /\ rows[id].made
        BY <1>1, <1>2 DEF Put, Exists
      <3>2. (IF body.text = Keep THEN rows[id].text ELSE body.text) \in Texts
        BY <3>1 DEF Bodies, Rows, Texts, Keep
      <3>3. (IF body.active = "keep" THEN rows[id].active ELSE body.active = "on") \in BOOLEAN
        BY <3>1 DEF Rows
      <3> QED  BY <3>1, <3>2, <3>3 DEF Edited, Rows
    <2> DEFINE j == [pc |-> IF body.text = Keep THEN "write" ELSE "embed", id |-> id,
                     row |-> Edited(rows[id], body)]
    <2>2. j \in Jobs /\ j.pc \in {"embed", "write"}
      BY <2>1 DEF Jobs
    <2>3. job' = [job EXCEPT ![e] = j]
      BY <1>2 DEF Put
    <2> QED  BY <2>2, <2>3, MineIfJob DEF Typed, Working
  <1>3. ASSUME NEW id \in Drafts, NEW text \in Texts, NEW on \in BOOLEAN, Post(e, id, text, on)
        PROVE  Mine(e) /\ job'[e].pc \in {"embed", "write"}
    <2> DEFINE j == [pc |-> "embed", id |-> id,
                     row |-> [made |-> TRUE, active |-> on, text |-> text,
                              own |-> Null, emb |-> Null]]
    <2>1. j \in Jobs /\ j.pc = "embed"
      BY DEF Jobs, Rows, Ids
    <2>2. job' = [job EXCEPT ![e] = j]
      BY <1>3 DEF Post
    <2> QED  BY <2>1, <2>2, MineIfJob DEF Typed, Working
  <1>4. ASSUME Embed(e)
        PROVE  Mine(e) /\ job'[e].pc \in {"embed", "write"}
    <2>1. PICK v \in Texts \cup {Null} : job' = [job EXCEPT ![e].pc = "write", ![e].row.emb = v]
      <3>1. job[e].row.text \in Texts
        BY <1>1, <1>4, JobCases DEF Embed, Rows
      <3> QED  BY <3>1, <1>4 DEF Embed, Vector
    <2> DEFINE j == [[job[e] EXCEPT !.pc = "write"] EXCEPT !.row.emb = v]
    <2>2. j \in Jobs /\ j.pc = "write"
      <3>1. job[e] \in [pc : {"embed", "write"}, id : Ids, row : {r \in Rows : r.made}]
        BY <1>1, <1>4, JobCases DEF Embed
      <3>2. [job[e].row EXCEPT !.emb = v] \in {r \in Rows : r.made}
        BY <3>1 DEF Rows
      <3>3. j \in [pc : {"embed", "write"}, id : Ids, row : {r \in Rows : r.made}] /\ j.pc = "write"
        BY <3>1, <3>2
      <3> QED  BY <3>3 DEF Jobs
    <2>3. job' = [job EXCEPT ![e] = j]
      BY <2>1 DEF Typed, Working
    <2> QED  BY <2>2, <2>3, MineIfJob DEF Typed, Working
  <1>5. /\ UNCHANGED <<rows, boot, cache, call, match, worker, told, agreed>>
        /\ job[e].pc \in {"idle", "embed"}
    BY DEF Begins, Put, Post, Embed, Idle
  <1> QED  BY <1>2, <1>3, <1>4, <1>5 DEF Begins

(* A row is stored as a whole, or only its flag is. *)
LEMMA StoresMoves ==
  ASSUME Typed, NEW e \in Editors, Stores(e)
  PROVE  /\ UNCHANGED <<boot, cache, call, match, worker, told>>
         /\ Mine(e)
         /\ \/ /\ UNCHANGED <<rows, agreed, mixed>> /\ Fault
               /\ job[e].pc = "write" /\ job'[e] = Idle
            \/ \E id \in Ids, row \in Rows :
                 /\ Store(id, row) /\ row.made /\ job'[e].pc = "written"
                 /\ \/ job[e].pc = "write" /\ row = job[e].row
                    \/ job[e].pc = "idle" /\ row.emb = rows[id].emb /\ rows[id].made
                       /\ row.text = rows[id].text /\ row.own = rows[id].own
  <1> USE DEF asked
  <1>1. job[e] \in Jobs /\ rows \in [Ids -> Rows]
    BY DEF Typed, Working, Stored
  <1> DEFINE written == [pc |-> "written"]
  <1>2. Idle \in Jobs /\ written \in Jobs /\ written.pc = "written"
    BY DEF Jobs
  <1>3. ASSUME NEW id \in Ids, NEW on \in BOOLEAN, Toggle(e, id, on)
        PROVE  /\ Mine(e)
               /\ \E i \in Ids, row \in Rows :
                 /\ Store(i, row) /\ row.made /\ job'[e].pc = "written"
                 /\ job[e].pc = "idle" /\ row.emb = rows[i].emb /\ rows[i].made
                 /\ row.text = rows[i].text /\ row.own = rows[i].own
    <2> DEFINE row == [rows[id] EXCEPT !.active = on]
    <2>1. /\ row \in Rows /\ row.emb = rows[id].emb /\ row.made = rows[id].made
          /\ row.text = rows[id].text /\ row.own = rows[id].own
      BY <1>1 DEF Rows
    <2>2. Store(id, row) /\ rows[id].made /\ job[e].pc = "idle" /\ job' = [job EXCEPT ![e] = written]
      BY <1>3 DEF Toggle, Reloads, Exists, Idle
    <2>3. Mine(e) /\ job'[e].pc = "written"
      BY <2>2, <1>2, MineIfJob DEF Typed, Working
    <2> HIDE DEF row
    <2> QED  BY <2>1, <2>2, <2>3
  <1>4. ASSUME Write(e)
        PROVE  /\ Mine(e)
               /\ \/ /\ UNCHANGED <<rows, agreed, mixed>> /\ Fault
                     /\ job[e].pc = "write" /\ job'[e] = Idle
                  \/ \E i \in Ids, row \in Rows :
                       /\ Store(i, row) /\ row.made /\ job'[e].pc = "written"
                       /\ job[e].pc = "write" /\ row = job[e].row
    <2>1. job[e].pc = "write" /\ job[e].id \in Ids /\ job[e].row \in Rows /\ job[e].row.made
      BY <1>1, <1>4, JobCases DEF Write
    <2>2. CASE /\ Store(job[e].id, job[e].row)
               /\ job' = [job EXCEPT ![e] = [pc |-> Reloads("write")]]
      <3>1. job' = [job EXCEPT ![e] = written]
        BY <2>2 DEF Reloads
      <3>2. Mine(e) /\ job'[e].pc = "written"
        BY <3>1, <1>2, MineIfJob DEF Typed, Working
      <3> QED  BY <2>1, <2>2, <3>2
    <2>3. CASE /\ job' = [job EXCEPT ![e] = Idle]
               /\ UNCHANGED <<rows, agreed, mixed>> /\ Fault
      BY <2>1, <2>3, <1>2, MineIfJob DEF Typed, Working
    <2> QED  BY <1>4, <2>2, <2>3 DEF Write
  <1>5. UNCHANGED <<boot, cache, call, match, worker, told>>
    BY DEF Stores, Write, Toggle
  <1>6. CASE Write(e)
    BY <1>4, <1>5, <1>6
  <1>7. CASE \E id \in Ids, on \in BOOLEAN : Toggle(e, id, on)
    BY <1>3, <1>5, <1>7
  <1> QED  BY <1>6, <1>7 DEF Stores

LEMMA ReloadMoves ==
  ASSUME Typed, NEW e \in Editors, Reload(e)
  PROVE  /\ UNCHANGED <<rows, boot, call, match, worker, told, agreed>>
         /\ Mine(e)
         /\ \/ /\ job[e].pc = "written" /\ job'[e].pc = "select"
               /\ cache' = {} /\ mixed' = (mixed \/ SomeoneLoads)
            \/ /\ job[e].pc = "select" /\ job'[e].pc = "assign"
               /\ job'[e].got = Active \/ (job'[e].got = {} /\ Fault)
               /\ UNCHANGED <<cache, mixed>>
            \/ /\ job[e].pc = "assign" /\ job'[e].pc = "idle"
               /\ cache' = job[e].got /\ UNCHANGED mixed
  <1> USE DEF asked
  <1>1. job[e] \in Jobs /\ rows \in [Ids -> Rows]
    BY DEF Typed, Working, Stored
  <1>2. CASE Bust(e)
    <2>1. job[e].pc = "written" /\ job[e] \in [pc : {"written", "select"}]
      BY <1>1, <1>2, JobCases DEF Bust
    <2> DEFINE j == [job[e] EXCEPT !.pc = "select"]
    <2>2. j \in Jobs /\ j.pc = "select"
      BY <2>1 DEF Jobs
    <2>3. job' = [job EXCEPT ![e] = j]
      BY <1>2 DEF Bust
    <2>4. Mine(e) /\ job'[e].pc = "select"
      BY <2>2, <2>3, MineIfJob DEF Typed, Working
    <2> QED  BY <2>1, <2>4, <1>2 DEF Bust, NotLoaded
  <1>3. CASE Select(e)
    <2> DEFINE j(S) == [pc |-> "assign", got |-> S]
    <2>1. \A S \in SUBSET Entries : j(S) \in Jobs /\ j(S).pc = "assign" /\ j(S).got = S
      BY DEF Jobs
    <2>2. Active \in SUBSET Entries /\ {} \in SUBSET Entries
      BY <1>1, ActiveTyped
    <2>3. \/ job' = [job EXCEPT ![e] = j(Active)]
          \/ job' = [job EXCEPT ![e] = j({})] /\ Fault
      BY <1>3 DEF Select
    <2> HIDE DEF j
    <2>4. Mine(e) /\ job'[e].pc = "assign" /\ (job'[e].got = Active \/ (job'[e].got = {} /\ Fault))
      BY <2>1, <2>2, <2>3, MineIfJob DEF Typed, Working
    <2> QED  BY <2>4, <1>3 DEF Select
  <1>4. CASE Assign(e)
    <2>1. Idle \in Jobs /\ Idle.pc = "idle"
      BY DEF Jobs, Idle
    <2>2. Mine(e) /\ job'[e].pc = "idle"
      BY <2>1, <1>4, MineIfJob DEF Assign, Typed, Working
    <2> QED  BY <2>2, <1>4 DEF Assign
  <1> QED  BY <1>2, <1>3, <1>4 DEF Reload

-----------------------------------------------------------------------------
(* What the task of the start does.                                        *)

LEMMA ByBootMoves ==
  ASSUME Typed, ByBoot
  PROVE  /\ UNCHANGED <<job, cache, call, match, worker, told, agreed, mixed>>
         /\ boot.pc = "embed" /\ boot' \in Boots
         /\ \/ /\ UNCHANGED rows /\ boot'.pc = "embed"
               /\ \E n \in boot.todo :
                    /\ boot'.todo = boot.todo \ {n}
                    /\ \/ boot'.done = boot.done \cup {n} /\ n.text # Empty
                       \/ boot'.done = boot.done /\ (Fault \/ n.text = Empty)
            \/ /\ rows' = Filled(boot.done)
               /\ boot.todo = {} /\ boot'.todo = {} /\ boot'.done = {}
               /\ boot'.pc = IF boot.done = {} THEN "over" ELSE "written"
            \/ /\ UNCHANGED rows /\ Fault
               /\ boot.todo = {} /\ boot'.todo = {} /\ boot'.done = {} /\ boot'.pc = "over"
  <1> USE DEF asked
  <1>1. /\ boot \in Boots /\ boot.todo \subseteq Entries /\ boot.done \subseteq Entries
    BY DEF Typed, Working, Boots
  <1>2. ASSUME NEW n \in boot.todo, BootEmbed(n)
        PROVE  /\ UNCHANGED rows /\ boot'.pc = "embed" /\ boot.pc = "embed" /\ boot' \in Boots
               /\ boot'.todo = boot.todo \ {n}
               /\ \/ boot'.done = boot.done \cup {n} /\ n.text # Empty
                  \/ boot'.done = boot.done /\ (Fault \/ n.text = Empty)
    <2> DEFINE b == [boot EXCEPT !.todo = @ \ {n}, !.done = @ \cup {n}]
    <2> DEFINE c == [boot EXCEPT !.todo = @ \ {n}]
    <2>1. b \in Boots /\ b.pc = boot.pc /\ b.todo = boot.todo \ {n} /\ b.done = boot.done \cup {n}
      BY <1>1 DEF Boots
    <2>2. c \in Boots /\ c.pc = boot.pc /\ c.todo = boot.todo \ {n} /\ c.done = boot.done
      BY <1>1 DEF Boots
    <2>3. /\ boot.pc = "embed" /\ UNCHANGED rows
          /\ (boot' = b /\ n.text # Empty) \/ (boot' = c /\ (Fault \/ n.text = Empty))
      BY <1>2 DEF BootEmbed
    <2> HIDE DEF b, c
    <2> QED  BY <2>1, <2>2, <2>3
  <1>3. ASSUME BootCommit
        PROVE  /\ boot.pc = "embed" /\ boot.todo = {} /\ boot' \in Boots
               /\ boot'.todo = {} /\ boot'.done = {}
               /\ \/ /\ rows' = Filled(boot.done)
                     /\ boot'.pc = IF boot.done = {} THEN "over" ELSE "written"
                  \/ UNCHANGED rows /\ Fault /\ boot'.pc = "over"
    <2> DEFINE b(pc) == [boot EXCEPT !.done = {}, !.pc = pc]
    <2>1. \A pc \in {"over", "written"} :
            b(pc) \in Boots /\ b(pc).pc = pc /\ b(pc).todo = boot.todo /\ b(pc).done = {}
      BY <1>1 DEF Boots
    <2>2. /\ boot.pc = "embed" /\ boot.todo = {}
          /\ \/ /\ rows' = Filled(boot.done)
                /\ boot' = b(IF boot.done = {} THEN "over" ELSE "written")
             \/ UNCHANGED rows /\ Fault /\ boot' = b("over")
      BY <1>3 DEF BootCommit
    <2>3. (IF boot.done = {} THEN "over" ELSE "written") \in {"over", "written"}
      OBVIOUS
    <2> HIDE DEF b
    <2> QED  BY <2>1, <2>2, <2>3
  <1>4. UNCHANGED <<job, cache, call, match, worker, told, agreed, mixed>>
    BY DEF ByBoot, BootEmbed, BootCommit
  <1>5. CASE \E n \in boot.todo : BootEmbed(n)
    BY <1>2, <1>4, <1>5
  <1>6. CASE BootCommit
    BY <1>3, <1>4, <1>6
  <1> QED  BY <1>5, <1>6 DEF ByBoot

LEMMA BootReloadMoves ==
  ASSUME Typed, BootReload
  PROVE  /\ UNCHANGED <<rows, job, call, match, worker, told, agreed>>
         /\ boot' \in Boots /\ boot'.todo = boot.todo /\ boot'.done = boot.done
         /\ \/ /\ boot.pc = "written" /\ boot'.pc = "select"
               /\ cache' = {} /\ mixed' = (mixed \/ SomeoneLoads)
            \/ /\ boot.pc = "select" /\ boot'.pc = "assign"
               /\ boot'.got = Active \/ (boot'.got = {} /\ Fault)
               /\ UNCHANGED <<cache, mixed>>
            \/ /\ boot.pc = "assign" /\ boot'.pc = "over"
               /\ cache' = boot.got /\ UNCHANGED mixed
  <1> USE DEF asked
  <1>1. boot \in Boots /\ Active \in SUBSET Entries
    BY ActiveTyped DEF Typed, Working, Stored
  <1> DEFINE b(pc, S) == [boot EXCEPT !.pc = pc, !.got = S]
  <1> DEFINE c == [boot EXCEPT !.pc = "select"]
  <1>2. \A pc \in {"assign", "over"} : \A S \in SUBSET Entries :
          /\ b(pc, S) \in Boots /\ b(pc, S).pc = pc /\ b(pc, S).got = S
          /\ b(pc, S).todo = boot.todo /\ b(pc, S).done = boot.done
    BY <1>1 DEF Boots
  <1>3. c \in Boots /\ c.pc = "select" /\ c.todo = boot.todo /\ c.done = boot.done
    BY <1>1 DEF Boots
  <1>4. UNCHANGED <<rows, job, call, match, worker, told, agreed>>
    BY DEF BootReload
  <1>5. CASE boot.pc = "written"
    <2>1. boot' = c /\ cache' = {} /\ mixed' = (mixed \/ SomeoneLoads)
      BY <1>5 DEF BootReload, NotLoaded
    <2> HIDE DEF c
    <2> QED  BY <2>1, <1>3, <1>4, <1>5
  <1>6. CASE boot.pc = "select"
    <2>1. /\ boot' = b("assign", Active) \/ (boot' = b("assign", {}) /\ Fault)
          /\ UNCHANGED <<cache, mixed>>
      BY <1>6 DEF BootReload
    <2> HIDE DEF b
    <2> QED  BY <2>1, <1>1, <1>2, <1>4, <1>6
  <1>7. CASE boot.pc = "assign"
    <2>1. boot' = b("over", {}) /\ cache' = boot.got /\ UNCHANGED mixed
      BY <1>7 DEF BootReload
    <2> HIDE DEF b
    <2> QED  BY <2>1, <1>1, <1>2, <1>4, <1>7
  <1> QED  BY <1>5, <1>6, <1>7 DEF BootReload

-----------------------------------------------------------------------------
(* Types are kept.                                                         *)

LEMMA StoreKeeps ==
  ASSUME Stored, NEW id \in Ids, NEW row \in Rows, row.made, Store(id, row)
  PROVE  /\ Stored' /\ rows'[id] = row
         /\ \A i \in Ids \ {id} : rows'[i] = rows[i]
         /\ agreed' \subseteq agreed
         /\ \A i \in Ids : i \in agreed' => i \in agreed /\ rows'[i].active = rows[i].active
  BY DEF Stored, Store

LEMMA FilledKeeps ==
  ASSUME Stored, NEW done \in SUBSET Entries, rows' = Filled(done)
  PROVE  /\ Stored'
         /\ \A id \in Ids :
              /\ rows'[id].made = rows[id].made /\ rows'[id].active = rows[id].active
              /\ rows'[id].text = rows[id].text /\ rows'[id].own = rows[id].own
              /\ \/ rows'[id] = rows[id] /\ \A n \in done : n.id # id
                 \/ \E n \in done : n.id = id /\ rows'[id].emb = n.text
  <1>1. ASSUME NEW id \in Ids
        PROVE  /\ rows'[id] \in Rows
               /\ rows'[id].made = rows[id].made /\ rows'[id].active = rows[id].active
               /\ rows'[id].text = rows[id].text /\ rows'[id].own = rows[id].own
               /\ \/ rows'[id] = rows[id] /\ \A n \in done : n.id # id
                  \/ \E n \in done : n.id = id /\ rows'[id].emb = n.text
    <2>1. rows[id] \in Rows
      BY DEF Stored
    <2>2. CASE \E n \in done : n.id = id
      <3>1. PICK n \in done : n = CHOOSE m \in done : m.id = id
        BY <2>2
      <3>2. n.id = id /\ n.text \in Texts
        BY <2>2, <3>1 DEF Entries
      <3>3. rows'[id] = [rows[id] EXCEPT !.emb = n.text]
        BY <2>2, <3>1 DEF Filled
      <3> QED  BY <2>1, <3>2, <3>3 DEF Rows
    <2>3. CASE \A n \in done : n.id # id
      BY <2>1, <2>3 DEF Filled
    <2> QED  BY <2>2, <2>3
  <1>2. rows' \in [Ids -> Rows]
    <2>1. rows' = [id \in Ids |-> rows'[id]]
      BY DEF Filled
    <2> QED  BY <1>1, <2>1
  <1> QED  BY <1>1, <1>2 DEF Stored

LEMMA SeedKeeps ==
  ASSUME Stored, NEW id \in Seeded, NEW text \in Texts \ {Empty}, Seed(id, text)
  PROVE  /\ Stored'
         /\ \A i \in Ids : /\ rows'[i].made = rows[i].made /\ rows'[i].emb = rows[i].emb
                           /\ rows'[i].active = rows[i].active
  <1> DEFINE row == [[rows[id] EXCEPT !.text = text] EXCEPT !.own = text]
  <1>1. id \in Ids /\ rows[id] \in Rows
    BY DEF Stored, Ids
  <1>2. /\ row \in Rows /\ row.made = rows[id].made /\ row.emb = rows[id].emb
        /\ row.active = rows[id].active
    BY <1>1 DEF Rows
  <1>3. rows' = [rows EXCEPT ![id] = row]
    BY <1>1 DEF Seed, Stored
  <1> HIDE DEF row
  <1> QED  BY <1>1, <1>2, <1>3 DEF Stored

LEMMA RestartMoves ==
  ASSUME Stored, Restart
  PROVE  /\ UNCHANGED <<rows, call, worker, told, agreed, mixed>>
         /\ job' = [e \in Editors |-> Idle] /\ boot' = Booted(cache') /\ match' = Idle
         /\ cache' = Active \/ (cache' = {} /\ faults' = faults + 1)
         /\ cache' \subseteq Active
         /\ Working'
  <1>1. /\ UNCHANGED <<rows, call, worker, told, agreed, mixed>>
        /\ job' = [e \in Editors |-> Idle] /\ boot' = Booted(cache') /\ match' = Idle
        /\ cache' = Active \/ (cache' = {} /\ faults' = faults + 1)
    BY DEF Restart
  <1>2. cache' \subseteq Active /\ cache' \subseteq Entries /\ Single(cache')
    BY <1>1, ActiveTyped DEF Stored, Single
  <1>3. /\ Booted(cache') \in Boots /\ Single(Booted(cache').todo)
        /\ Booted(cache').done = {}
    BY <1>2, BootedTyped
  <1>4. job' \in [Editors -> Jobs]
    BY <1>1 DEF Jobs
  <1> QED  BY <1>1, <1>2, <1>3, <1>4 DEF Working

LEMMA ByCallMoves ==
  ASSUME Typed, ByCall
  PROVE  UNCHANGED <<rows, job, boot, cache, mixed>> /\ Calling'
  <1>1. UNCHANGED <<rows, job, boot, cache, mixed>>
    BY DEF ByCall, CallStart, Ask, Answer
  <1>2. CASE CallStart
    <2>1. Active \subseteq Entries
      BY ActiveTyped DEF Typed, Stored
    <2>2. agreed' \subseteq Ids
      BY <1>2 DEF CallStart
    <2> QED  BY <1>1, <1>2, <2>1, <2>2 DEF CallStart, Fresh, Calling, Typed
  <1>3. CASE Ask
    <2>1. match' \in [pc : {"asked"}, id : Ids] /\ told' = Idle
      <3>1. PICK n \in cache : match' = [pc |-> "asked", id |-> n.id]
        BY <1>3 DEF Ask
      <3>2. n.id \in Ids
        BY DEF Typed, Working, Entries
      <3> QED  BY <1>3, <3>1, <3>2 DEF Ask
    <2> QED  BY <1>1, <1>3, <2>1 DEF Ask, Calling, Typed
  <1>4. CASE Answer
    <2>1. match.id \in Ids
      BY <1>4 DEF Answer, Typed, Calling
    <2>2. told' \in [id : Ids, known : BOOLEAN] \cup {Idle}
      <3> DEFINE known == \E w \in worker : w.id = match.id
      <3>1. told' \in {Idle, [id |-> match.id, known |-> known]}
        BY <1>4 DEF Answer
      <3>2. known \in BOOLEAN
        OBVIOUS
      <3> HIDE DEF known
      <3> QED  BY <2>1, <3>1, <3>2
    <2> QED  BY <1>1, <1>4, <2>2 DEF Answer, Calling, Typed
  <1> QED  BY <1>1, <1>2, <1>3, <1>4 DEF ByCall

LEMMA TypedKept == Typed /\ [Next]_vars => Typed'
  <1> SUFFICES ASSUME Typed, [Next]_vars PROVE Typed'
    OBVIOUS
  <1>1. CASE UNCHANGED vars
    BY <1>1 DEF vars, Typed, Stored, Working, Calling, Counts
  <1> SUFFICES ASSUME Next PROVE Typed'
    BY <1>1
  <1>2. Counts' /\ mixed' \in BOOLEAN
    BY CountsGrow, MixedGrows DEF Typed, Calling
  <1>3. ASSUME NEW e \in Editors, Begins(e) PROVE Typed'
    BY <1>2, <1>3, BeginsMoves DEF Typed, Stored, Working, Calling, Mine
  <1>4. ASSUME NEW e \in Editors, Stores(e) PROVE Typed'
    <2>1. /\ UNCHANGED <<boot, cache, call, match, worker, told>> /\ Mine(e)
          /\ \/ UNCHANGED <<rows, agreed>>
             \/ \E id \in Ids, row \in Rows : Store(id, row) /\ row.made
      BY <1>4, StoresMoves
    <2>2. Stored' /\ agreed' \subseteq agreed
      BY <2>1, StoreKeeps DEF Typed, Stored
    <2> QED  BY <1>2, <2>1, <2>2 DEF Typed, Working, Calling, Mine
  <1>5. ASSUME NEW e \in Editors, Reload(e) PROVE Typed'
    <2>1. job[e].pc = "assign" => job[e].got \subseteq Entries
      BY JobCases DEF Typed, Working
    <2>2. cache' \subseteq Entries
      BY <1>5, <2>1, ReloadMoves DEF Typed, Working
    <2> QED  BY <1>2, <1>5, <2>2, ReloadMoves DEF Typed, Stored, Working, Calling, Mine
  <1>6. CASE ByBoot
    <2>1. Stored'
      <3>1. UNCHANGED rows \/ rows' = Filled(boot.done)
        BY <1>6, ByBootMoves
      <3>2. boot.done \in SUBSET Entries
        BY DEF Typed, Working, Boots
      <3> QED  BY <3>1, <3>2, FilledKeeps DEF Typed, Stored
    <2>2. Working'
      <3>1. /\ UNCHANGED <<job, cache>> /\ boot' \in Boots
            /\ \/ \E n \in boot.todo :
                    /\ boot'.todo = boot.todo \ {n}
                    /\ boot'.done = boot.done \/ (boot'.done = boot.done \cup {n} /\ n.text # Empty)
               \/ boot'.todo = {} /\ boot'.done = {}
        BY <1>6, ByBootMoves
      <3>2. CASE boot'.todo = {} /\ boot'.done = {}
        BY <3>1, <3>2 DEF Typed, Working, Single
      <3>3. ASSUME NEW n \in boot.todo, boot'.todo = boot.todo \ {n},
                   boot'.done = boot.done \/ (boot'.done = boot.done \cup {n} /\ n.text # Empty)
            PROVE  Working'
        <4>1. Single(boot'.todo) /\ \A m \in boot'.todo : m \in boot.todo /\ m.id # n.id
          BY <3>3 DEF Typed, Working, Single
        <4> QED  BY <3>1, <3>3, <4>1 DEF Typed, Working
      <3> QED  BY <3>1, <3>2, <3>3
    <2> QED  BY <1>2, <1>6, <2>1, <2>2, ByBootMoves DEF Typed, Calling
  <1>7. CASE BootReload
    <2>1. boot.got \subseteq Entries /\ cache \subseteq Entries
      BY DEF Typed, Working, Boots
    <2>2. cache' \subseteq Entries
      BY <1>7, <2>1, BootReloadMoves
    <2> QED  BY <1>2, <1>7, <2>2, BootReloadMoves DEF Typed, Stored, Working, Calling
  <1>8. CASE Restart
    BY <1>2, <1>8, RestartMoves DEF Typed, Stored, Calling
  <1>9. CASE ByCall
    BY <1>2, <1>9, ByCallMoves DEF Typed, Stored, Working
  <1>10. ASSUME NEW id \in Seeded, NEW text \in Texts \ {Empty}, Seed(id, text) PROVE Typed'
    <2>1. Stored'
      BY <1>10, SeedKeeps DEF Typed
    <2>2. UNCHANGED <<job, boot, cache, match, call, worker, told, agreed, mixed>>
      BY <1>10 DEF Seed, asked
    <2> QED  BY <1>2, <2>1, <2>2 DEF Typed, Working, Calling
  <1> QED  BY <1>3, <1>4, <1>5, <1>6, <1>7, <1>8, <1>9, <1>10, Actors

LEMMA TypedImplies == Typed => StoreTypeOK
  <1> SUFFICES ASSUME Typed PROVE StoreTypeOK
    OBVIOUS
  <1>1. ASSUME NEW e \in Editors
        PROVE  /\ job[e].pc \in {"idle", "embed", "write", "written", "select", "assign"}
               /\ job[e].pc \in {"embed", "write"} => job[e].id \in Ids /\ job[e].row \in Rows
               /\ job[e].pc = "assign" => job[e].got \subseteq Entries
    <2>1. job[e] \in Jobs
      BY DEF Typed, Working
    <2> QED  BY <2>1, JobCases
  <1>2. /\ boot.pc \in {"embed", "written", "select", "assign", "over"}
        /\ boot.todo \subseteq Entries /\ boot.done \subseteq Entries
        /\ {n.id : n \in boot.todo} \cap {n.id : n \in boot.done} = {}
    BY DEF Typed, Working, Boots
  <1> QED  BY <1>1, <1>2 DEF StoreTypeOK, Typed, Stored, Working, Calling

(* Rows, requests, caches and the task of the start stay within their      *)
(* types: only what exists is changed or switched on.                      *)
THEOREM StoreTypeCorrect == Spec => []StoreTypeOK
  <1>1. Spec => []Typed
    BY InitTyped, TypedKept, PTL DEF Spec
  <1> QED  BY <1>1, TypedImplies, PTL

-----------------------------------------------------------------------------
(* Embeddings.  In a row without one the definition says what the column   *)
(* says, so that the repair, which embeds the former, fits; a row that a   *)
(* request is about to store fits already.                                 *)

Fits(r) == /\ r.emb \in {Null, Said(r)}
           /\ r.emb = Null => r.own \in {Null, Said(r)}

Unharmed == ~mixed /\ faults = 0

FitInv ==
  Unharmed /\ seeds = 0 =>
    /\ \A id \in Ids : Fits(rows[id])
    /\ \A e \in Editors : job[e].pc = "write" => Fits(job[e].row) /\ job[e].row.made
    /\ boot.pc = "embed" =>
         \A n \in boot.todo \cup boot.done :
           n.id \in Ids /\ n.text \in {Empty, Said(rows[n.id])}

(* A row that has a text and no embedding.                                 *)
Lacks(r) == r.made /\ r.text # Empty /\ r.emb = Null

(* Such a row is active and in the hands of the task of the start, which   *)
(* will not pass it over.                                                  *)
FillInv ==
  Unharmed /\ seeds = 0 =>
    /\ \A id \in Ids : Lacks(rows[id]) =>
         /\ boot.pc = "embed" /\ rows[id].active
         /\ \E n \in boot.todo \cup boot.done : n.id = id /\ n.text # Empty
    /\ \A e \in Editors : job[e].pc = "write" => ~Lacks(job[e].row)

LEMMA NullIsNoText == Null \notin Texts
  BY StoreConstants DEF Null, Texts

LEMMA StillUnharmed ==
  ASSUME Typed, Next
  PROVE  /\ Unharmed' => Unharmed
         /\ seeds' = 0 => seeds = 0
         /\ Fault => ~Unharmed'
  <1>1. (mixed => mixed') /\ (faults' = 0 => faults = 0) /\ (seeds' = 0 => seeds = 0)
    BY CountsGrow, MixedGrows DEF Typed, Calling
  <1>2. Fault => faults' # 0
    BY DEF Fault, Typed, Counts
  <1> QED  BY <1>1, <1>2 DEF Unharmed

(* The row of a request that has passed its embedding.                     *)
LEMMA RowReadyToWrite ==
  ASSUME Typed, NEW e \in Editors, Begins(e), ~Fault, job'[e].pc = "write"
  PROVE  /\ job'[e].row.made
         /\ \/ job'[e].row.emb = job'[e].row.text /\ job'[e].row.emb \notin {Null, Empty}
            \/ job'[e].row.emb = Null /\ job'[e].row.text = Empty
            \/ \E id \in Ids : /\ rows[id].made
                               /\ job'[e].row.emb = rows[id].emb
                               /\ job'[e].row.text = rows[id].text
                               /\ job'[e].row.own = rows[id].own
                               /\ boot.pc = "embed" => mixed'
  <1>1. job[e] \in Jobs /\ rows \in [Ids -> Rows] /\ job \in [Editors -> Jobs]
    BY DEF Typed, Working, Stored
  <1>2. job'[e] \in Jobs /\ job'[e].row.made
    BY BeginsMoves, JobCases DEF Mine
  <1>3. ASSUME NEW id \in Ids, NEW body \in Bodies, Put(e, id, body)
        PROVE  /\ rows[id].made
               /\ job'[e].row.emb = rows[id].emb
               /\ job'[e].row.text = rows[id].text
               /\ job'[e].row.own = rows[id].own
               /\ boot.pc = "embed" => mixed'
    <2> DEFINE j == [pc |-> IF body.text = Keep THEN "write" ELSE "embed", id |-> id,
                     row |-> Edited(rows[id], body)]
    <2>1. job'[e] = j
      BY <1>1, <1>3 DEF Put
    <2>2. body.text = Keep
      BY <2>1
    <2>3. /\ Edited(rows[id], body).emb = rows[id].emb /\ Edited(rows[id], body).own = rows[id].own
          /\ Edited(rows[id], body).text = rows[id].text
      BY <1>1, <2>2 DEF Edited, Rows
    <2>4. rows[id].made /\ (boot.pc = "embed" => mixed')
      BY <1>3 DEF Put, Exists
    <2> QED  BY <2>1, <2>3, <2>4
  <1>4. ASSUME NEW id \in Drafts, NEW text \in Texts, NEW on \in BOOLEAN, Post(e, id, text, on)
        PROVE  FALSE
    <2>1. job'[e].pc = "embed"
      BY <1>1, <1>4 DEF Post
    <2> QED  BY <2>1
  <1>5. ASSUME Embed(e)
        PROVE  \/ job'[e].row.emb = job'[e].row.text /\ job'[e].row.emb \notin {Null, Empty}
               \/ job'[e].row.emb = Null /\ job'[e].row.text = Empty
    <2>1. job[e] \in [pc : {"embed", "write"}, id : Ids, row : {r \in Rows : r.made}]
      BY <1>1, <1>5, JobCases DEF Embed
    <2>2. job[e].row.text \in Texts /\ job[e].row \in Rows
      BY <2>1 DEF Rows
    <2> DEFINE v == Vector(job[e].row)
    <2> DEFINE j == [[job[e] EXCEPT !.pc = "write"] EXCEPT !.row.emb = v]
    <2>3. \/ job' = [job EXCEPT ![e] = j]
          \/ Fault
      BY <1>1, <1>5 DEF Embed
    <2>4. j.row.emb = v /\ j.row.text = job[e].row.text
      BY <2>1, <2>2 DEF Rows
    <2>5. job'[e] = j
      BY <1>1, <2>3
    <2>6. v = IF job[e].row.text = Empty THEN Null ELSE job[e].row.text
      BY DEF Vector
    <2> HIDE DEF v
    <2> QED  BY <2>2, <2>4, <2>5, <2>6, NullIsNoText
  <1>6. CASE \E id \in Ids, body \in Bodies : Put(e, id, body)
    BY <1>2, <1>3, <1>6
  <1> QED  BY <1>2, <1>4, <1>5, <1>6 DEF Begins

LEMMA EntryOfFitting ==
  ASSUME rows \in [Ids -> Rows], NEW id \in Ids, Fits(rows[id]), rows[id].emb = Null
  PROVE  Entry(id).text \in {Empty, Said(rows[id])}
  BY DEF Entry, Fits, Said

LEMMA EntryHasText ==
  ASSUME rows \in [Ids -> Rows], NEW id \in Ids, rows[id].text # Empty
  PROVE  Entry(id).text # Empty
  <1>1. rows[id].own # Empty
    BY StoreConstants DEF Rows, Texts, Null, Empty
  <1> QED  BY <1>1 DEF Entry

(* What the task of the start begins with.                                 *)
LEMMA BootedFits ==
  ASSUME Stored, NEW S \in SUBSET Active, \A id \in Ids : Fits(rows[id])
  PROVE  \A n \in Booted(S).todo \cup Booted(S).done :
           n.id \in Ids /\ n.text \in {Empty, Said(rows[n.id])}
  <1>1. Booted(S).todo = {n \in S : n.emb = Null} /\ Booted(S).done = {}
    BY DEF Booted
  <1>2. ASSUME NEW n \in S, n.emb = Null
        PROVE  n.id \in Ids /\ n.text \in {Empty, Said(rows[n.id])}
    <2>1. n.id \in Ids /\ n = Entry(n.id)
      BY ActiveTyped DEF Stored
    <2>2. rows[n.id].emb = Null
      BY <1>2, <2>1, EntryTyped DEF Stored
    <2> QED  BY <2>1, <2>2, EntryOfFitting DEF Stored
  <1> QED  BY <1>1, <1>2

LEMMA InitFits == Init => FitInv /\ FillInv
  <1> SUFFICES ASSUME Init PROVE FitInv /\ FillInv
    OBVIOUS
  <1>1. Stored
    BY InitTyped DEF Typed
  <1>2. \A id \in Ids : Fits(rows[id])
    BY DEF Init, Fits, Said, Empty
  <1>3. boot = Booted(Active) /\ \A e \in Editors : job[e].pc = "idle"
    BY DEF Init, Idle
  <1>4. FitInv
    BY <1>1, <1>2, <1>3, BootedFits DEF FitInv
  <1>5. ASSUME NEW id \in Ids, rows[id].made
        PROVE  /\ boot.pc = "embed" /\ rows[id].active
               /\ \E n \in boot.todo \cup boot.done : n.id = id /\ n.text # Empty
    <2>1. rows[id].active /\ rows[id].emb = Null /\ rows[id].text # Empty
      BY <1>5 DEF Init, Empty
    <2>2. Entry(id) \in Active /\ Entry(id).emb = Null /\ Entry(id).id = id
      BY <1>1, <2>1, EntryTyped DEF Active, Stored
    <2>3. Entry(id).text # Empty
      BY <1>1, <2>1, EntryHasText DEF Stored
    <2> QED  BY <1>3, <2>1, <2>2, <2>3 DEF Booted
  <1> QED  BY <1>3, <1>4, <1>5 DEF FillInv, Lacks

LEMMA FitKept == Typed /\ FitInv /\ [Next]_vars => FitInv'
  <1> SUFFICES ASSUME Typed, FitInv, [Next]_vars, (Unharmed /\ seeds = 0)'
               PROVE  /\ \A id \in Ids : Fits(rows'[id])
                      /\ \A e \in Editors : job'[e].pc = "write" =>
                           Fits(job'[e].row) /\ job'[e].row.made
                      /\ boot'.pc = "embed" =>
                           \A n \in boot'.todo \cup boot'.done :
                             n.id \in Ids /\ n.text \in {Empty, Said(rows'[n.id])}
    BY DEF FitInv, Fits, Said
  <1> DEFINE Goal == /\ \A id \in Ids : Fits(rows'[id])
                     /\ \A e \in Editors : job'[e].pc = "write" =>
                          Fits(job'[e].row) /\ job'[e].row.made
                     /\ boot'.pc = "embed" =>
                          \A n \in boot'.todo \cup boot'.done :
                            n.id \in Ids /\ n.text \in {Empty, Said(rows'[n.id])}
  <1>1. CASE UNCHANGED vars
    BY <1>1 DEF vars, FitInv, Unharmed
  <1> SUFFICES ASSUME Next PROVE Goal
    BY <1>1
  <1>2. Unharmed /\ seeds = 0 /\ ~Fault
    BY StillUnharmed
  <1>3. /\ \A id \in Ids : Fits(rows[id])
        /\ \A e \in Editors : job[e].pc = "write" => Fits(job[e].row) /\ job[e].row.made
        /\ boot.pc = "embed" =>
             \A n \in boot.todo \cup boot.done :
               n.id \in Ids /\ n.text \in {Empty, Said(rows[n.id])}
    BY <1>2 DEF FitInv
  <1>4. ASSUME NEW e \in Editors, Begins(e) PROVE Goal
    <2>1. job'[e].pc = "write" => Fits(job'[e].row) /\ job'[e].row.made
      BY <1>2, <1>3, <1>4, RowReadyToWrite DEF Fits, Said
    <2>2. UNCHANGED <<rows, boot>> /\ \A f \in Editors \ {e} : job'[f] = job[f]
      BY <1>4, BeginsMoves DEF Mine
    <2> QED  BY <1>3, <2>1, <2>2
  <1>5. ASSUME NEW e \in Editors, Stores(e) PROVE Goal
    <2>1. UNCHANGED boot /\ job'[e].pc # "write" /\ \A f \in Editors \ {e} : job'[f] = job[f]
      BY <1>5, StoresMoves DEF Mine, Idle
    <2>2. \A f \in Editors : job'[f].pc = "write" => Fits(job'[f].row) /\ job'[f].row.made
      BY <1>3, <2>1
    <2>3. PICK id \in Ids, row \in Rows :
            /\ Store(id, row) /\ row.made
            /\ \/ job[e].pc = "write" /\ row = job[e].row
               \/ row.emb = rows[id].emb /\ row.text = rows[id].text /\ row.own = rows[id].own
      BY <1>2, <1>5, StoresMoves
    <2>4. Fits(row)
      BY <1>3, <2>3 DEF Fits, Said
    <2>5. \A i \in Ids : Fits(rows'[i])
      BY <1>3, <2>3, <2>4, StoreKeeps DEF Typed
    <2>6. boot'.pc # "embed"
      <3>1. mixed' = (mixed \/ boot.pc = "embed")
        BY <2>3 DEF Store
      <3> QED  BY <2>1, <3>1 DEF Unharmed
    <2> QED  BY <2>2, <2>5, <2>6
  <1>6. ASSUME NEW e \in Editors, Reload(e) PROVE Goal
    <2>1. /\ UNCHANGED <<rows, boot>> /\ job'[e].pc # "write"
          /\ \A f \in Editors \ {e} : job'[f] = job[f]
      BY <1>6, ReloadMoves DEF Mine
    <2> QED  BY <1>3, <2>1
  <1>7. CASE ByBoot
    <2>1. boot.pc = "embed" /\ UNCHANGED job
      BY <1>7, ByBootMoves
    <2>2. CASE /\ UNCHANGED rows
               /\ \E n \in boot.todo : /\ boot'.todo = boot.todo \ {n}
                                       /\ boot'.done \in {boot.done, boot.done \cup {n}}
      BY <1>3, <2>1, <2>2
    <2>3. CASE rows' = Filled(boot.done) /\ boot'.pc \in {"over", "written"}
      <3>1. boot.done \in SUBSET Entries
        BY DEF Typed, Working, Boots
      <3>2. \A id \in Ids :
              /\ rows'[id].text = rows[id].text /\ rows'[id].own = rows[id].own
              /\ \/ rows'[id] = rows[id]
                 \/ \E n \in boot.done : n.id = id /\ rows'[id].emb = n.text
        BY <2>3, <3>1, FilledKeeps DEF Typed
      <3>3. \A n \in boot.done : n.text \in Texts /\ n.text # Empty
        BY <3>1 DEF Entries, Typed, Working
      <3>4. ASSUME NEW id \in Ids PROVE Fits(rows'[id])
        <4>1. CASE rows'[id] = rows[id]
          BY <1>3, <4>1
        <4>2. CASE \E n \in boot.done : n.id = id /\ rows'[id].emb = n.text
          <5>1. PICK n \in boot.done : n.id = id /\ rows'[id].emb = n.text
            BY <4>2
          <5>2. n.text = Said(rows[id]) /\ n.text # Null
            BY <1>3, <2>1, <3>3, <5>1, NullIsNoText
          <5>3. Said(rows'[id]) = Said(rows[id])
            BY <3>2 DEF Said
          <5> QED  BY <5>1, <5>2, <5>3 DEF Fits
        <4> QED  BY <3>2, <4>1, <4>2
      <3> QED  BY <1>3, <2>1, <2>3, <3>4
    <2> QED  BY <1>2, <1>7, <2>2, <2>3, ByBootMoves
  <1>8. CASE BootReload
    BY <1>3, <1>8, BootReloadMoves
  <1>9. CASE Restart
    <2>1. /\ UNCHANGED rows /\ job' = [e \in Editors |-> Idle] /\ boot' = Booted(cache')
          /\ cache' \subseteq Active
      BY <1>9, RestartMoves DEF Typed
    <2>2. \A n \in boot'.todo \cup boot'.done :
            n.id \in Ids /\ n.text \in {Empty, Said(rows[n.id])}
      BY <1>3, <2>1, BootedFits DEF Typed
    <2>3. \A e \in Editors : job'[e].pc # "write"
      BY <2>1 DEF Idle
    <2> QED  BY <1>3, <2>1, <2>2, <2>3
  <1>10. CASE ByCall
    BY <1>3, <1>10, ByCallMoves
  <1>11. ASSUME NEW id \in Seeded, NEW text \in Texts \ {Empty}, Seed(id, text) PROVE Goal
    <2>1. seeds' = seeds + 1
      BY <1>11 DEF Seed
    <2> QED  BY <1>2, <2>1
  <1> QED  BY <1>4, <1>5, <1>6, <1>7, <1>8, <1>9, <1>10, <1>11, Actors

(* An embedding is that of the text in its row, however many PUTs overlap, *)
(* if no edit crossed the task of the start, nothing failed and the seed   *)
(* script did not run again.                                               *)
THEOREM EmbeddingsFit == Spec => []EmbeddingFits
  <1>1. Spec => [](Typed /\ FitInv)
    BY InitTyped, InitFits, TypedKept, FitKept, PTL DEF Spec
  <1>2. FitInv => EmbeddingFits
    BY DEF FitInv, Fits, EmbeddingFits, Unharmed
  <1> QED  BY <1>1, <1>2, PTL

LEMMA FillKept == Typed /\ FillInv /\ [Next]_vars => FillInv'
  <1> DEFINE Goal == /\ \A id \in Ids : Lacks(rows'[id]) =>
                          /\ boot'.pc = "embed" /\ rows'[id].active
                          /\ \E n \in boot'.todo \cup boot'.done : n.id = id /\ n.text # Empty
                     /\ \A e \in Editors : job'[e].pc = "write" => ~Lacks(job'[e].row)
  <1> SUFFICES ASSUME Typed, FillInv, [Next]_vars, (Unharmed /\ seeds = 0)' PROVE Goal
    BY DEF FillInv, Lacks
  <1>1. CASE UNCHANGED vars
    BY <1>1 DEF vars, FillInv, Unharmed
  <1> SUFFICES ASSUME Next PROVE Goal
    BY <1>1
  <1>2. Unharmed /\ seeds = 0 /\ ~Fault /\ ~mixed'
    BY StillUnharmed DEF Unharmed
  <1>3. /\ \A id \in Ids : Lacks(rows[id]) =>
             /\ boot.pc = "embed" /\ rows[id].active
             /\ \E n \in boot.todo \cup boot.done : n.id = id /\ n.text # Empty
        /\ \A e \in Editors : job[e].pc = "write" => ~Lacks(job[e].row)
    BY <1>2 DEF FillInv
  <1>4. ASSUME NEW e \in Editors, Begins(e) PROVE Goal
    <2>1. job'[e].pc = "write" => ~Lacks(job'[e].row)
      BY <1>2, <1>3, <1>4, RowReadyToWrite DEF Lacks
    <2>2. UNCHANGED <<rows, boot>> /\ \A f \in Editors \ {e} : job'[f] = job[f]
      BY <1>4, BeginsMoves DEF Mine
    <2> QED  BY <1>3, <2>1, <2>2
  <1>5. ASSUME NEW e \in Editors, Stores(e) PROVE Goal
    <2>1. UNCHANGED boot /\ job'[e].pc # "write" /\ \A f \in Editors \ {e} : job'[f] = job[f]
      BY <1>5, StoresMoves DEF Mine, Idle
    <2>2. PICK id \in Ids, row \in Rows :
            /\ Store(id, row) /\ row.made
            /\ \/ job[e].pc = "write" /\ row = job[e].row
               \/ rows[id].made /\ row.emb = rows[id].emb /\ row.text = rows[id].text
      BY <1>2, <1>5, StoresMoves
    <2>3. boot.pc # "embed"
      <3>1. mixed' = (mixed \/ boot.pc = "embed")
        BY <2>2 DEF Store
      <3> QED  BY <1>2, <3>1
    <2>4. ~Lacks(row)
      BY <1>3, <2>2, <2>3 DEF Lacks
    <2>5. \A i \in Ids : ~Lacks(rows'[i])
      BY <1>3, <2>2, <2>3, <2>4, StoreKeeps DEF Typed
    <2> QED  BY <1>3, <2>1, <2>5
  <1>6. ASSUME NEW e \in Editors, Reload(e) PROVE Goal
    <2>1. /\ UNCHANGED <<rows, boot>> /\ job'[e].pc # "write"
          /\ \A f \in Editors \ {e} : job'[f] = job[f]
      BY <1>6, ReloadMoves DEF Mine
    <2> QED  BY <1>3, <2>1
  <1>7. CASE ByBoot
    <2>1. boot.pc = "embed" /\ UNCHANGED job
      BY <1>7, ByBootMoves
    <2>2. CASE /\ UNCHANGED rows /\ boot'.pc = "embed"
               /\ \E n \in boot.todo :
                    /\ boot'.todo = boot.todo \ {n}
                    /\ boot'.done = boot.done \cup {n} \/ (boot'.done = boot.done /\ n.text = Empty)
      <3>1. \A m \in boot.todo \cup boot.done :
              m.text # Empty => m \in boot'.todo \cup boot'.done
        BY <2>2
      <3> QED  BY <1>3, <2>1, <2>2, <3>1
    <2>3. CASE rows' = Filled(boot.done) /\ boot.todo = {}
      <3>1. boot.done \in SUBSET Entries
        BY DEF Typed, Working, Boots
      <3>2. \A n \in boot.done : n.text # Null
        BY <3>1, NullIsNoText DEF Entries
      <3>3. ASSUME NEW id \in Ids, Lacks(rows'[id]) PROVE FALSE
        <4>1. /\ rows'[id].made = rows[id].made /\ rows'[id].text = rows[id].text
              /\ \/ rows'[id] = rows[id] /\ \A n \in boot.done : n.id # id
                 \/ \E n \in boot.done : n.id = id /\ rows'[id].emb = n.text
          BY <2>3, <3>1, FilledKeeps DEF Typed
        <4> QED  BY <1>3, <2>3, <3>2, <3>3, <4>1 DEF Lacks
      <3> QED  BY <1>3, <2>1, <3>3
    <2> QED  BY <1>2, <1>7, <2>2, <2>3, ByBootMoves
  <1>8. CASE BootReload
    BY <1>3, <1>8, BootReloadMoves
  <1>9. CASE Restart
    <2>1. /\ UNCHANGED rows /\ job' = [e \in Editors |-> Idle] /\ boot' = Booted(cache')
          /\ cache' = Active
      <3>1. faults' = 0 /\ faults = 0
        BY <1>2 DEF Unharmed
      <3> QED  BY <1>9, <3>1, RestartMoves DEF Typed
    <2>2. \A e \in Editors : job'[e].pc # "write"
      BY <2>1 DEF Idle
    <2>3. ASSUME NEW id \in Ids, Lacks(rows[id])
          PROVE  /\ boot'.pc = "embed" /\ rows[id].active
                 /\ \E n \in boot'.todo \cup boot'.done : n.id = id /\ n.text # Empty
      <3>1. rows[id].active /\ rows[id].emb = Null /\ rows[id].text # Empty
        BY <1>3, <2>3 DEF Lacks
      <3>2. Entry(id) \in Active /\ Entry(id).emb = Null /\ Entry(id).id = id
        BY <3>1, EntryTyped DEF Active, Typed, Stored
      <3>3. Entry(id).text # Empty
        BY <3>1, EntryHasText DEF Typed, Stored
      <3> QED  BY <2>1, <3>1, <3>2, <3>3 DEF Booted
    <2> QED  BY <2>1, <2>2, <2>3
  <1>10. CASE ByCall
    BY <1>3, <1>10, ByCallMoves
  <1>11. ASSUME NEW id \in Seeded, NEW text \in Texts \ {Empty}, Seed(id, text) PROVE Goal
    <2>1. seeds' = seeds + 1
      BY <1>11 DEF Seed
    <2> QED  BY <1>2, <2>1
  <1> QED  BY <1>4, <1>5, <1>6, <1>7, <1>8, <1>9, <1>10, <1>11, Actors

(* When the repair of the start (main.py:336) is over every active         *)
(* workflow with an intent text has an embedding, and keeps one through    *)
(* later edits, unless a failure or an overlapping request took it away or *)
(* the seed script gave a text to a row that had none; however often the   *)
(* API restarts in between.                                                *)
THEOREM RepairRepairs == Spec => []Repaired
  <1>1. Spec => [](Typed /\ FillInv)
    BY InitTyped, InitFits, TypedKept, FillKept, PTL DEF Spec
  <1>2. Typed /\ FillInv => Repaired
    BY DEF FillInv, Lacks, Repaired, Unharmed, Typed, Stored
  <1> QED  BY <1>1, <1>2, PTL

-----------------------------------------------------------------------------
(* The cache.  Unless a write still has its reload before it, the one      *)
(* reload that is under way has read, or will read, the active rows.       *)

Dirty == boot.pc = "written" \/ \E e \in Editors : job[e].pc = "written"

CacheInv ==
  Unharmed /\ seeds = 0 =>
    /\ \A e \in Editors : Loading(job[e].pc) =>
         /\ ~Loading(boot.pc)
         /\ \A f \in Editors \ {e} : ~Loading(job[f].pc)
    /\ Dirty \/ SomeoneLoads \/ cache = Active
    /\ \A e \in Editors : job[e].pc = "assign" => Dirty \/ job[e].got = Active
    /\ boot.pc = "assign" => Dirty \/ boot.got = Active

LEMMA InitCached == Init => CacheInv
  BY DEF Init, CacheInv, Booted, Idle, Loading

(* Where a request is, is where all are, but for its own step.             *)
LEMMA Elsewhere ==
  ASSUME NEW e \in Editors, Mine(e), UNCHANGED boot
  PROVE  /\ Dirty' <=> boot.pc = "written" \/ job'[e].pc = "written"
                       \/ \E f \in Editors \ {e} : job[f].pc = "written"
         /\ SomeoneLoads' <=> Loading(boot.pc) \/ Loading(job'[e].pc)
                              \/ \E f \in Editors \ {e} : Loading(job[f].pc)
  BY DEF Mine, Dirty, SomeoneLoads

LEMMA CacheKept == Typed /\ CacheInv /\ [Next]_vars => CacheInv'
  <1> DEFINE Goal ==
        /\ \A e \in Editors : Loading(job'[e].pc) =>
             /\ ~Loading(boot'.pc)
             /\ \A f \in Editors \ {e} : ~Loading(job'[f].pc)
        /\ Dirty' \/ SomeoneLoads' \/ cache' = Active'
        /\ \A e \in Editors : job'[e].pc = "assign" => Dirty' \/ job'[e].got = Active'
        /\ boot'.pc = "assign" => Dirty' \/ boot'.got = Active'
  <1> SUFFICES ASSUME Typed, CacheInv, [Next]_vars, Unharmed', seeds' = 0 PROVE Goal
    BY DEF CacheInv, Loading
  <1>1. CASE UNCHANGED vars
    BY <1>1 DEF vars, CacheInv, Unharmed, Dirty, SomeoneLoads, Active, Entry, Loading
  <1> SUFFICES ASSUME Next PROVE Goal
    BY <1>1
  <1>2. Unharmed /\ ~Fault /\ ~mixed' /\ seeds = 0
    BY StillUnharmed DEF Unharmed
  <1>3. /\ \A e \in Editors : Loading(job[e].pc) =>
             /\ ~Loading(boot.pc)
             /\ \A f \in Editors \ {e} : ~Loading(job[f].pc)
        /\ Dirty \/ SomeoneLoads \/ cache = Active
        /\ \A e \in Editors : job[e].pc = "assign" => Dirty \/ job[e].got = Active
        /\ boot.pc = "assign" => Dirty \/ boot.got = Active
    BY <1>2 DEF CacheInv
  <1>4. UNCHANGED rows => Active' = Active
    BY DEF Active, Entry
  <1>5. ASSUME NEW e \in Editors, Begins(e) PROVE Goal
    <2>1. /\ UNCHANGED <<rows, boot, cache>> /\ Mine(e)
          /\ job[e].pc \in {"idle", "embed"} /\ job'[e].pc \in {"embed", "write"}
      BY <1>5, BeginsMoves
    <2>2. (Dirty' <=> Dirty) /\ (SomeoneLoads' <=> SomeoneLoads)
      BY <2>1, Elsewhere DEF Dirty, SomeoneLoads, Loading
    <2> QED  BY <1>3, <1>4, <2>1, <2>2 DEF Mine, Loading
  <1>6. ASSUME NEW e \in Editors, Stores(e) PROVE Goal
    <2>1. UNCHANGED boot /\ Mine(e) /\ job'[e].pc = "written"
      BY <1>2, <1>6, StoresMoves
    <2>2. Dirty'
      BY <2>1, Elsewhere
    <2> QED  BY <1>3, <2>1, <2>2 DEF Mine, Loading
  <1>7. ASSUME NEW e \in Editors, Reload(e) PROVE Goal
    <2>1. UNCHANGED <<rows, boot>> /\ Mine(e)
      BY <1>7, ReloadMoves
    <2>2. CASE job[e].pc = "written" /\ job'[e].pc = "select" /\ mixed' = (mixed \/ SomeoneLoads)
      <3>1. ~SomeoneLoads
        BY <1>2, <2>2
      <3> QED  BY <2>1, <2>2, <3>1, Elsewhere DEF SomeoneLoads, Loading, Mine
    <2>3. CASE job[e].pc = "select" /\ job'[e].pc = "assign" /\ job'[e].got = Active
      BY <1>3, <1>4, <2>1, <2>3, Elsewhere DEF SomeoneLoads, Loading, Mine
    <2>4. CASE job[e].pc = "assign" /\ job'[e].pc = "idle" /\ cache' = job[e].got
      <3>1. Dirty' <=> Dirty
        BY <2>1, <2>4, Elsewhere DEF Dirty
      <3> QED  BY <1>3, <1>4, <2>1, <2>4, <3>1 DEF Loading, Mine
    <2> QED  BY <1>2, <1>7, <2>2, <2>3, <2>4, ReloadMoves
  <1>8. CASE ByBoot
    <2>1. UNCHANGED <<job, cache>> /\ boot.pc = "embed" /\ boot' \in Boots
      BY <1>8, ByBootMoves
    <2>2. CASE UNCHANGED rows /\ boot'.pc = "embed"
      BY <1>3, <1>4, <2>1, <2>2 DEF Dirty, SomeoneLoads, Loading
    <2>3. CASE boot'.pc = "written"
      BY <1>3, <2>1, <2>3 DEF Dirty, Loading
    <2>4. CASE rows' = Filled({}) /\ boot'.pc = "over"
      <3>1. \A id \in Ids : rows'[id] = rows[id]
        BY <2>4, FilledKeeps DEF Typed
      <3>2. UNCHANGED rows
        BY <2>4, <3>1 DEF Filled, Typed, Stored
      <3> QED  BY <1>3, <1>4, <2>1, <2>4, <3>2 DEF Dirty, SomeoneLoads, Loading
    <2> QED  BY <1>2, <1>8, <2>2, <2>3, <2>4, ByBootMoves
  <1>9. CASE BootReload
    <2>1. UNCHANGED <<rows, job>>
      BY <1>9, BootReloadMoves
    <2>2. CASE boot.pc = "written" /\ boot'.pc = "select" /\ mixed' = (mixed \/ SomeoneLoads)
      <3>1. ~SomeoneLoads
        BY <1>2, <2>2
      <3> QED  BY <2>1, <2>2, <3>1 DEF SomeoneLoads, Loading
    <2>3. CASE boot.pc = "select" /\ boot'.pc = "assign" /\ boot'.got = Active
      BY <1>3, <1>4, <2>1, <2>3 DEF SomeoneLoads, Loading
    <2>4. CASE boot.pc = "assign" /\ boot'.pc = "over" /\ cache' = boot.got
      BY <1>3, <1>4, <2>1, <2>4 DEF Dirty, Loading
    <2> QED  BY <1>2, <1>9, <2>2, <2>3, <2>4, BootReloadMoves
  <1>10. CASE Restart
    <2>1. UNCHANGED rows /\ job' = [e \in Editors |-> Idle] /\ boot' = Booted(cache')
      BY <1>10, RestartMoves DEF Typed
    <2>2. cache' = Active
      <3>1. faults' = 0 /\ faults = 0
        BY <1>2 DEF Unharmed
      <3> QED  BY <1>10, <3>1, RestartMoves DEF Typed
    <2>3. boot'.pc = "embed" /\ \A e \in Editors : job'[e].pc = "idle"
      BY <2>1 DEF Booted, Idle
    <2> QED  BY <1>4, <2>1, <2>2, <2>3 DEF Loading
  <1>11. CASE ByCall
    BY <1>3, <1>4, <1>11, ByCallMoves DEF Dirty, SomeoneLoads
  <1>12. ASSUME NEW id \in Seeded, NEW text \in Texts \ {Empty}, Seed(id, text) PROVE Goal
    <2>1. seeds' = seeds + 1
      BY <1>12 DEF Seed
    <2> QED  BY <1>2, <2>1
  <1> QED  BY <1>5, <1>6, <1>7, <1>8, <1>9, <1>10, <1>11, <1>12, Actors

(* Once every reload is done the cache is the active rows, if no two of    *)
(* them overlapped and none failed, for any number of overlapping requests.*)
THEOREM CacheIsCurrent == Spec => []CacheFollows
  <1>1. Spec => [](Typed /\ CacheInv)
    BY InitTyped, InitCached, TypedKept, CacheKept, PTL DEF Spec
  <1>2. CacheInv => CacheFollows
    <2> SUFFICES ASSUME CacheInv, Quiet, Unharmed, seeds = 0 PROVE cache = Active
      BY DEF CacheFollows, Unharmed
    <2>1. ~Dirty /\ ~SomeoneLoads
      BY DEF Quiet, Dirty, SomeoneLoads, Loading
    <2> QED  BY <2>1 DEF CacheInv
  <1> QED  BY <1>1, <1>2, PTL

-----------------------------------------------------------------------------
(* A call.  What it agreed on, and nothing has changed since, is active    *)
(* wherever the API could match it from, and known to the worker exactly   *)
(* if it is active.                                                        *)

HasId(S, id) == \E n \in S : n.id = id

CallInv ==
  /\ ~call => match = Idle /\ told = Idle /\ agreed = {}
  /\ faults = 0 =>
       /\ \A id \in agreed :
            /\ rows[id].active <=> HasId(worker, id)
            /\ HasId(cache, id) => rows[id].active
            /\ \A e \in Editors :
                 job[e].pc = "assign" /\ HasId(job[e].got, id) => rows[id].active
            /\ boot.pc = "assign" /\ HasId(boot.got, id) => rows[id].active
            /\ match # Idle /\ match.id = id => rows[id].active
       /\ told # Idle /\ ~told.known => told.id \notin agreed

LEMMA InitCalled == Init => CallInv
  BY DEF Init, CallInv

LEMMA CallKept == Typed /\ CallInv /\ [Next]_vars => CallInv'
  <1> DEFINE Sure(id) ==
        /\ rows[id].active <=> HasId(worker, id)
        /\ HasId(cache, id) => rows[id].active
        /\ \A e \in Editors :
             job[e].pc = "assign" /\ HasId(job[e].got, id) => rows[id].active
        /\ boot.pc = "assign" /\ HasId(boot.got, id) => rows[id].active
        /\ match # Idle /\ match.id = id => rows[id].active
  <1> DEFINE SureNext(id) ==
        /\ rows'[id].active <=> HasId(worker', id)
        /\ HasId(cache', id) => rows'[id].active
        /\ \A e \in Editors :
             job'[e].pc = "assign" /\ HasId(job'[e].got, id) => rows'[id].active
        /\ boot'.pc = "assign" /\ HasId(boot'.got, id) => rows'[id].active
        /\ match' # Idle /\ match'.id = id => rows'[id].active
  <1> DEFINE Known == told # Idle /\ ~told.known => told.id \notin agreed
  <1> SUFFICES ASSUME Typed, CallInv, [Next]_vars
               PROVE  /\ ~call' => match' = Idle /\ told' = Idle /\ agreed' = {}
                      /\ faults' = 0 => (\A id \in agreed' : SureNext(id)) /\ Known'
    BY DEF CallInv, HasId, Idle
  <1>1. CASE UNCHANGED vars
    BY <1>1 DEF vars, CallInv, HasId, Idle
  <1> SUFFICES ASSUME Next
               PROVE  /\ ~call' => match' = Idle /\ told' = Idle /\ agreed' = {}
                      /\ faults' = 0 => (\A id \in agreed' : SureNext(id)) /\ Known'
    BY <1>1
  <1> DEFINE Goal == /\ ~call' => match' = Idle /\ told' = Idle /\ agreed' = {}
                     /\ faults' = 0 => (\A id \in agreed' : SureNext(id)) /\ Known'
  <1>2. /\ faults' = 0 => faults = 0 /\ ~Fault
        /\ ~call => match = Idle /\ told = Idle /\ agreed = {}
        /\ faults = 0 => (\A id \in agreed : Sure(id)) /\ Known
        /\ agreed \subseteq Ids
    BY CountsGrow DEF CallInv, Typed, Calling, Counts, Fault
  <1>3. \A id \in Ids : HasId(Active, id) <=> rows[id].active
    BY ActiveTyped DEF HasId, Typed, Stored
  <1>4. ASSUME NEW e \in Editors, Begins(e) PROVE Goal
    <2>1. UNCHANGED <<rows, boot, cache, call, match, worker, told, agreed>>
      BY <1>4, BeginsMoves
    <2>2. job'[e].pc # "assign" /\ \A f \in Editors \ {e} : job'[f] = job[f]
      BY <1>4, BeginsMoves DEF Mine
    <2> QED  BY <1>2, <2>1, <2>2
  <1>5. ASSUME NEW e \in Editors, Stores(e) PROVE Goal
    <2>1. /\ UNCHANGED <<boot, cache, call, match, worker, told>>
          /\ job'[e].pc # "assign" /\ \A f \in Editors \ {e} : job'[f] = job[f]
      BY <1>5, StoresMoves DEF Mine, Idle
    <2>2. /\ agreed' \subseteq agreed
          /\ \A i \in Ids : i \in agreed' => rows'[i].active = rows[i].active
      <3>1. \/ UNCHANGED <<rows, agreed>>
            \/ \E id \in Ids, row \in Rows : Store(id, row) /\ row.made
        BY <1>5, StoresMoves
      <3> QED  BY <3>1, StoreKeeps DEF Typed
    <2>3. \A id \in agreed' : Sure(id) => SureNext(id)
      BY <1>2, <2>1, <2>2
    <2> QED  BY <1>2, <2>1, <2>2, <2>3
  <1>6. ASSUME NEW e \in Editors, Reload(e) PROVE Goal
    <2>1. /\ UNCHANGED <<rows, boot, call, match, worker, told, agreed>>
          /\ \A f \in Editors \ {e} : job'[f] = job[f]
          /\ \/ job'[e].pc = "select" /\ cache' = {}
             \/ /\ job'[e].pc = "assign" /\ UNCHANGED cache
                /\ job'[e].got = Active \/ Fault
             \/ job[e].pc = "assign" /\ job'[e].pc = "idle" /\ cache' = job[e].got
      BY <1>6, ReloadMoves DEF Mine
    <2>2. \A id : ~HasId({}, id)
      BY DEF HasId
    <2>3. ~Fault => \A id \in agreed : Sure(id) => SureNext(id)
      BY <1>2, <1>3, <2>1, <2>2
    <2> QED  BY <1>2, <2>1, <2>3
  <1>7. CASE ByBoot
    <2>1. UNCHANGED <<job, cache, call, match, worker, told, agreed>> /\ boot'.pc # "assign"
      BY <1>7, ByBootMoves
    <2>2. \A id \in Ids : rows'[id].active = rows[id].active
      <3>1. UNCHANGED rows \/ rows' = Filled(boot.done)
        BY <1>7, ByBootMoves
      <3>2. boot.done \in SUBSET Entries
        BY DEF Typed, Working, Boots
      <3> QED  BY <3>1, <3>2, FilledKeeps DEF Typed
    <2>3. \A id \in agreed : Sure(id) => SureNext(id)
      BY <1>2, <2>1, <2>2
    <2> QED  BY <1>2, <2>1, <2>3
  <1>8. CASE BootReload
    <2>1. /\ UNCHANGED <<rows, job, call, match, worker, told, agreed>>
          /\ \/ boot'.pc = "select" /\ cache' = {}
             \/ /\ boot'.pc = "assign" /\ UNCHANGED cache
                /\ boot'.got = Active \/ Fault
             \/ boot.pc = "assign" /\ boot'.pc = "over" /\ cache' = boot.got
      BY <1>8, BootReloadMoves
    <2>2. \A id : ~HasId({}, id)
      BY DEF HasId
    <2>3. ~Fault => \A id \in agreed : Sure(id) => SureNext(id)
      BY <1>2, <1>3, <2>1, <2>2
    <2> QED  BY <1>2, <2>1, <2>3
  <1>9. CASE Restart
    <2>1. /\ UNCHANGED <<rows, call, worker, told, agreed>> /\ match' = Idle
          /\ job' = [e \in Editors |-> Idle] /\ boot'.pc = "embed" /\ cache' \subseteq Active
      BY <1>9, RestartMoves DEF Typed, Booted
    <2>2. \A id \in Ids : HasId(cache', id) => rows[id].active
      BY <1>3, <2>1 DEF HasId
    <2>3. \A e \in Editors : job'[e].pc = "idle"
      BY <2>1 DEF Idle
    <2>4. \A id \in agreed : Sure(id) => SureNext(id)
      BY <1>2, <2>1, <2>2, <2>3
    <2> QED  BY <1>2, <2>1, <2>4
  <1>10. CASE CallStart
    <2>1. ~call /\ call' = TRUE /\ UNCHANGED <<match, told, rows, job, boot, cache>>
          /\ (worker' = Active \/ Fault)
      BY <1>10 DEF CallStart, Fresh
    <2>2. match' = Idle /\ told' = Idle
      BY <1>2, <2>1
    <2>3. ASSUME NEW id \in agreed', faults' = 0 PROVE SureNext(id)
      <3>1. ~SomeoneLoads /\ id \in Ids /\ (rows[id].active <=> HasId(cache, id))
        BY <1>10, <2>3 DEF CallStart, HasId
      <3>2. boot.pc # "assign" /\ \A e \in Editors : job[e].pc # "assign"
        BY <3>1 DEF SomeoneLoads, Loading
      <3>3. worker' = Active
        BY <1>2, <2>1, <2>3
      <3> QED  BY <1>3, <2>1, <2>2, <3>1, <3>2, <3>3
    <2> QED  BY <2>1, <2>2, <2>3
  <1>11. CASE Ask
    <2>1. /\ call /\ UNCHANGED <<rows, job, boot, cache, call, worker, agreed>> /\ told' = Idle
          /\ \E n \in cache : match' = [pc |-> "asked", id |-> n.id]
      BY <1>11 DEF Ask
    <2>2. \A id : match' # Idle /\ match'.id = id => HasId(cache, id)
      BY <2>1 DEF HasId
    <2>3. \A id \in agreed : Sure(id) => SureNext(id)
      BY <2>1, <2>2
    <2> QED  BY <1>2, <2>1, <2>3
  <1>12. CASE Answer
    <2>1. /\ UNCHANGED <<rows, job, boot, cache, call, worker, agreed>>
          /\ match # Idle /\ match' = Idle
          /\ told' = Idle \/ told' = [id |-> match.id, known |-> HasId(worker, match.id)]
      BY <1>12 DEF Answer, HasId
    <2>2. call
      BY <1>2, <2>1
    <2>3. \A id \in agreed : Sure(id) => SureNext(id)
      BY <2>1
    <2>4. ASSUME faults = 0, told' # Idle, ~told'.known PROVE told'.id \notin agreed
      <3>1. told'.id = match.id /\ ~HasId(worker, match.id)
        BY <2>1, <2>4
      <3> QED  BY <1>2, <2>1, <2>4, <3>1
    <2> QED  BY <1>2, <2>1, <2>2, <2>3, <2>4
  <1>13. ASSUME NEW id \in Seeded, NEW text \in Texts \ {Empty}, Seed(id, text) PROVE Goal
    <2>1. UNCHANGED <<job, boot, cache, call, match, worker, told, agreed>>
      BY <1>13 DEF Seed, asked
    <2>2. \A i \in Ids : rows'[i].active = rows[i].active
      BY <1>13, SeedKeeps DEF Typed
    <2>3. \A i \in agreed : Sure(i) => SureNext(i)
      BY <1>2, <2>1, <2>2
    <2> QED  BY <1>2, <2>1, <2>3
  <1> QED  BY <1>4, <1>5, <1>6, <1>7, <1>8, <1>9, <1>10, <1>11, <1>12, <1>13,
              Actors DEF ByCall

(* A workflow that was active, cached and known to the worker when the     *)
(* call began, and has not been switched since, is entered when it is      *)
(* matched, whatever is edited, seeded and reloaded meanwhile.             *)
THEOREM MatchesAreKnown == Spec => []MatchIsKnown
  <1>1. Spec => [](Typed /\ CallInv)
    BY InitTyped, InitCalled, TypedKept, CallKept, PTL DEF Spec
  <1>2. Typed /\ CallInv => MatchIsKnown
    BY DEF CallInv, MatchIsKnown, Typed, Counts
  <1> QED  BY <1>1, <1>2, PTL

============================================================================
