------------------------ MODULE KnowledgeBaseProofs ------------------------
(***************************************************************************)
(* Proofs about the knowledge base: for any documents, file names and      *)
(* number of failures and restarts, rows tell what is stored.              *)
(***************************************************************************)
EXTENDS KnowledgeBase, RetrievalProofs, SequenceTheorems

Statuses == [st : {"none", "processing", "ready", "error"}, cc : 0..1]
Ready == [st |-> "ready", cc |-> 1]

RowsTyped ==
  /\ row \in [Docs -> Statuses]
  /\ job \in [Uploads -> {"new", "accepted", "queued", "embedding", "stored",
                          "empty", "failed", "unmarked", "dropped", "over"}]
  /\ del \in [Docs -> {"no", "cut", "failed"}]
  /\ chunks \subseteq Docs

(* An upload whose task has stored its chunks, or whose row says so, has   *)
(* them until it is cut; before it arrives there is nothing of it.         *)
ChunksInv ==
  \A d \in Uploads :
    /\ row[d].st # "none" /\ del[d] = "no" /\ (job[d] = "stored" \/ row[d] = Ready)
         => d \in chunks
    /\ job[d] = "new" => row[d].st = "none" /\ d \notin chunks

KbInv == RowsTyped /\ ChunksInv /\ faults \in Nat

LEMMA FaultsCount ==
  ASSUME Next, faults \in Nat
  PROVE  faults' \in Nat /\ (~Restart => restarts' = restarts)
  <1> DEFINE Ticked == faults' \in Nat /\ restarts' = restarts
  <1>1. Fault \/ UNCHANGED bounds => Ticked
    BY DEF Fault, bounds
  <1>2. ASSUME NEW d \in Uploads, Upload(d) \/ Ingest(d) PROVE Ticked
    BY <1>1, <1>2 DEF Upload, Ingest, Reply, Parse, Store, EmbedFails, MarkReady, MarkError, Rebuild
  <1>3. ASSUME NEW d \in Docs, Cut(d) \/ DeleteRow(d) PROVE Ticked
    BY <1>1, <1>3 DEF Cut, DeleteRow, Rebuild
  <1>4. CASE RebuildIndex \/ Ask
    BY <1>1, <1>4 DEF RebuildIndex, Ask, Rebuild
  <1>5. ASSUME Search PROVE Ticked
    <2>1. \E hits : Faulty(hits)
      <3>1. CASE AskNext
        BY <3>1 DEF AskNext
      <3>2. CASE Answer
        BY <3>2 DEF Answer
      <3> QED  BY <1>5, <3>1, <3>2 DEF Search
    <2> QED  BY <1>1, <2>1 DEF Faulty
  <1>6. CASE Restart
    BY <1>6 DEF Restart
  <1> QED  BY <1>2, <1>3, <1>4, <1>5, <1>6 DEF Next

LEMMA InitKb == Init => KbInv
  <1> SUFFICES ASSUME Init PROVE KbInv
    OBVIOUS
  <1>1. Installed \cap Uploads = {}
    BY KbConstants
  <1>2. RowsTyped /\ faults \in Nat
    BY KbConstants DEF Init, RowsTyped, Statuses, Absent, Docs
  <1>3. ChunksInv
    BY <1>1 DEF Init, ChunksInv, Absent, Docs
  <1> QED  BY <1>2, <1>3 DEF KbInv

-----------------------------------------------------------------------------
(* Each kind of step.                                                      *)

(* A task at work on its own row.                                          *)
LEMMA TaskKeeps ==
  ASSUME KbInv, NEW d \in Uploads, UNCHANGED <<del, chunks>>,
         NEW r \in Statuses,
         NEW j \in {"new", "accepted", "queued", "embedding", "stored", "empty",
                    "failed", "unmarked", "dropped", "over"},
         job' = [job EXCEPT ![d] = j], row' = [row EXCEPT ![d] = r],
         j # "new",
         r.st # "none" /\ del[d] = "no" /\ (j = "stored" \/ r = Ready) => d \in chunks
  PROVE  (RowsTyped /\ ChunksInv)'
  <1>1. RowsTyped'
    BY DEF KbInv, RowsTyped, Docs
  <1>2. ASSUME NEW e \in Uploads
        PROVE  /\ row'[e].st # "none" /\ del'[e] = "no" /\ (job'[e] = "stored" \/ row'[e] = Ready)
                    => e \in chunks'
               /\ job'[e] = "new" => row'[e].st = "none" /\ e \notin chunks'
    <2>1. CASE e = d
      BY <2>1 DEF KbInv, RowsTyped, Docs
    <2>2. CASE e # d
      BY <2>2 DEF KbInv, RowsTyped, ChunksInv, Docs
    <2> QED  BY <2>1, <2>2
  <1> QED  BY <1>1, <1>2 DEF KbInv, ChunksInv, Ready

LEMMA IngestKeeps ==
  ASSUME KbInv, NEW d \in Uploads, Upload(d) \/ Ingest(d)
  PROVE  (RowsTyped /\ ChunksInv)'
  <1>1. d \in Docs /\ row[d] \in Statuses /\ row = [row EXCEPT ![d] = row[d]]
    BY DEF KbInv, RowsTyped, Docs
  <1>2. row[d].st # "none" /\ del[d] = "no" /\ (job[d] = "stored" \/ row[d] = Ready)
          => d \in chunks
    BY DEF KbInv, ChunksInv
  <1>3. CASE Upload(d)
    <2> DEFINE p == [st |-> "processing", cc |-> 0]
    <2>1. p \in Statuses /\ p # Ready
      BY DEF Statuses, Ready
    <2>2. CASE row' = [row EXCEPT ![d] = p] /\ job' = [job EXCEPT ![d] = "accepted"]
      <3> HIDE DEF p
      <3> QED  BY <1>3, <2>1, <2>2, TaskKeeps DEF Upload
    <2>3. CASE UNCHANGED row /\ job' = [job EXCEPT ![d] = "over"]
      BY <1>1, <1>2, <1>3, <2>3, TaskKeeps DEF Upload
    <2> QED  BY <1>3, <2>2, <2>3 DEF Upload
  <1>4. CASE Reply(d) \/ Parse(d) \/ EmbedFails(d)
    <2>1. PICK j \in {"queued", "dropped", "embedding", "empty", "failed"} :
            job' = [job EXCEPT ![d] = j]
      BY <1>4 DEF Reply, Parse, EmbedFails
    <2>2. UNCHANGED <<row, del, chunks>>
      BY <1>4 DEF Reply, Parse, EmbedFails
    <2> QED  BY <1>1, <1>2, <2>1, <2>2, TaskKeeps
  <1>5. CASE Store(d)
    <2>1. /\ UNCHANGED <<row, del>> /\ chunks' = chunks \cup {d}
          /\ job' = [job EXCEPT ![d] = "stored"]
      BY <1>5 DEF Store
    <2> QED  BY <2>1 DEF KbInv, RowsTyped, ChunksInv, Docs
  <1>6. CASE MarkReady(d)
    <2> DEFINE r == [st |-> "ready", cc |-> IF job[d] = "empty" THEN 0 ELSE 1]
    <2>1. job[d] \in {"stored", "empty"} /\ UNCHANGED <<del, chunks>>
      BY <1>6 DEF MarkReady, Settles
    <2>2. r \in Statuses /\ (r = Ready => job[d] = "stored")
      BY <2>1 DEF Statuses, Ready
    <2>3. \/ row' = Marked(d, r) /\ job' = [job EXCEPT ![d] = "over"]
          \/ UNCHANGED row /\ job' = [job EXCEPT ![d] = "failed"]
      BY <1>6 DEF MarkReady
    <2> HIDE DEF r
    <2>4. CASE row[d].st # "none" /\ row' = [row EXCEPT ![d] = r] /\ job' = [job EXCEPT ![d] = "over"]
      BY <1>2, <2>1, <2>2, <2>4, TaskKeeps
    <2>5. CASE UNCHANGED row /\ \E j \in {"over", "failed"} : job' = [job EXCEPT ![d] = j]
      BY <1>1, <1>2, <2>1, <2>5, TaskKeeps
    <2> QED  BY <2>3, <2>4, <2>5 DEF Marked
  <1>7. CASE MarkError(d)
    <2> DEFINE r == [row[d] EXCEPT !.st = "error"]
    <2>1. UNCHANGED <<del, chunks>>
      BY <1>7 DEF MarkError
    <2>2. r \in Statuses /\ r # Ready
      BY <1>1 DEF Statuses, Ready
    <2>3. \/ row' = Marked(d, r) /\ job' = [job EXCEPT ![d] = "over"]
          \/ UNCHANGED row /\ job' = [job EXCEPT ![d] = "unmarked"]
      BY <1>7 DEF MarkError, Errors
    <2> HIDE DEF r
    <2>4. CASE row' = [row EXCEPT ![d] = r] /\ job' = [job EXCEPT ![d] = "over"]
      BY <2>1, <2>2, <2>4, TaskKeeps
    <2>5. CASE UNCHANGED row /\ \E j \in {"over", "unmarked"} : job' = [job EXCEPT ![d] = j]
      BY <1>1, <1>2, <2>1, <2>5, TaskKeeps
    <2> QED  BY <2>3, <2>4, <2>5 DEF Marked
  <1> QED  BY <1>3, <1>4, <1>5, <1>6, <1>7 DEF Ingest

LEMMA DeletionKeeps ==
  ASSUME KbInv, NEW d \in Docs, Cut(d) \/ DeleteRow(d)
  PROVE  (RowsTyped /\ ChunksInv)'
  <1>1. CASE Cut(d)
    <2>1. /\ row[d].st # "none" /\ UNCHANGED <<row, job>>
          /\ del' = [del EXCEPT ![d] = "cut"] /\ chunks' = chunks \ {d}
      BY <1>1 DEF Cut
    <2> QED  BY <2>1 DEF KbInv, RowsTyped, ChunksInv, Docs
  <1>2. CASE DeleteRow(d)
    <2>1. /\ del[d] = "cut" /\ UNCHANGED <<job, chunks>>
          /\ \/ row' = [row EXCEPT ![d] = Absent] /\ del' = [del EXCEPT ![d] = "no"]
             \/ UNCHANGED row /\ del' = [del EXCEPT ![d] = "failed"]
      BY <1>2 DEF DeleteRow
    <2>2. Absent \in Statuses /\ Absent.st = "none"
      BY DEF Absent, Statuses
    <2> QED  BY <2>1, <2>2 DEF KbInv, RowsTyped, ChunksInv, Docs
  <1> QED  BY <1>1, <1>2

LEMMA RestartKeeps ==
  ASSUME KbInv, Restart
  PROVE  (RowsTyped /\ ChunksInv)'
  <1>1. chunks' \cap Uploads = chunks \cap Uploads
    BY KbConstants DEF Restart, Reseeded
  <1>2. /\ job' = [d \in Uploads |-> IF job[d] = "new" THEN "new" ELSE "over"]
        /\ del' = [d \in Docs |-> IF del[d] = "cut" THEN "failed" ELSE del[d]]
    BY DEF Restart
  <1>3. PICK S \in SUBSET chunks' :
          row' = [d \in Docs |-> IF d \in S THEN Ready ELSE row[d]]
    <2>1. CASE UNCHANGED row
      <3> DEFINE F(S) == [d \in Docs |-> IF d \in S THEN Ready ELSE row[d]]
      <3>1. row' = F({}) /\ {} \in SUBSET chunks'
        BY <2>1 DEF KbInv, RowsTyped
      <3>2. \E S \in SUBSET chunks' : row' = F(S)
        <4> HIDE DEF F
        <4> QED  BY <3>1
      <3> QED  BY <3>2
    <2>2. CASE \E S \in Backfills(chunks') :
                 row' = [d \in Docs |-> IF d \in S THEN [st |-> "ready", cc |-> 1] ELSE row[d]]
      BY <2>2 DEF Backfills, Ready
    <2> QED  BY <2>1, <2>2 DEF Restart
  <1>4. Ready \in Statuses /\ Ready.st = "ready"
    BY DEF Ready, Statuses
  <1>5. RowsTyped'
    <2>1. chunks' \subseteq Docs
      BY DEF Restart, Reseeded, KbInv, RowsTyped, Docs
    <2> QED  BY <1>2, <1>3, <1>4, <2>1 DEF KbInv, RowsTyped
  <1>6. ASSUME NEW d \in Uploads
        PROVE  /\ row'[d].st # "none" /\ del'[d] = "no" /\ (job'[d] = "stored" \/ row'[d] = Ready)
                    => d \in chunks'
               /\ job'[d] = "new" => row'[d].st = "none" /\ d \notin chunks'
    <2>1. d \in Docs /\ (d \in chunks' <=> d \in chunks)
      BY <1>1 DEF Docs
    <2>2. /\ job'[d] = (IF job[d] = "new" THEN "new" ELSE "over")
          /\ del'[d] = (IF del[d] = "cut" THEN "failed" ELSE del[d])
          /\ row'[d] = (IF d \in S THEN Ready ELSE row[d])
      BY <1>2, <1>3, <2>1
    <2> QED  BY <1>4, <2>1, <2>2 DEF KbInv, ChunksInv
  <1> QED  BY <1>5, <1>6 DEF ChunksInv, Ready

LEMMA KbKept == KbInv /\ [Next]_vars => KbInv'
  <1> SUFFICES ASSUME KbInv, [Next]_vars PROVE KbInv'
    OBVIOUS
  <1>1. faults' \in Nat
    BY FaultsCount DEF KbInv, vars
  <1>2. ASSUME UNCHANGED <<row, job, del, chunks>> PROVE (RowsTyped /\ ChunksInv)'
    BY <1>2 DEF KbInv, RowsTyped, ChunksInv
  <1>3. ASSUME UNCHANGED vars \/ RebuildIndex \/ Ask \/ Search PROVE (RowsTyped /\ ChunksInv)'
    BY <1>2, <1>3 DEF vars, RebuildIndex, Ask, Search, AskNext, Answer
  <1>4. (RowsTyped /\ ChunksInv)'
    BY <1>3, IngestKeeps, DeletionKeeps, RestartKeeps DEF Next
  <1> QED  BY <1>1, <1>4 DEF KbInv

(* An upload that is shown as ready with chunks has them, unless a         *)
(* deletion of it is half done: through any failures and restarts.         *)
THEOREM ReadyMeansStored == Spec => []ReadyHasChunks
  <1>1. Spec => []KbInv
    BY InitKb, KbKept, PTL DEF Spec
  <1>2. KbInv => ReadyHasChunks
    BY DEF KbInv, ChunksInv, ReadyHasChunks, Ready
  <1> QED  BY <1>1, <1>2, PTL

-----------------------------------------------------------------------------
(* Restarts.                                                               *)

(* After a restart every file that is stored is listed, whichever of       *)
(* several documents of its name has the row.                              *)
THEOREM RestartLists == Spec => ListedAfterRestart
  <1> DEFINE Listing == restarts' # restarts /\ faults' = faults
                => FileOf(chunks') \subseteq FileOf({d \in Docs : row'[d].st # "none"})
  <1>1. ASSUME KbInv, Restart, faults' = faults
        PROVE  FileOf(chunks') \subseteq FileOf({d \in Docs : row'[d].st # "none"})
    <2>1. PICK S \in Backfills(chunks') :
            row' = [d \in Docs |-> IF d \in S THEN [st |-> "ready", cc |-> 1] ELSE row[d]]
      <3>1. faults' # faults + 1
        BY <1>1 DEF KbInv
      <3> QED  BY <1>1, <3>1 DEF Restart
    <2>2. FileOf(S) = FileOf(chunks') \ FileOf(Rows) /\ S \subseteq chunks'
      BY <2>1 DEF Backfills, Missing
    <2>3. S \subseteq {d \in Docs : row'[d].st # "none"}
      <3>1. chunks' \subseteq Docs
        BY <1>1, RestartKeeps DEF KbInv, RowsTyped
      <3> QED  BY <2>1, <2>2, <3>1
    <2>4. Rows \subseteq {d \in Docs : row'[d].st # "none"}
      BY <2>1 DEF Rows
    <2> QED  BY <2>2, <2>3, <2>4 DEF FileOf
  <1>2. KbInv /\ [Next]_vars => Listing
    BY <1>1, FaultsCount DEF KbInv, vars
  <1>3. KbInv /\ [Next]_vars => [Listing]_vars
    BY <1>2
  <1>4. Spec => []KbInv
    BY InitKb, KbKept, PTL DEF Spec
  <1> QED  BY <1>3, <1>4, PTL DEF Spec, ListedAfterRestart

-----------------------------------------------------------------------------
(* Searches.                                                               *)

SearchTyped ==
  /\ search \in [on : BOOLEAN, cols : Seq({"kb", "fin"}), dense : Seq(Docs)]
  /\ IsInjective(search.dense)
  /\ search.on => search.cols # <<>>
  /\ index \subseteq Docs /\ IsFiniteSet(chunks) /\ IsFiniteSet(index)
  /\ was \subseteq Docs /\ kept \subseteq was
  /\ found \in [docs : SUBSET Docs, led : BOOLEAN, fits : BOOLEAN]
  /\ IsFiniteSet(found.docs) /\ Cardinality(found.docs) <= N
  /\ faults \in 0..MaxFaults /\ restarts \in 0..MaxRestarts

(* What the history says of a search under way, and what its hits cover:   *)
(* a document that was there all the time and whose collection was asked   *)
(* is a hit, or there are as many hits as are fetched.                     *)
Watched ==
  search.on =>
    /\ chunks \subseteq was /\ kept \subseteq chunks
    /\ ToSet(search.dense) \subseteq was
    /\ faults = 0 => \A d \in kept :
         InList(Listed, Where(d)) =>
           \/ InList(search.cols, Where(d))
           \/ d \in ToSet(search.dense)
           \/ Cardinality(ToSet(search.dense)) >= Fetched

IndexFresh == faults = 0 => index = chunks

SearchInv == SearchTyped /\ Watched /\ IndexFresh /\ SearchSound

(* Empty collections are passed over, and no others. *)
LEMMA LeftOf ==
  ASSUME NEW S, NEW cols \in Seq(S)
  PROVE  /\ Left(cols) \in Seq(S)
         /\ \A c : InList(cols, c) /\ Held(c) # {} => InList(Left(cols), c)
  <1> DEFINE I == {i \in 1..Len(cols) : Held(cols[i]) # {}}
             n == Min(I)
  <1>1. Left(cols) = IF I = {} \/ n = 0 THEN <<>> ELSE SubSeq(cols, n, Len(cols))
    BY DEF Left, SelectInSeq
  <1>2. CASE I = {}
    <2>1. \A c : ~(InList(cols, c) /\ Held(c) # {})
      BY <1>2 DEF InList
    <2>2. Left(cols) = <<>>
      BY <1>1, <1>2
    <2> QED  BY <2>1, <2>2
  <1>3. CASE I # {}
    <2>1. Len(cols) \in Nat /\ I \in SUBSET Nat
      OBVIOUS
    <2>2. n \in I /\ \A m \in I : n <= m
      <3>1. \E k \in I : \A m \in I : k <= m
        <4> HIDE DEF I
        <4> QED  BY <1>3, <2>1, LeastNumber
      <3> HIDE DEF I
      <3> QED  BY <3>1 DEF Min
    <2>3. n \in 1..Len(cols) /\ Left(cols) = SubSeq(cols, n, Len(cols))
      <3>1. n \in 1..Len(cols)
        BY <2>2
      <3> HIDE DEF n, I
      <3> QED  BY <1>1, <1>3, <3>1
    <2>4. ASSUME NEW c, InList(cols, c), Held(c) # {} PROVE InList(Left(cols), c)
      <3>1. PICK i \in 1..Len(cols) : cols[i] = c
        BY <2>4 DEF InList
      <3>2. i \in I
        BY <2>4, <3>1
      <3>3. n <= i
        BY <2>2, <3>2
      <3> HIDE DEF n, I
      <3>4. /\ i - n + 1 \in 1..Len(SubSeq(cols, n, Len(cols)))
            /\ SubSeq(cols, n, Len(cols))[i - n + 1] = c
        BY <2>1, <2>3, <3>1, <3>3
      <3> QED  BY <2>3, <3>4 DEF InList
    <2>5. Left(cols) \in Seq(S)
      <3> HIDE DEF n, I
      <3> QED  BY <2>1, <2>3
    <2> QED  BY <2>4, <2>5
  <1> QED  BY <1>2, <1>3

LEMMA HitsAre ==
  ASSUME NEW S, IsFiniteSet(S), NEW s \in Hits(S)
  PROVE  s \in Seq(S) /\ IsInjective(s) /\ ToSet(s) \subseteq S
  <1>1. s \in Seq(S) /\ IsInjective(s)
    BY PermutationIsList DEF Hits
  <1> QED  BY <1>1, ElementsOf

(* The loop that merges hits adds each that is new, once.                  *)
LEMMA MergedOf ==
  ASSUME NEW S, NEW dense \in Seq(S), IsInjective(dense), NEW hits \in Seq(S)
  PROVE  /\ Merged(dense, hits) \in Seq(S) /\ IsInjective(Merged(dense, hits))
         /\ ToSet(Merged(dense, hits)) = ToSet(dense) \cup ToSet(hits)
  <1> DEFINE n == Len(hits)
             X == Seq(S)
             start == dense
             next(c, i) == IF InList(c, hits[i]) THEN c ELSE Append(c, hits[i])
             seen(i) == ToSet(dense) \cup {hits[j] : j \in 1..i}
             ok(c, i) == IsInjective(c) /\ ToSet(c) = seen(i)
             Is(run) == run = [i \in 0..n |-> IF i = 0 THEN start ELSE next(run[i - 1], i)]
             step == [p \in (1..n) \X X |-> next(p[2], p[1])]
             good == [i \in 0..n |-> {c \in X : ok(c, i)}]
             after == CHOOSE run : Is(run)
  <1>1. /\ n \in Nat /\ n \in 0..n /\ 0 \in 0..n
        /\ \A i \in 1..n : i \in 0..n /\ i - 1 \in 0..n /\ i # 0
    OBVIOUS
  <1>2. Merged(dense, hits) = after[n]
    BY DEF Merged, Loop
  <1>3. start \in X /\ ok(start, 0)
    OBVIOUS
  <1>4. ASSUME NEW i \in 1..n, NEW a \in X, ok(a, i - 1)
        PROVE  next(a, i) \in X /\ ok(next(a, i), i)
    <2> DEFINE h == hits[i]
    <2>1. h \in S /\ next(a, i) = IF InList(a, h) THEN a ELSE Append(a, h)
      BY <1>1
    <2>2. seen(i) = seen(i - 1) \cup {h}
      BY <1>1
    <2>3. a \in Seq(S) /\ IsInjective(a) /\ ToSet(a) = seen(i - 1) /\ (InList(a, h) <=> h \in ToSet(a))
      BY <1>4, <2>1, ElementsOf
    <2> HIDE DEF h, seen, next
    <2>4. CASE InList(a, h)
      BY <2>1, <2>2, <2>3, <2>4
    <2>5. CASE ~InList(a, h)
      <3>1. /\ Append(a, h) \in Seq(S) /\ Len(Append(a, h)) = Len(a) + 1 /\ Len(a) \in Nat
            /\ \A p \in 1..Len(a) : Append(a, h)[p] = a[p]
            /\ Append(a, h)[Len(a) + 1] = h
        BY <2>1, <2>3
      <3>2. \A p \in 1..Len(a) : a[p] # h
        BY <2>5 DEF InList
      <3>3. IsInjective(Append(a, h))
        <4> DEFINE b == Append(a, h)
        <4>1. DOMAIN b = 1..(Len(a) + 1) /\ DOMAIN a = 1..Len(a)
          BY <2>3, <3>1
        <4> HIDE DEF b
        <4>2. \A p, q \in 1..Len(a) : a[p] = a[q] => p = q
          BY <2>3, <4>1 DEF IsInjective
        <4>3. /\ \A p \in 1..Len(a) : b[p] = a[p]
              /\ b[Len(a) + 1] = h /\ Len(a) \in Nat
          BY <3>1 DEF b
        <4>4. \A p, q \in 1..(Len(a) + 1) : b[p] = b[q] => p = q
          BY <3>2, <4>2, <4>3
        <4>5. IsInjective(b)
          BY <4>1, <4>4 DEF IsInjective
        <4> QED  BY <4>5 DEF b
      <3>4. ToSet(Append(a, h)) = ToSet(a) \cup {h}
        <4> DEFINE b == Append(a, h)
        <4>1. b \in Seq(S) /\ Len(b) = Len(a) + 1
          BY <3>1
        <4> HIDE DEF b
        <4>2. ToSet(b) = {b[k] : k \in 1..(Len(a) + 1)} /\ ToSet(a) = {a[k] : k \in 1..Len(a)}
          BY <2>3, <4>1, ElementsOf
        <4> QED  BY <3>1, <4>2 DEF b
      <3> QED  BY <2>1, <2>2, <2>3, <2>5, <3>1, <3>3, <3>4
    <2> QED  BY <2>4, <2>5
  <1> HIDE DEF start
  <1> HIDE DEF n, next, ok
  <1>5. PICK run : Runs(run, n, good, start, step)
    <2>1. start \in good[0]
      BY <1>1, <1>3
    <2>2. ASSUME NEW i \in 1..n, NEW c \in good[i - 1] PROVE step[<<i, c>>] \in good[i]
      <3>1. c \in X /\ ok(c, i - 1)
        BY <1>1, <2>2
      <3>2. next(c, i) \in X /\ ok(next(c, i), i)
        BY <1>4, <3>1
      <3> QED  BY <1>1, <3>1, <3>2
    <2> HIDE DEF good, step
    <2> QED  BY <1>1, <2>1, <2>2, LoopRuns
  <1>6. Is(run)
    <2>1. ASSUME NEW i \in 1..n PROVE run[i] = next(run[i - 1], i)
      <3>1. run[i - 1] \in good[i - 1] /\ run[i] = step[<<i, run[i - 1]>>]
        BY <1>1, <1>5 DEF Runs
      <3> QED  BY <1>1, <3>1
    <2>2. run = [i \in 0..n |-> run[i]] /\ run[0] = start
      BY <1>5 DEF Runs
    <2>3. \A i \in 0..n : i = 0 \/ i \in 1..n
      BY <1>1
    <2> QED  BY <2>1, <2>2, <2>3
  <1>7. Is(after)
    <2> HIDE DEF Is
    <2> QED  BY <1>6
  <1> HIDE DEF after
  <1>8. after[0] = start /\ \A i \in 1..n : after[i] = next(after[i - 1], i)
    BY <1>1, <1>7
  <1>9. \A i \in 0..n : after[i] \in good[i]
    <2>1. after[0] \in good[0]
      BY <1>1, <1>3, <1>8
    <2>2. ASSUME NEW i \in 1..n, after[i - 1] \in good[i - 1] PROVE after[i] \in good[i]
      <3>1. after[i - 1] \in X /\ ok(after[i - 1], i - 1)
        BY <1>1, <2>2
      <3>2. next(after[i - 1], i) \in X /\ ok(next(after[i - 1], i), i)
        BY <1>4, <3>1
      <3> QED  BY <1>1, <1>8, <3>2
    <2> HIDE DEF good
    <2> QED  BY <1>1, <2>1, <2>2, LoopStays
  <1>10. ok(after[n], n)
    BY <1>1, <1>9
  <1>11. ToSet(hits) = {hits[j] : j \in 1..n}
    BY ElementsOf DEF n
  <1>12. after[n] \in X
    BY <1>1, <1>9
  <1> QED  BY <1>2, <1>10, <1>11, <1>12 DEF ok

(* What is answered was a hit of the dense retriever or is in the index,   *)
(* and no hit is left out for anything but N others.                       *)
LEMMA AnsweredIs ==
  ASSUME NEW dense \in Seq(Docs), IsInjective(dense),
         index \subseteq Docs, IsFiniteSet(index), Answered(dense)
  PROVE  /\ found' \in [docs : SUBSET Docs, led : BOOLEAN, fits : BOOLEAN]
         /\ IsFiniteSet(found'.docs) /\ Cardinality(found'.docs) <= N
         /\ found'.docs \subseteq ToSet(dense) \cup index
         /\ \A d \in ToSet(dense) : d \in found'.docs \/ Cardinality(found'.docs) = N
         /\ Cardinality(ToSet(dense)) >= N => Cardinality(found'.docs) = N
  <1>1. PICK bm25 \in Hits(index), entity \in Hits(index) :
          LET lists == [dense |-> dense, bm25 |-> bm25, entity |-> entity]
              first == Top(lists, 1)
          IN found' = [docs |-> Top(lists, N),
                       led |-> \E x \in first : Leads(lists, x),
                       fits |-> \E x \in first : Surfaces(Score(lists, x))]
    BY DEF Answered
  <1> DEFINE lists == [dense |-> dense, bm25 |-> bm25, entity |-> entity]
             F == Found(lists)
             T == Top(lists, N)
  <1>2. /\ bm25 \in Seq(Docs) /\ IsInjective(bm25) /\ ToSet(bm25) \subseteq index
        /\ entity \in Seq(Docs) /\ IsInjective(entity) /\ ToSet(entity) \subseteq index
    <2>1. \A s \in Hits(index) : s \in Seq(index) /\ IsInjective(s) /\ ToSet(s) \subseteq index
      BY HitsAre
    <2>2. \A s \in Seq(index) : s \in Seq(Docs)
      BY SeqMonotonic
    <2> QED  BY <1>1, <2>1, <2>2
  <1>3. lists \in RankLists(Docs)
    <2> DEFINE X == {s \in Seq(Docs) : IsInjective(s)}
    <2>1. dense \in X /\ bm25 \in X /\ entity \in X
      BY <1>2
    <2> HIDE DEF X
    <2>2. lists \in [Retrievers -> X]
      BY <2>1, SMT DEF Retrievers
    <2> QED  BY <2>2 DEF RankLists, X
  <1>4. F = ToSet(dense) \cup ToSet(bm25) \cup ToSet(entity) /\ IsFiniteSet(F) /\ F \subseteq Docs
    <2>1. lists["dense"] = dense /\ lists["bm25"] = bm25 /\ lists["entity"] = entity
      OBVIOUS
    <2> HIDE DEF lists
    <2> QED  BY <1>3, <2>1, FoundIs
  <1>5. /\ found'.docs = T
        /\ found' \in [docs : {T}, led : BOOLEAN, fits : BOOLEAN]
    BY <1>1, Zenon
  <1> HIDE DEF lists
  <1>6. N \in Nat /\ N > 0
    BY KbConstants
  <1>7. T \subseteq F /\ Cardinality(T) = IF Cardinality(F) < N THEN Cardinality(F) ELSE N
    BY <1>3, <1>6, TopCounts
  <1>8. IsFiniteSet(T) /\ Cardinality(F) \in Nat
    <2>1. T \in SUBSET F
      BY <1>7
    <2> HIDE DEF T, F
    <2> QED  BY <1>4, <2>1, FS_Subset, FS_CardinalityType
  <1>9. Cardinality(F) < N => T = F
    <2>1. T \in SUBSET F
      BY <1>7
    <2> HIDE DEF T, F
    <2> QED  BY <1>4, <1>7, <2>1, FS_Subset
  <1>10. Cardinality(ToSet(dense)) <= Cardinality(F) /\ Cardinality(ToSet(dense)) \in Nat
    <2>1. ToSet(dense) \in SUBSET F /\ IsFiniteSet(ToSet(dense))
      BY <1>4, ListCounts
    <2> HIDE DEF F
    <2> QED  BY <1>4, <2>1, FS_Subset, FS_CardinalityType
  <1> HIDE DEF T, F
  <1>11. found' \in [docs : SUBSET Docs, led : BOOLEAN, fits : BOOLEAN]
    BY <1>4, <1>5, <1>7
  <1>12. Cardinality(T) <= N /\ (Cardinality(T) = N \/ (T = F /\ Cardinality(F) < N))
    BY <1>6, <1>7, <1>8, <1>9
  <1>13. T \subseteq ToSet(dense) \cup index /\ ToSet(dense) \subseteq F
    BY <1>2, <1>4, <1>7
  <1>14. \A d \in ToSet(dense) : d \in T \/ Cardinality(T) = N
    BY <1>12, <1>13
  <1>15. Cardinality(ToSet(dense)) >= N => Cardinality(T) = N
    BY <1>6, <1>8, <1>10, <1>12
  <1> QED  BY <1>5, <1>8, <1>11, <1>12, <1>13, <1>14, <1>15

-----------------------------------------------------------------------------
(* Each kind of step.                                                      *)

(* Documents are stored, deleted and indexed, or only rows change.         *)
LEMMA ChangesKeep ==
  ASSUME SearchInv, chunks \subseteq Docs, UNCHANGED asked,
         chunks' \subseteq Docs, IsFiniteSet(chunks'),
         Watch \/ UNCHANGED <<chunks, was, kept>>,
         \/ index' = chunks' /\ UNCHANGED bounds
         \/ UNCHANGED index /\ Fault
         \/ UNCHANGED <<index, chunks, bounds>>
  PROVE  SearchInv'
  <1>1. /\ was' = IF search.on THEN was \cup chunks' ELSE was
        /\ kept' = IF search.on THEN kept \cap chunks' ELSE kept
    <2>1. CASE Watch
      BY <2>1 DEF Watch
    <2>2. CASE UNCHANGED <<chunks, was, kept>>
      BY <2>2 DEF SearchInv, Watched
    <2> QED  BY <2>1, <2>2
  <1>2. /\ faults \in 0..MaxFaults /\ faults' \in 0..MaxFaults /\ restarts' = restarts
        /\ (faults' = 0 => faults = 0)
    BY KbConstants DEF SearchInv, SearchTyped, bounds, Fault
  <1>3. UNCHANGED <<search, found>>
    BY DEF asked
  <1>4. index' \subseteq Docs /\ IsFiniteSet(index')
    BY DEF SearchInv, SearchTyped
  <1>5. SearchTyped'
    BY <1>1, <1>2, <1>3, <1>4 DEF SearchInv, SearchTyped
  <1>6. Watched'
    BY <1>1, <1>2, <1>3 DEF SearchInv, Watched
  <1>7. IndexFresh'
    BY <1>2 DEF SearchInv, SearchTyped, IndexFresh, Fault
  <1>8. SearchSound'
    <2>1. AnswersWereStored'
      BY <1>1, <1>2, <1>3 DEF SearchInv, SearchSound, AnswersWereStored
    <2>2. KeptIsFound'
      BY <1>1, <1>2, <1>3 DEF SearchInv, SearchSound, KeptIsFound
    <2> QED  BY <2>1, <2>2 DEF SearchSound
  <1> QED  BY <1>5, <1>6, <1>7, <1>8 DEF SearchInv

LEMMA AskKeeps ==
  ASSUME SearchInv, chunks \subseteq Docs, Ask
  PROVE  SearchInv'
  <1>1. /\ ~search.on /\ was' = chunks /\ kept' = chunks
        /\ UNCHANGED <<chunks, index, faults, restarts>>
    BY DEF Ask, bounds
  <1>2. Listed \in Seq({"kb", "fin"})
    BY KbConstants
  <1>3. ToSet(<<>>) = {} /\ <<>> \in Seq(Docs) /\ IsInjective(<<>>)
    BY DEF ToSet, IsInjective
  <1>4. IndexFresh' /\ faults \in 0..MaxFaults /\ restarts \in 0..MaxRestarts
    BY <1>1 DEF SearchInv, SearchTyped, IndexFresh
  <1>5. \A d \in chunks : InList(Listed, Where(d)) => InList(Left(Listed), Where(d))
    <2>1. \A d \in chunks : Held(Where(d)) # {}
      BY DEF Held
    <2> QED  BY <1>2, <2>1, LeftOf
  <1>6. CASE /\ Left(Listed) # <<>> /\ found' = Nothing
             /\ search' = [on |-> TRUE, cols |-> Left(Listed), dense |-> <<>>]
    <2>1. Left(Listed) \in Seq({"kb", "fin"})
      BY <1>2, LeftOf
    <2>2. /\ search'.on /\ search'.cols = Left(Listed) /\ search'.dense = <<>>
          /\ search' \in [on : BOOLEAN, cols : Seq({"kb", "fin"}), dense : Seq(Docs)]
      BY <1>3, <1>6, <2>1
    <2>3. /\ found' \in [docs : SUBSET Docs, led : BOOLEAN, fits : BOOLEAN]
          /\ IsFiniteSet(found'.docs) /\ Cardinality(found'.docs) <= N
      <3>1. found'.docs = {}
        BY <1>6 DEF Nothing
      <3>2. found' \in [docs : SUBSET Docs, led : BOOLEAN, fits : BOOLEAN]
        BY <1>6 DEF Nothing
      <3> QED  BY <3>1, <3>2, FS_EmptySet, KbConstants
    <2>4. SearchTyped'
      BY <1>1, <1>3, <1>4, <1>6, <2>2, <2>3 DEF SearchInv, SearchTyped
    <2>5. Watched'
      BY <1>1, <1>3, <1>5, <2>2 DEF Watched
    <2>6. SearchSound'
      BY <2>2 DEF SearchSound, AnswersWereStored, KeptIsFound
    <2> QED  BY <1>4, <2>4, <2>5, <2>6 DEF SearchInv
  <1>7. CASE Left(Listed) = <<>> /\ UNCHANGED search /\ Answered(<<>>)
    <2>1. /\ found' \in [docs : SUBSET Docs, led : BOOLEAN, fits : BOOLEAN]
          /\ IsFiniteSet(found'.docs) /\ Cardinality(found'.docs) <= N
          /\ found'.docs \subseteq index
      <3>1. index \subseteq Docs /\ IsFiniteSet(index)
        BY DEF SearchInv, SearchTyped
      <3> QED  BY <1>3, <1>7, <3>1, AnsweredIs
    <2>2. SearchTyped'
      BY <1>1, <1>4, <1>7, <2>1 DEF SearchInv, SearchTyped
    <2>3. Watched'
      BY <1>1, <1>7 DEF Watched
    <2>4. AnswersWereStored'
      BY <1>1, <2>1 DEF SearchInv, IndexFresh, AnswersWereStored
    <2>5. KeptIsFound'
      <3>1. \A d \in chunks : ~InList(Listed, Where(d))
        BY <1>5, <1>7 DEF InList
      <3> QED  BY <1>1, <3>1 DEF KeptIsFound
    <2> QED  BY <1>4, <2>2, <2>3, <2>4, <2>5 DEF SearchInv, SearchSound
  <1> QED  BY <1>6, <1>7 DEF Ask

(* The hits of the collection that was asked, merged with those before.    *)
LEMMA MergedCovers ==
  ASSUME SearchInv, chunks \subseteq Docs, search.on, NEW hits \in Dense, Faulty(hits)
  PROVE  LET m == Merged(search.dense, hits)
         IN /\ m \in Seq(Docs) /\ IsInjective(m) /\ ToSet(m) \subseteq was
            /\ Rest \in Seq({"kb", "fin"})
            /\ faults' \in 0..MaxFaults /\ restarts' = restarts
            /\ faults' = 0 =>
                 /\ faults = 0
                 /\ \A d \in kept : InList(Listed, Where(d)) =>
                      \/ InList(Rest, Where(d))
                      \/ d \in ToSet(m)
                      \/ Cardinality(ToSet(m)) >= Fetched
  <1> DEFINE m == Merged(search.dense, hits)
  <1>1. /\ search.dense \in Seq(Docs) /\ IsInjective(search.dense)
        /\ search.cols \in Seq({"kb", "fin"}) /\ search.cols # <<>>
        /\ faults \in 0..MaxFaults /\ restarts \in 0..MaxRestarts
        /\ ToSet(search.dense) \subseteq was /\ chunks \subseteq was /\ kept \subseteq chunks
        /\ IsFiniteSet(chunks)
    BY DEF SearchInv, SearchTyped, Watched
  <1>2. IsFiniteSet(Asked) /\ Asked \subseteq chunks
    <2>1. Asked \in SUBSET chunks
      BY DEF Asked, Held
    <2> QED  BY <1>1, <2>1, FS_Subset
  <1>3. /\ hits \in Seq(Docs) /\ ToSet(hits) \subseteq chunks
        /\ hits # <<>> => /\ Cardinality(ToSet(hits)) = Len(hits)
                          /\ Len(hits) = Fetched \/ ToSet(hits) = Asked
    <2>1. CASE hits \in Hits(Asked) /\ (Len(hits) = Fetched \/ ToSet(hits) = Asked)
      <3>1. hits \in Seq(Asked) /\ IsInjective(hits) /\ ToSet(hits) \subseteq Asked
        BY <1>2, <2>1, HitsAre
      <3>2. hits \in Seq(Docs)
        <4>1. Asked \subseteq Docs
          BY <1>2
        <4> QED  BY <3>1, <4>1, SeqMonotonic
      <3>3. Cardinality(ToSet(hits)) = Len(hits)
        BY <3>1, ListCounts
      <3> QED  BY <1>2, <2>1, <3>1, <3>2, <3>3
    <2>2. CASE hits = <<>>
      BY <2>2 DEF ToSet
    <2> QED  BY <2>1, <2>2 DEF Dense
  <1>4. m \in Seq(Docs) /\ IsInjective(m) /\ ToSet(m) = ToSet(search.dense) \cup ToSet(hits)
    BY <1>1, <1>3, MergedOf
  <1>5. /\ faults' \in 0..MaxFaults /\ restarts' = restarts
        /\ faults' = 0 => faults = 0 /\ (hits = <<>> => Asked = {})
    BY <1>1, KbConstants DEF Faulty, Fault, bounds
  <1>6. /\ Tail(search.cols) \in Seq({"kb", "fin"}) /\ Rest \in Seq({"kb", "fin"})
        /\ \A c : InList(search.cols, c) => c = Head(search.cols) \/ InList(Tail(search.cols), c)
    <2>1. Tail(search.cols) \in Seq({"kb", "fin"})
      BY <1>1
    <2>2. ASSUME NEW c, InList(search.cols, c), c # Head(search.cols)
          PROVE  InList(Tail(search.cols), c)
      <3>1. PICK i \in 1..Len(search.cols) : search.cols[i] = c
        BY <2>2 DEF InList
      <3>2. i # 1
        BY <1>1, <2>2, <3>1
      <3>3. i - 1 \in 1..Len(Tail(search.cols)) /\ Tail(search.cols)[i - 1] = c
        BY <1>1, <3>1, <3>2
      <3> QED  BY <3>3 DEF InList
    <2> QED  BY <2>1, <2>2, LeftOf DEF Rest
  <1>7. ASSUME faults' = 0, NEW d \in kept, InList(Listed, Where(d))
        PROVE  InList(Rest, Where(d)) \/ d \in ToSet(m) \/ Cardinality(ToSet(m)) >= Fetched
    <2> DEFINE before == ToSet(search.dense)
               now == ToSet(hits)
    <2>1. IsFiniteSet(before) /\ IsFiniteSet(now) /\ IsFiniteSet(ToSet(m))
      BY <1>1, <1>3, <1>4, ListCounts
    <2>2. /\ before \in SUBSET ToSet(m) /\ now \in SUBSET ToSet(m)
      BY <1>4
    <2> HIDE DEF before, now, m
    <2>3. /\ Cardinality(before) \in Nat /\ Cardinality(now) \in Nat /\ Cardinality(ToSet(m)) \in Nat
          /\ Cardinality(before) <= Cardinality(ToSet(m)) /\ Cardinality(now) <= Cardinality(ToSet(m))
      BY <2>1, <2>2, FS_CardinalityType, FS_Subset
    <2>4. Fetched \in Nat
      BY KbConstants DEF Fetched
    <2>5. d \in chunks /\ d \in Held(Where(d))
      BY <1>1 DEF Held
    <2>6. InList(search.cols, Where(d)) \/ d \in before \/ Cardinality(before) >= Fetched
      BY <1>5, <1>7 DEF SearchInv, Watched, before
    <2>7. CASE d \in before \/ Cardinality(before) >= Fetched
      BY <2>2, <2>3, <2>4, <2>7
    <2>8. CASE Where(d) = Head(search.cols)
      <3>1. d \in Asked
        BY <2>5, <2>8 DEF Asked
      <3>2. hits # <<>>
        BY <1>5, <1>7, <3>1
      <3>3. d \in now \/ Cardinality(now) = Fetched
        BY <1>3, <3>1, <3>2 DEF now
      <3> QED  BY <2>2, <2>3, <2>4, <3>3
    <2>9. CASE InList(Tail(search.cols), Where(d))
      BY <1>6, <2>5, <2>9, LeftOf DEF Rest
    <2> QED  BY <1>6, <2>6, <2>7, <2>8, <2>9
  <1> QED  BY <1>1, <1>3, <1>4, <1>5, <1>6, <1>7

LEMMA AskNextKeeps ==
  ASSUME SearchInv, chunks \subseteq Docs, AskNext
  PROVE  SearchInv'
  <1>1. search.on /\ Rest # <<>> /\ UNCHANGED <<chunks, index, found, was, kept>>
    BY DEF AskNext
  <1>2. PICK hits \in Dense :
          /\ search' = [search EXCEPT !.cols = Rest, !.dense = Merged(@, hits)]
          /\ Faulty(hits)
    BY DEF AskNext
  <1> DEFINE m == Merged(search.dense, hits)
  <1>3. /\ m \in Seq(Docs) /\ IsInjective(m) /\ ToSet(m) \subseteq was
        /\ Rest \in Seq({"kb", "fin"})
        /\ faults' \in 0..MaxFaults /\ restarts' = restarts
        /\ faults' = 0 =>
             /\ faults = 0
             /\ \A d \in kept : InList(Listed, Where(d)) =>
                  \/ InList(Rest, Where(d))
                  \/ d \in ToSet(m)
                  \/ Cardinality(ToSet(m)) >= Fetched
    BY <1>1, <1>2, MergedCovers
  <1>4. /\ search'.on /\ search'.cols = Rest /\ search'.dense = m
        /\ search' \in [on : BOOLEAN, cols : Seq({"kb", "fin"}), dense : Seq(Docs)]
    <2>1. search \in [on : BOOLEAN, cols : Seq({"kb", "fin"}), dense : Seq(Docs)]
      BY DEF SearchInv, SearchTyped
    <2>2. search' = [search EXCEPT !.cols = Rest, !.dense = m]
      BY <1>2
    <2> HIDE DEF m
    <2> QED  BY <1>1, <1>3, <2>1, <2>2
  <1> HIDE DEF m
  <1>5. SearchTyped'
    BY <1>1, <1>3, <1>4 DEF SearchInv, SearchTyped
  <1>6. Watched'
    BY <1>1, <1>3, <1>4 DEF SearchInv, Watched
  <1>7. IndexFresh'
    BY <1>1, <1>3 DEF SearchInv, IndexFresh
  <1>8. SearchSound'
    BY <1>4 DEF SearchSound, AnswersWereStored, KeptIsFound
  <1> QED  BY <1>5, <1>6, <1>7, <1>8 DEF SearchInv

LEMMA AnswerKeeps ==
  ASSUME SearchInv, chunks \subseteq Docs, Answer
  PROVE  SearchInv'
  <1>1. /\ search.on /\ Rest = <<>> /\ search' = NoSearch
        /\ UNCHANGED <<chunks, index, was, kept>>
    BY DEF Answer
  <1>2. PICK hits \in Dense : Answered(Merged(search.dense, hits)) /\ Faulty(hits)
    BY DEF Answer
  <1> DEFINE m == Merged(search.dense, hits)
  <1>3. /\ m \in Seq(Docs) /\ IsInjective(m) /\ ToSet(m) \subseteq was
        /\ faults' \in 0..MaxFaults /\ restarts' = restarts
        /\ faults' = 0 =>
             /\ faults = 0
             /\ \A d \in kept : InList(Listed, Where(d)) =>
                  \/ InList(Rest, Where(d))
                  \/ d \in ToSet(m)
                  \/ Cardinality(ToSet(m)) >= Fetched
    BY <1>1, <1>2, MergedCovers
  <1>4. /\ index \subseteq Docs /\ IsFiniteSet(index) /\ chunks \subseteq was
        /\ was \subseteq Docs /\ kept \subseteq was /\ IsFiniteSet(chunks)
        /\ restarts \in 0..MaxRestarts
    BY <1>1 DEF SearchInv, SearchTyped, Watched
  <1>5. /\ found' \in [docs : SUBSET Docs, led : BOOLEAN, fits : BOOLEAN]
        /\ IsFiniteSet(found'.docs) /\ Cardinality(found'.docs) <= N
        /\ found'.docs \subseteq ToSet(m) \cup index
        /\ \A d \in ToSet(m) : d \in found'.docs \/ Cardinality(found'.docs) = N
        /\ Cardinality(ToSet(m)) >= N => Cardinality(found'.docs) = N
    <2>1. Answered(m)
      BY <1>2
    <2> HIDE DEF m
    <2> QED  BY <1>3, <1>4, <2>1, AnsweredIs
  <1>6. /\ ~search'.on
        /\ search' \in [on : BOOLEAN, cols : Seq({"kb", "fin"}), dense : Seq(Docs)]
        /\ IsInjective(search'.dense)
    BY <1>1 DEF NoSearch, IsInjective
  <1>7. SearchTyped'
    BY <1>1, <1>3, <1>4, <1>5, <1>6 DEF SearchTyped
  <1>8. Watched'
    BY <1>6 DEF Watched
  <1>9. IndexFresh'
    BY <1>1, <1>3 DEF SearchInv, IndexFresh
  <1>10. AnswersWereStored'
    BY <1>1, <1>3, <1>4, <1>5 DEF SearchInv, IndexFresh, AnswersWereStored
  <1>11. KeptIsFound'
    <2>1. Cardinality(ToSet(m)) \in Nat
      <3>1. IsFiniteSet(ToSet(m))
        BY <1>3, ListCounts
      <3> QED  BY <3>1, FS_CardinalityType
    <2>2. Fetched >= N
      BY KbConstants DEF Fetched
    <2>3. Cardinality(ToSet(m)) >= Fetched => Cardinality(ToSet(m)) >= N
      <3> DEFINE c == Cardinality(ToSet(m))
      <3>1. c \in Nat /\ Fetched \in Nat /\ N \in Nat
        BY <2>1, KbConstants DEF Fetched
      <3> HIDE DEF c
      <3>2. c >= Fetched => c >= N
        BY <2>2, <3>1
      <3> QED  BY <3>2 DEF c
    <2>4. \A c : ~InList(Rest, c)
      BY <1>1 DEF InList
    <2> HIDE DEF m
    <2> QED  BY <1>1, <1>3, <1>5, <2>3, <2>4 DEF KeptIsFound
  <1> QED  BY <1>7, <1>8, <1>9, <1>10, <1>11 DEF SearchInv, SearchSound

(* A restart ends the search, and indexes what is stored. *)
LEMMA RestartKeepsSearch ==
  ASSUME SearchInv, chunks \subseteq Docs, Restart
  PROVE  SearchInv'
  <1>1. /\ chunks' \in Reseeded /\ index' = chunks'
        /\ search' = NoSearch /\ found' = Nothing /\ was' = {} /\ kept' = {}
    BY DEF Restart
  <1>2. restarts' \in 0..MaxRestarts /\ faults' \in 0..MaxFaults
    BY KbConstants DEF Restart, SearchInv, SearchTyped
  <1>3. IsFiniteSet(chunks') /\ chunks' \subseteq Docs
    <2>1. IsFiniteSet(chunks)
      BY DEF SearchInv, SearchTyped
    <2>2. IsFiniteSet(chunks \ Seeds)
      <3>1. chunks \ Seeds \in SUBSET chunks
        OBVIOUS
      <3> QED  BY <2>1, <3>1, FS_Subset
    <2>3. \A s : IsFiniteSet((chunks \ Seeds) \cup {s})
      BY <2>2, FS_AddElement
    <2> QED  BY <1>1, <2>1, <2>3 DEF Reseeded, Docs
  <1>4. /\ ~search'.on /\ IsInjective(search'.dense)
        /\ search' \in [on : BOOLEAN, cols : Seq({"kb", "fin"}), dense : Seq(Docs)]
    BY <1>1 DEF NoSearch, IsInjective
  <1>5. /\ found' \in [docs : SUBSET Docs, led : BOOLEAN, fits : BOOLEAN] /\ found'.docs = {}
        /\ IsFiniteSet(found'.docs) /\ Cardinality(found'.docs) <= N
    <2>1. found'.docs = {} /\ found' \in [docs : SUBSET Docs, led : BOOLEAN, fits : BOOLEAN]
      BY <1>1 DEF Nothing
    <2> QED  BY <2>1, FS_EmptySet, KbConstants
  <1>6. SearchTyped'
    BY <1>1, <1>2, <1>3, <1>4, <1>5 DEF SearchTyped
  <1>7. Watched' /\ IndexFresh'
    BY <1>1, <1>4 DEF Watched, IndexFresh
  <1>8. SearchSound'
    BY <1>1, <1>5 DEF SearchSound, AnswersWereStored, KeptIsFound
  <1> QED  BY <1>6, <1>7, <1>8 DEF SearchInv

LEMMA InitSearch == Init => SearchInv
  <1> SUFFICES ASSUME Init PROVE SearchInv
    OBVIOUS
  <1>1. /\ chunks = Installed /\ index = Installed
        /\ search = NoSearch /\ found = Nothing /\ was = {} /\ kept = {}
        /\ faults = 0 /\ restarts = 0
    BY DEF Init
  <1>2. IsFiniteSet(Installed) /\ Installed \subseteq Docs
    BY KbConstants DEF Docs
  <1>3. /\ ~search.on /\ IsInjective(search.dense)
        /\ search \in [on : BOOLEAN, cols : Seq({"kb", "fin"}), dense : Seq(Docs)]
    BY <1>1 DEF NoSearch, IsInjective
  <1>4. /\ found \in [docs : SUBSET Docs, led : BOOLEAN, fits : BOOLEAN] /\ found.docs = {}
        /\ IsFiniteSet(found.docs) /\ Cardinality(found.docs) <= N
    <2>1. found.docs = {} /\ found \in [docs : SUBSET Docs, led : BOOLEAN, fits : BOOLEAN]
      BY <1>1 DEF Nothing
    <2> QED  BY <2>1, FS_EmptySet, KbConstants
  <1>5. SearchTyped
    BY <1>1, <1>2, <1>3, <1>4, KbConstants DEF SearchTyped
  <1>6. Watched /\ IndexFresh
    BY <1>1, <1>3 DEF Watched, IndexFresh
  <1>7. SearchSound
    BY <1>1, <1>4 DEF SearchSound, AnswersWereStored, KeptIsFound
  <1> QED  BY <1>5, <1>6, <1>7 DEF SearchInv

LEMMA SearchKept == KbInv /\ SearchInv /\ [Next]_vars => SearchInv'
  <1> SUFFICES ASSUME KbInv, SearchInv, [Next]_vars PROVE SearchInv'
    OBVIOUS
  <1>1. chunks \subseteq Docs /\ chunks' \subseteq Docs
    BY KbKept DEF KbInv, RowsTyped
  <1>2. IsFiniteSet(chunks) /\ faults \in 0..MaxFaults
    BY DEF SearchInv, SearchTyped
  <1>3. ASSUME UNCHANGED <<chunks, index, asked, was, kept>>, Fault \/ UNCHANGED bounds
        PROVE  SearchInv'
    BY <1>1, <1>2, <1>3, ChangesKeep
  <1>4. ASSUME NEW d \in Docs, chunks' \in {chunks \cup {d}, chunks \ {d}},
               Rebuild, Watch, UNCHANGED asked
        PROVE  SearchInv'
    <2>1. IsFiniteSet(chunks')
      BY <1>2, <1>4, FS_AddElement, FS_RemoveElement
    <2> QED  BY <1>1, <1>4, <2>1, ChangesKeep DEF Rebuild
  <1>5. ASSUME NEW d \in Uploads, Upload(d) \/ Ingest(d) PROVE SearchInv'
    <2>1. CASE Store(d)
      BY <1>4, <2>1 DEF Store, Docs
    <2>2. CASE Upload(d)
      BY <1>3, <2>2 DEF Upload
    <2>3. CASE Reply(d) \/ Parse(d) \/ EmbedFails(d)
      BY <1>3, <2>3 DEF Reply, Parse, EmbedFails
    <2>4. CASE MarkReady(d) \/ MarkError(d)
      BY <1>3, <2>4 DEF MarkReady, MarkError
    <2> QED  BY <1>5, <2>1, <2>2, <2>3, <2>4 DEF Ingest
  <1>6. ASSUME NEW d \in Docs, Cut(d) \/ DeleteRow(d) PROVE SearchInv'
    BY <1>3, <1>4, <1>6 DEF Cut, DeleteRow
  <1>7. CASE RebuildIndex
    BY <1>1, <1>2, <1>7, ChangesKeep DEF RebuildIndex, Rebuild
  <1>8. CASE UNCHANGED vars
    BY <1>3, <1>8 DEF vars, asked, bounds
  <1> QED  BY <1>1, <1>5, <1>6, <1>7, <1>8, AskKeeps, AskNextKeeps, AnswerKeeps,
              RestartKeepsSearch DEF Next, Search

-----------------------------------------------------------------------------
(* What holds of searches.                                                 *)

LEMMA SearchAlways == Spec => [](KbInv /\ SearchInv)
  BY InitKb, KbKept, InitSearch, SearchKept, PTL DEF Spec

(* While documents are added, deleted and indexed between the awaits of a  *)
(* search, and however many of them, collections and uploads there are, a  *)
(* search in which nothing failed answers only what was stored since it    *)
(* was asked, and answers what was there all the time unless N others are. *)
THEOREM SearchesSound == Spec => []SearchSound
  BY SearchAlways, PTL DEF SearchInv

(* Every variable has its type; no hit is merged twice, and no more than N *)
(* are answered.                                                           *)
THEOREM KbTyped == Spec => []KbTypeOK
  <1>1. KbInv /\ SearchInv => KbTypeOK
    BY DEF KbInv, RowsTyped, Statuses, SearchInv, SearchTyped, KbTypeOK
  <1> QED  BY <1>1, SearchAlways, PTL

-----------------------------------------------------------------------------
(* The fusion.                                                             *)

LEMMA ListsAreRankLists ==
  ASSUME NEW lists \in Lists(1..3)
  PROVE  /\ lists \in RankLists(1..3)
         /\ \A r \in Retrievers : Len(lists[r]) <= 21
  <1>1. IsFiniteSet(1..3) /\ Cardinality(1..3) = 3
    <2>1. 1 \in Int /\ 3 \in Int /\ 1 <= 3 /\ 3 - 1 + 1 = 3
      OBVIOUS
    <2>2. \A a, b \in Int : IsFiniteSet(a..b)
      BY FS_Interval
    <2>3. \A a, b \in Int : a <= b => Cardinality(a..b) = b - a + 1
      BY FS_Interval
    <2> QED  BY <2>1, <2>2, <2>3
  <1>2. lists \in RankLists(1..3)
    <2>1. \A s \in SetToAllKPermutations(1..3) : s \in Seq(1..3) /\ IsInjective(s)
      BY <1>1, PermutationIsList
    <2> QED  BY <2>1 DEF Lists, RankLists
  <1>3. ASSUME NEW r \in Retrievers PROVE Len(lists[r]) <= 21
    <2> DEFINE s == lists[r]
    <2>1. s \in Seq(1..3) /\ IsInjective(s)
      BY <1>2, ListOf
    <2>2. ToSet(s) \in SUBSET (1..3) /\ Cardinality(ToSet(s)) = Len(s) /\ Len(s) \in Nat
      BY <2>1, ElementsOf, ListCounts
    <2> HIDE DEF s
    <2>3. Cardinality(ToSet(s)) <= 3
      BY <1>1, <2>2, FS_Subset
    <2>4. Len(s) <= 3
      BY <2>2, <2>3
    <2>5. Len(s) <= 21
      BY <2>2, <2>4
    <2> QED  BY <2>5 DEF s
  <1> QED  BY <1>2, <1>3

(* What the retrievers agree on comes first, as far as n goes: the case of *)
(* FusionOrdered, AgreementLeads and TopCounts that the runs look at.      *)
THEOREM FusionSound == Spec => []FusionAgrees
  <1>1. FusionKeepsOrder
    <2> SUFFICES ASSUME NEW lists \in Lists(1..3), NEW x \in Found(lists), NEW y \in Found(lists),
                        x # y, \A r \in Retrievers : InList(lists[r], y) =>
                           InList(lists[r], x) /\ Rank(lists[r], x) < Rank(lists[r], y)
                 PROVE  /\ Before(lists, x, y)
                        /\ \A n \in 1..3 : y \in Top(lists, n) => x \in Top(lists, n)
      BY DEF FusionKeepsOrder
    <2>1. Before(lists, x, y) /\ \A n \in Nat : y \in Top(lists, n) => x \in Top(lists, n)
      BY ListsAreRankLists, FusionOrdered
    <2> QED  BY <2>1
  <1>2. AgreementWins
    <2> SUFFICES ASSUME NEW lists \in Lists(1..3)
                 PROVE  /\ \A x, y \in Found(lists) :
                             /\ Cardinality({r \in Retrievers : InList(lists[r], x)}) > 1
                             /\ Cardinality({r \in Retrievers : InList(lists[r], y)}) = 1
                             => Before(lists, x, y)
                        /\ \A n \in 1..3 : Cardinality(Top(lists, n)) =
                             (IF Cardinality(Found(lists)) < n
                              THEN Cardinality(Found(lists)) ELSE n)
      BY DEF AgreementWins
    <2>1. \A x, y : Cardinality(Via(lists, x)) > 1 /\ Cardinality(Via(lists, y)) = 1
                      => Before(lists, x, y)
      BY ListsAreRankLists, AgreementLeads
    <2>2. \A n \in Nat : Cardinality(Top(lists, n)) =
             (IF Cardinality(Found(lists)) < n THEN Cardinality(Found(lists)) ELSE n)
      BY ListsAreRankLists, TopCounts
    <2> QED  BY <2>1, <2>2 DEF Via
  <1>3. FusionAgrees
    BY <1>1, <1>2 DEF FusionAgrees
  <1> QED  BY <1>3, PTL

(* The chunks of a text hold all of it, and none is longer than its words  *)
(* were counted: the case of NothingLost and PiecesBounded                 *)
(* (_recursive_split, _hard_split) that the runs look at.                  *)
THEOREM CutAlways == Spec => []CutSound
  <1>1. NoWordLost
    BY TextsOfAre, NothingLost DEF NoWordLost
  <1>2. ChunksBounded
    BY TextsOfAre, PiecesBounded DEF ChunksBounded
  <1>3. CutSound
    BY <1>1, <1>2 DEF CutSound
  <1> QED  BY <1>3, PTL

=============================================================================
