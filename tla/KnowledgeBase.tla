--------------------------- MODULE KnowledgeBase ---------------------------
(***************************************************************************)
(* The knowledge base of the API: documents in a row of kb_documents, in   *)
(* chunks of a persistent collection, and in indexes in memory (BM25 and   *)
(* entities), which are rebuilt from the collections.  Uploads are         *)
(* ingested in background tasks; deletions and searches run between their  *)
(* awaits.  A restart loses the tasks and the memory, may follow a run of  *)
(* the seed script, and fills in rows from what is stored.  (Beside a live *)
(* API the script would change the collections under its indexes.)         *)
(*                                                                         *)
(* A document stands for its chunks: they are added, deleted and indexed   *)
(* together.                                                               *)
(***************************************************************************)
EXTENDS RankFusion, Chunking

CONSTANTS
  Uploads,      \* documents that are uploaded: collection kb_collection
  Seeds,        \* documents that the seed script writes: collection fin_support
  Installed,    \* the one that is there at first
  Files,        \* file names
  Name,         \* the file name of a document
  Listed,       \* kb_collections of the tenant, in their order
  N,            \* n_results
  MaxFaults,    \* bound: failed writes, embeddings and rebuilds
  MaxRestarts   \* bound: restarts of the API

Docs == Uploads \cup Seeds
Where(d) == IF d \in Uploads THEN "kb" ELSE "fin"

ASSUME KbConstants ==
  /\ Installed \subseteq Seeds /\ IsFiniteSet(Installed) /\ Cardinality(Installed) <= 1
  /\ Uploads \cap Seeds = {}
  /\ Name \in [Docs -> Files]
  /\ Listed \in Seq({"kb", "fin"}) /\ Listed # <<>>
  /\ N \in Nat \ {0} /\ MaxFaults \in Nat /\ MaxRestarts \in Nat

VARIABLES
  row,       \* kb_documents: status and chunk_count
  job,       \* the background task of an upload
  del,       \* the deletions
  chunks,    \* what the collections hold
  index,     \* what the indexes in memory hold
  search,    \* a search: the collections to be asked, from the one that is, and dense hits
  found,     \* what the last search answered
  was, kept, \* history: stored at some time, and all the time, of the search
  faults, restarts

asked == <<search, found>>
bounds == <<faults, restarts>>
vars == <<row, job, del, chunks, index, search, found, was, kept, faults, restarts>>

Absent == [st |-> "none", cc |-> 0]
NoSearch == [on |-> FALSE, cols |-> <<>>, dense |-> <<>>]
Nothing == [docs |-> {}, led |-> FALSE, fits |-> FALSE]

KbTypeOK ==
  /\ row \in [Docs -> [st : {"none", "processing", "ready", "error"}, cc : 0..1]]
  /\ job \in [Uploads -> {"new", "accepted", "queued", "embedding", "stored",
                          "empty", "failed", "unmarked", "dropped", "over"}]
  /\ del \in [Docs -> {"no", "cut", "failed"}]
  /\ chunks \subseteq Docs /\ index \subseteq Docs
  /\ search.on \in BOOLEAN
  /\ search.cols \in Seq({"kb", "fin"}) /\ search.dense \in Seq(Docs)
  /\ IsInjective(search.dense)
  /\ found \in [docs : SUBSET Docs, led : BOOLEAN, fits : BOOLEAN]
  /\ Cardinality(found.docs) <= N
  /\ was \subseteq Docs /\ kept \subseteq was
  /\ faults \in 0..MaxFaults /\ restarts \in 0..MaxRestarts

Init ==
  /\ row = [d \in Docs |-> IF d \in Installed THEN [st |-> "ready", cc |-> 1]
                           ELSE Absent]
  /\ job = [d \in Uploads |-> "new"]
  /\ del = [d \in Docs |-> "no"]
  /\ chunks = Installed /\ index = Installed
  /\ search = NoSearch /\ found = Nothing /\ was = {} /\ kept = {}
  /\ faults = 0 /\ restarts = 0

Fault == faults < MaxFaults /\ faults' = faults + 1 /\ UNCHANGED restarts

(* What a search under way could have seen. *)
Watch == /\ was' = IF search.on THEN was \cup chunks' ELSE was
         /\ kept' = IF search.on THEN kept \cap chunks' ELSE kept

(* Variant: the indexes are rebuilt before the collection changes. *)
RebuildFirst == index' = chunks /\ UNCHANGED bounds
(* _rebuild_indexes reads every collection; when that fails, the indexes   *)
(* stay.                                                                   *)
Rebuild == \/ index' = chunks' /\ UNCHANGED bounds
           \/ UNCHANGED index /\ Fault

-----------------------------------------------------------------------------
(* Uploads.                                                                *)

(* _accept_file: the row first, then the task, which waits for the answer. *)
Upload(d) ==
  /\ job[d] = "new"
  /\ \/ /\ row' = [row EXCEPT ![d] = [st |-> "processing", cc |-> 0]]
        /\ job' = [job EXCEPT ![d] = "accepted"]
        /\ UNCHANGED bounds
     \/ UNCHANGED row /\ job' = [job EXCEPT ![d] = "over"] /\ Fault
  /\ UNCHANGED <<del, chunks, index, asked, was, kept>>

(* The request answers, and its tasks run.  upload_batch answers when all  *)
(* its files are accepted: for one of a wrong type, one too large or one   *)
(* without a row it raises, and the tasks of the files before it are       *)
(* dropped with the answer, while their rows stay.                         *)
Reply(d) ==
  /\ job[d] = "accepted"
  /\ \E next \in {"queued", "dropped"} : job' = [job EXCEPT ![d] = next]
  /\ UNCHANGED <<row, del, chunks, index, asked, was, kept, bounds>>

(* ingest_document up to its await: the file may have no text, or be       *)
(* unreadable.                                                             *)
Parse(d) ==
  /\ job[d] = "queued"
  /\ \E next \in {"embedding", "empty", "failed"} :
       job' = [job EXCEPT ![d] = next]
  /\ UNCHANGED <<row, del, chunks, index, asked, was, kept, bounds>>

(* The chunks are added and indexed. *)
Store(d) ==
  /\ job[d] = "embedding"
  /\ job' = [job EXCEPT ![d] = "stored"]
  /\ chunks' = chunks \cup {d}
  /\ Rebuild
  /\ Watch
  /\ UNCHANGED <<row, del, asked>>

EmbedFails(d) ==
  /\ job[d] = "embedding"
  /\ Fault
  /\ job' = [job EXCEPT ![d] = "failed"]
  /\ UNCHANGED <<row, del, chunks, index, asked, was, kept>>

(* An UPDATE of a row that is gone changes nothing. *)
Marked(d, r) == IF row[d].st = "none" THEN row ELSE [row EXCEPT ![d] = r]

(* Variant: the row is ready before the chunks are. *)
SettlesEarly(d) == {"embedding", "stored", "empty"}
Settles(d) == {"stored", "empty"}

MarkReady(d) ==
  /\ job[d] \in Settles(d)
  /\ \/ /\ row' = Marked(d, [st |-> "ready", cc |-> IF job[d] = "empty" THEN 0 ELSE 1])
        /\ job' = [job EXCEPT ![d] = "over"]
        /\ UNCHANGED bounds
     \/ UNCHANGED row /\ job' = [job EXCEPT ![d] = "failed"] /\ Fault
  /\ UNCHANGED <<del, chunks, index, asked, was, kept>>

(* Variant: a failure is logged only. *)
ErrorLogged(d) == row
Errors(d) == Marked(d, [row[d] EXCEPT !.st = "error"])

MarkError(d) ==
  /\ job[d] = "failed"
  /\ \/ /\ row' = Errors(d)
        /\ job' = [job EXCEPT ![d] = "over"]
        /\ UNCHANGED bounds
     \/ UNCHANGED row /\ job' = [job EXCEPT ![d] = "unmarked"] /\ Fault
  /\ UNCHANGED <<del, chunks, index, asked, was, kept>>

-----------------------------------------------------------------------------
(* Deletions.                                                              *)

(* delete_document of the manager, for a document that is listed: chunks   *)
(* and indexes, in one go.                                                 *)
Cut(d) ==
  /\ row[d].st # "none" /\ del[d] # "cut"
  /\ del' = [del EXCEPT ![d] = "cut"]
  /\ chunks' = chunks \ {d}
  /\ Rebuild
  /\ Watch
  /\ UNCHANGED <<row, job, asked>>

(* The row follows in a transaction of its own. *)
DeleteRow(d) ==
  /\ del[d] = "cut"
  /\ \/ /\ row' = [row EXCEPT ![d] = Absent]
        /\ del' = [del EXCEPT ![d] = "no"]
        /\ UNCHANGED bounds
     \/ UNCHANGED row /\ del' = [del EXCEPT ![d] = "failed"] /\ Fault
  /\ UNCHANGED <<job, chunks, index, asked, was, kept>>

RebuildIndex ==
  /\ index # chunks
  /\ UNCHANGED chunks
  /\ Rebuild
  /\ UNCHANGED <<row, job, del, asked, was, kept>>

-----------------------------------------------------------------------------
(* Searches.                                                               *)

Held(col) == {d \in chunks : Where(d) = col}

(* Variant: the search ends at an empty collection. *)
LeftUpTo(cols) == IF cols = <<>> \/ Held(Head(cols)) = {} THEN <<>> ELSE cols
(* Empty collections are passed over, up to the first that is not. *)
Left(cols) ==
  LET i == SelectInSeq(cols, LAMBDA c : Held(c) # {})
  IN IF i = 0 THEN <<>> ELSE SubSeq(cols, i, Len(cols))

(* fetch_n: every retriever gives more than is answered. *)
Fetched == 3 * N
Hits(S) == {s \in SetToAllKPermutations(S) : Len(s) <= Fetched}

(* A hit that is there already is not added again. *)
Merged(dense, hits) ==
  Loop(Len(hits), dense,
       LAMBDA merged, i : IF InList(merged, hits[i]) THEN merged
                          ELSE Append(merged, hits[i]))

(* The other retrievers, over the indexes of all collections, and the      *)
(* fusion: there is no await in between.                                   *)
Answered(dense) ==
  \E bm25 \in Hits(index), entity \in Hits(index) :
    LET lists == [dense |-> dense, bm25 |-> bm25, entity |-> entity]
        first == Top(lists, 1)
    IN found' = [docs |-> Top(lists, N),
                 led |-> \E x \in first : Leads(lists, x),
                 fits |-> \E x \in first : Surfaces(Score(lists, x))]

(* The embedding of the query is awaited for the first collection with     *)
(* anything in it; without one there is nothing to await.                  *)
Ask ==
  /\ ~search.on
  /\ \/ /\ Left(Listed) # <<>>
        /\ search' = [on |-> TRUE, cols |-> Left(Listed), dense |-> <<>>]
        /\ found' = Nothing
     \/ /\ Left(Listed) = <<>>
        /\ UNCHANGED search
        /\ Answered(<<>>)
  /\ was' = chunks /\ kept' = chunks
  /\ UNCHANGED <<row, job, del, chunks, index, bounds>>

Asked == Held(Head(search.cols))

(* The embedding came back, and as many hits as are fetched, or all; or    *)
(* the embedding or the query failed.                                      *)
Dense ==
  {s \in Hits(Asked) : Len(s) = Fetched \/ ToSet(s) = Asked}
    \cup (IF faults < MaxFaults THEN {<<>>} ELSE {})

Faulty(hits) == IF hits = <<>> /\ Asked # {} THEN Fault ELSE UNCHANGED bounds

Rest == Left(Tail(search.cols))

(* The embedding for the next collection with anything in it is awaited.   *)
AskNext ==
  /\ search.on /\ Rest # <<>>
  /\ \E hits \in Dense :
       /\ search' = [search EXCEPT !.cols = Rest, !.dense = Merged(@, hits)]
       /\ Faulty(hits)
  /\ UNCHANGED <<row, job, del, chunks, index, found, was, kept>>

(* That was the last one. *)
Answer ==
  /\ search.on /\ Rest = <<>>
  /\ \E hits \in Dense :
       /\ Answered(Merged(search.dense, hits))
       /\ Faulty(hits)
  /\ search' = NoSearch
  /\ UNCHANGED <<row, job, del, chunks, index, was, kept>>

-----------------------------------------------------------------------------
(* Restarts.                                                               *)

FileOf(S) == {Name[d] : d \in S}
Rows == {d \in Docs : row[d].st # "none"}

(* Variant: of kb_collection only. *)
MissingUploads(stored) == FileOf(stored \cap Uploads) \ FileOf(Rows)
(* The names of what is stored and has no row. *)
Missing(stored) == FileOf(stored) \ FileOf(Rows)

(* One document of each such name, of kb_collection if it is there. *)
Backfills(stored) ==
  {S \in SUBSET stored :
     /\ FileOf(S) = Missing(stored)
     /\ \A d \in S : \A e \in stored \ {d} :
          Name[d] = Name[e] => e \notin S /\ (Where(e) = "kb" => Where(d) = "kb")}

(* The seed script clears fin_support and writes new documents there. *)
Reseeded == {chunks} \cup {(chunks \ Seeds) \cup {s} : s \in Seeds \ (chunks \cup Rows)}

Restart ==
  /\ restarts < MaxRestarts
  /\ restarts' = restarts + 1
  /\ job' = [d \in Uploads |-> IF job[d] = "new" THEN "new" ELSE "over"]
  /\ del' = [d \in Docs |-> IF del[d] = "cut" THEN "failed" ELSE del[d]]
  /\ chunks' \in Reseeded
  /\ index' = chunks'
  /\ \/ \E S \in Backfills(chunks') :
          /\ row' = [d \in Docs |-> IF d \in S THEN [st |-> "ready", cc |-> 1] ELSE row[d]]
          /\ UNCHANGED faults
     \/ UNCHANGED row /\ faults < MaxFaults /\ faults' = faults + 1
  /\ search' = NoSearch /\ found' = Nothing /\ was' = {} /\ kept' = {}

-----------------------------------------------------------------------------
Ingest(d) ==
  \/ Reply(d)
  \/ Parse(d) \/ Store(d) \/ EmbedFails(d)
  \/ MarkReady(d) \/ MarkError(d)
Search == AskNext \/ Answer

Next ==
  \/ \E d \in Uploads : Upload(d) \/ Ingest(d)
  \/ \E d \in Docs : Cut(d) \/ DeleteRow(d)
  \/ RebuildIndex \/ Ask \/ Search \/ Restart

Spec == Init /\ [][Next]_vars

(* Requests and background tasks run on. *)
FairSpec == Spec /\ \A d \in Uploads : WF_vars(Ingest(d))

-----------------------------------------------------------------------------
(* Properties.                                                             *)

(* While documents are added, deleted and indexed between the awaits of a  *)
(* search, it answers only what was stored at some time since it was       *)
(* asked, unless an index could not be rebuilt.                            *)
AnswersWereStored == faults = 0 /\ ~search.on => found.docs \subseteq was

(* A document of the tenant's collections that was there all the time is   *)
(* found, unless N others are.                                             *)
KeptIsFound ==
  faults = 0 /\ ~search.on =>
    \A d \in kept : \/ d \in found.docs
                    \/ ~InList(Listed, Where(d))
                    \/ Cardinality(found.docs) = N

(* A search neither answers what is gone nor misses what is there.         *)
SearchSound == AnswersWereStored /\ KeptIsFound

(* An upload that is shown as ready with chunks has them, unless a         *)
(* deletion of it is half done.                                            *)
ReadyHasChunks ==
  \A d \in Uploads : row[d] = [st |-> "ready", cc |-> 1] /\ del[d] = "no" => d \in chunks

(* After a restart every file that is stored is listed, so that it can be  *)
(* deleted, whichever of several documents of its name that is.            *)
ListedAfterRestart ==
  [][restarts' # restarts /\ faults' = faults
     => FileOf(chunks') \subseteq FileOf({d \in Docs : row'[d].st # "none"})]_vars

(* No upload is "processing" for ever, whatever failed, unless what failed *)
(* was to write just that down, the API went down, or the upload was part  *)
(* of a batch that was refused for another file.                           *)
UploadsSettle ==
  \A d \in Uploads :
    row[d].st = "processing"
      ~> row[d].st # "processing" \/ restarts > 0 \/ job[d] \in {"unmarked", "dropped"}

Lists(S) == [Retrievers -> SetToAllKPermutations(S)]

(* A hit that is ahead of another in every list that has the other is      *)
(* ahead of it in the fusion, and the first n are answered, for all lists  *)
(* of three.                                                               *)
FusionKeepsOrder ==
  \A lists \in Lists(1..3) : \A x, y \in Found(lists) :
    (x # y /\ \A r \in Retrievers : InList(lists[r], y) =>
                InList(lists[r], x) /\ Rank(lists[r], x) < Rank(lists[r], y))
    => /\ Before(lists, x, y)
       /\ \A n \in 1..3 : y \in Top(lists, n) => x \in Top(lists, n)

(* What two retrievers found is ahead of what one found, however the       *)
(* entities weigh; and n hits are answered if there are so many.           *)
AgreementWins ==
  \A lists \in Lists(1..3) :
    LET via(x) == Cardinality({r \in Retrievers : InList(lists[r], x)})
    IN /\ \A x, y \in Found(lists) : via(x) > 1 /\ via(y) = 1 => Before(lists, x, y)
       /\ \A n \in 1..3 : Cardinality(Top(lists, n)) =
            (IF Cardinality(Found(lists)) < n THEN Cardinality(Found(lists)) ELSE n)

(* What the retrievers agree on comes first, as far as n goes.  It is      *)
(* about lists, whatever the state, so that one state is enough.           *)
FusionAgrees == Init => FusionKeepsOrder /\ AgreementWins

(* The chunks of a text hold all of it, in its order, and one that encodes *)
(* to more than the limit was counted word by word and not encoded again   *)
(* (document_parser.py, _recursive_split, _hard_split).  It is about       *)
(* texts, whatever the state, so that one state is enough.                 *)
CutSound == Init => NoWordLost /\ ChunksBounded

-----------------------------------------------------------------------------
(* What the repository says and the code refutes.                          *)

(* "Base minimum RRF relevance score to surface an answer"                 *)
(* (faq_capability.py:31): a hit that leads all three lists surfaces.      *)
LeaderSurfaces == found.led => found.fits

(* "If a section exceeds CHUNK_TOKENS it is split further"                 *)
(* (document_parser.py:98): no chunk of several words exceeds the limit.   *)
SectionsFit == Init => SeveralWordsFit

=============================================================================
