------------------------------ MODULE Chunking ------------------------------
(***************************************************************************)
(* How a document is cut into chunks of at most ChunkTokens tokens.  A     *)
(* text is a sequence of words, each with its place, the tokens of the word *)
(* alone, those it adds behind another one together with the separator     *)
(* between them, and that separator; separators are numbered from the      *)
(* coarsest, and a longer run of line ends contains the shorter ones.      *)
(***************************************************************************)
EXTENDS Naturals, Sequences, SequencesExt

CONSTANTS
  ChunkTokens,  \* CHUNK_TOKENS
  Newlines,     \* separators 1..Newlines are runs of line ends
  Separators,   \* the last one is the blank
  MaxWords      \* bound: of a text that is looked at

ASSUME ChunkingConstants ==
  /\ ChunkTokens \in Nat \ {0} /\ MaxWords \in Nat
  /\ Newlines \in Nat /\ Separators \in Nat

(* for i in 1..n. *)
Loop(n, start, step(_, _)) ==
  LET after[i \in 0..n] == IF i = 0 THEN start ELSE step(after[i - 1], i)
  IN after[n]

(* The last text goes on. *)
Extended(cut, text) == Append(Front(cut), Last(cut) \o text)

(* str.split(sep): an empty part is dropped.                               *)
Cuts(sep, before) == before = sep \/ (sep <= Newlines /\ before < sep)

(* The tokens of a text some of whose words are encoded on their own.  The *)
(* splits count so while they collect what they have cut; what they join   *)
(* again may have more tokens, or fewer.                                   *)
Count(text, Alone(_)) ==
  Loop(Len(text), 0, LAMBDA n, i :
         n + IF i = 1 \/ Alone(text[i]) THEN text[i].tokens ELSE text[i].joined)

Encoded(text) == Count(text, LAMBDA w : FALSE)
ByParts(text, sep) == Count(text, LAMBDA w : Cuts(sep, w.before))
ByWords(text) == Count(text, LAMBDA w : TRUE)

Fits(text) == Encoded(text) <= ChunkTokens

WithWord(parts, w, sep) ==
  IF parts = <<>> \/ Cuts(sep, w.before) THEN Append(parts, <<w>>)
  ELSE Extended(parts, <<w>>)

Parts(text, sep) ==
  Loop(Len(text), <<>>, LAMBDA parts, i : WithWord(parts, text[i], sep))

(* Variant: a chunk is closed after the word that does not fit. *)
FilledLate(cut, w) ==
  IF cut = <<>> \/ ByWords(Last(cut)) > ChunkTokens THEN Append(cut, <<w>>)
  ELSE Extended(cut, <<w>>)
Filled(cut, w) ==
  IF cut = <<>> \/ ByWords(Last(cut)) + w.tokens > ChunkTokens THEN Append(cut, <<w>>)
  ELSE Extended(cut, <<w>>)

(* _hard_split: word by word.  What is joined is not encoded again. *)
HardSplit(text) == Loop(Len(text), <<>>, LAMBDA cut, i : Filled(cut, text[i]))

(* Variant: the part that does not fit is left out. *)
WithoutPart(cut, parts, i, sep, overlap) ==
  IF cut = <<>> THEN <<parts[i]>>
  ELSE IF ByParts(Last(cut), sep) + Encoded(parts[i]) > ChunkTokens
  THEN Append(cut, IF overlap THEN parts[i - 1] ELSE parts[i])
  ELSE Extended(cut, parts[i])
WithPart(cut, parts, i, sep, overlap) ==
  IF cut = <<>> THEN <<parts[i]>>
  ELSE IF ByParts(Last(cut), sep) + Encoded(parts[i]) > ChunkTokens
  THEN Append(cut, IF overlap THEN parts[i - 1] \o parts[i] ELSE parts[i])
  ELSE Extended(cut, parts[i])

(* Consecutive parts are joined while their counts fit; with overlap, the  *)
(* next text starts with the part before, and takes one more even if that  *)
(* is too much.                                                            *)
Packed(parts, sep, overlap) ==
  Loop(Len(parts), <<>>, LAMBDA cut, i : WithPart(cut, parts, i, sep, overlap))

Finer(text, sep, overlap) ==
  IF Fits(text) THEN <<text>> ELSE Packed(Parts(text, sep), sep, overlap)

Whole(text) == IF Fits(text) THEN <<text>> ELSE HardSplit(text)

Each(op(_), texts) == FlattenSeq([i \in 1..Len(texts) |-> op(texts[i])])

Level(texts, sep, overlap) == Each(LAMBDA text : Finer(text, sep, overlap), texts)

(* _recursive_split, with overlap or without: what is too long is cut at    *)
(* the next separator, and what still is after the last one, word by word. *)
Split(text, overlap) ==
  Each(Whole, Loop(Separators, <<text>>, LAMBDA texts, sep : Level(texts, sep, overlap)))

-----------------------------------------------------------------------------
(* Texts of up to n words, each with its place.  A blank merges with the    *)
(* word behind it, or has a token of its own.                              *)
Words ==
  [tokens : {1}, joined : {1, 2}, before : 1..Separators] \cup
  [tokens : {2, ChunkTokens + 1}, joined : {1}, before : 1..Separators]

TextsOf(n) ==
  UNION {{[i \in 1..m |-> [at |-> i, tokens |-> w[i].tokens, joined |-> w[i].joined,
                           before |-> w[i].before]] :
            w \in [1..m -> Words]} : m \in 1..n}

End(chunk) == chunk[Len(chunk)].at

(* Chunks are runs of the text that leave no gap and no word out.          *)
Covers(cut, text, overlap) ==
  /\ \A word \in ToSet(text) : \E chunk \in ToSet(cut) : word \in ToSet(chunk)
  /\ \A i \in 1..Len(cut) : \A j \in 1..(Len(cut[i]) - 1) :
       cut[i][j + 1].at = cut[i][j].at + 1
  /\ \A i \in 1..(Len(cut) - 1) :
       /\ cut[i + 1][1].at <= End(cut[i]) + 1
       /\ ~overlap => cut[i + 1][1].at = End(cut[i]) + 1

(* However a text is cut, no word of it is lost, the chunks keep its order *)
(* and without overlap nothing is there twice.  (With it, a part too long  *)
(* for a chunk is cut up twice.)                                           *)
NoWordLost ==
  \A text \in TextsOf(MaxWords), overlap \in BOOLEAN :
    Covers(Split(text, overlap), text, overlap)

(* A chunk that encodes to more than the limit is a single word, or was    *)
(* put together word by word, and then its words counted one by one are    *)
(* within the limit.                                                       *)
Bounded(chunk) ==
  Fits(chunk) \/ ByWords(chunk) <= ChunkTokens \/ Len(chunk) = 1

ChunksBounded ==
  \A text \in TextsOf(MaxWords), overlap \in BOOLEAN :
    \A chunk \in ToSet(Split(text, overlap)) : Bounded(chunk)

(* Not so: a chunk of several words may exceed the limit.                  *)
SeveralWordsFit ==
  \A text \in TextsOf(MaxWords), overlap \in BOOLEAN :
    \A chunk \in ToSet(Split(text, overlap)) : Fits(chunk) \/ Len(chunk) = 1

=============================================================================
