-------------------------- MODULE RetrievalProofs --------------------------
(***************************************************************************)
(* Proofs about Chunking and RankFusion, for texts and lists of any        *)
(* length.  The chunks of a text are runs of it that follow one another,   *)
(* through every loop of the cutting.  The fusion gives every hit a place  *)
(* of its own, since Before is a strict order of finitely many.  Induction *)
(* is over sets of numbers, from the least of those left out.              *)
(***************************************************************************)
EXTENDS RankFusion, Chunking, FiniteSetTheorems,
        SequenceTheorems, WellFoundedInduction, TLAPS

(* A set of numbers that is not empty has a least one. *)
LEMMA LeastNumber ==
  ASSUME NEW T \in SUBSET Nat, T # {}
  PROVE  \E n \in T : \A m \in T : n <= m
  <1> DEFINE R == OpToRel(<, Nat)
  <1>1. \E n \in T : \A m \in T : <<m, n>> \notin R
    <2>1. IsWellFoundedOn(R, Nat)
      BY NatLessThanWellFounded
    <2> HIDE DEF R
    <2> QED  BY <2>1, WFMin
  <1>2. PICK n \in T : \A m \in T : <<m, n>> \notin R
    BY <1>1
  <1>3. \A m \in T : ~(m < n)
    BY <1>2 DEF OpToRel
  <1> QED  BY <1>3

(* Induction over numbers, for a set of them. *)
LEMMA AllNumbers ==
  ASSUME NEW S, 0 \in S, \A n \in Nat : n \in S => n + 1 \in S
  PROVE  Nat \subseteq S
  <1> SUFFICES ASSUME Nat \ S # {} PROVE FALSE
    OBVIOUS
  <1>1. PICK n \in Nat \ S : \A m \in Nat \ S : n <= m
    BY LeastNumber
  <1>2. n # 0 /\ n - 1 \in Nat
    BY <1>1
  <1>3. n - 1 \in S
    BY <1>1, <1>2
  <1> QED  BY <1>1, <1>2, <1>3

-----------------------------------------------------------------------------
(* Loops.                                                                  *)

(* What holds at first and is kept by every turn holds at the end: good[i] *)
(* is the set of the values that are good after i turns.                   *)
LEMMA LoopStays ==
  ASSUME NEW n \in Nat, NEW good, NEW run, run[0] \in good[0],
         \A i \in 1..n : run[i - 1] \in good[i - 1] => run[i] \in good[i]
  PROVE  \A i \in 0..n : run[i] \in good[i]
  <1> DEFINE S == {k \in Nat : k <= n => run[k] \in good[k]}
  <1>1. 0 \in S
    OBVIOUS
  <1>2. ASSUME NEW k \in Nat, k \in S PROVE k + 1 \in S
    <2> SUFFICES ASSUME k + 1 <= n PROVE run[k + 1] \in good[k + 1]
      OBVIOUS
    <2>1. k + 1 \in 1..n /\ (k + 1) - 1 = k /\ run[k] \in good[k]
      BY <1>2
    <2> QED  BY <2>1
  <1> HIDE DEF S
  <1>3. Nat \subseteq S
    BY <1>1, <1>2, AllNumbers
  <1> QED  BY <1>3 DEF S

Runs(run, n, good, start, step) ==
  /\ run = [i \in 0..n |-> run[i]] /\ run[0] = start
  /\ \A i \in 1..n : run[i] = step[<<i, run[i - 1]>>]
  /\ \A i \in 0..n : run[i] \in good[i]

(* A loop whose step is a function runs to its end.                        *)
LEMMA LoopRuns ==
  ASSUME NEW n \in Nat, NEW good, NEW start \in good[0], NEW step,
         \A i \in 1..n : \A x \in good[i - 1] : step[<<i, x>>] \in good[i]
  PROVE  \E run : Runs(run, n, good, start, step)
  <1> DEFINE Upto(m, k) == /\ m = [i \in 0..k |-> m[i]] /\ m[0] = start
                           /\ \A i \in 1..k : m[i] = step[<<i, m[i - 1]>>]
             S == {k \in Nat : k <= n => \E m : Upto(m, k)}
  <1>1. 0 \in S
    <2> DEFINE m == [i \in 0..0 |-> start]
    <2>1. Upto(m, 0)
      OBVIOUS
    <2> HIDE DEF Upto, m
    <2> QED  BY <2>1
  <1>2. ASSUME NEW k \in Nat, k \in S PROVE k + 1 \in S
    <2> SUFFICES ASSUME k + 1 <= n PROVE \E m : Upto(m, k + 1)
      <3> HIDE DEF Upto
      <3> QED  OBVIOUS
    <2>1. PICK f : Upto(f, k)
      <3>1. k <= n
        OBVIOUS
      <3> HIDE DEF Upto
      <3> QED  BY <1>2, <3>1
    <2> DEFINE last == step[<<k + 1, f[k]>>]
               g == [i \in 0..(k + 1) |-> IF i = k + 1 THEN last ELSE f[i]]
    <2>2. g = [i \in 0..(k + 1) |-> g[i]] /\ g[0] = start
      <3> HIDE DEF last
      <3> QED  BY <2>1
    <2>3. ASSUME NEW i \in 1..(k + 1) PROVE g[i] = step[<<i, g[i - 1]>>]
      <3>1. i - 1 \in 0..k /\ g[i - 1] = f[i - 1]
        BY <2>3
      <3>2. CASE i = k + 1
        <4>1. g[i] = last /\ i - 1 = k
          BY <3>2
        <4> HIDE DEF g
        <4> QED  BY <3>1, <3>2, <4>1
      <3>3. CASE i # k + 1
        <4>1. i \in 1..k /\ g[i] = f[i]
          BY <3>3
        <4> QED  BY <2>1, <3>1, <4>1
      <3> QED  BY <3>2, <3>3
    <2>4. Upto(g, k + 1)
      <3> HIDE DEF g
      <3> QED  BY <2>2, <2>3
    <2> HIDE DEF Upto
    <2> QED  BY <2>4
  <1>3. n \in S
    <2> HIDE DEF S
    <2> QED  BY <1>1, <1>2, AllNumbers
  <1>4. PICK run : Upto(run, n)
    BY <1>3
  <1>5. \A i \in 0..n : run[i] \in good[i]
    <2>1. \A i \in 1..n : run[i - 1] \in good[i - 1] => run[i] \in good[i]
      BY <1>4
    <2>2. run[0] \in good[0]
      BY <1>4
    <2> QED  BY <2>1, <2>2, LoopStays
  <1> QED  BY <1>4, <1>5 DEF Runs

-----------------------------------------------------------------------------
(* Tokens of words that are counted one by one.                            *)

Word == [at : Nat, tokens : Nat, joined : Nat, before : Nat]

Sums(run, text) ==
  /\ run[0] = 0 /\ ByWords(text) = run[Len(text)]
  /\ \A i \in 0..Len(text) : run[i] \in Nat
  /\ \A i \in 1..Len(text) : run[i] = run[i - 1] + text[i].tokens

LEMMA TokensRun ==
  ASSUME NEW text \in Seq(Word)
  PROVE  \E run : Sums(run, text)
  <1> DEFINE n == Len(text)
             next(m, i) == m + (IF i = 1 \/ TRUE THEN text[i].tokens ELSE text[i].joined)
             Is(run) == run = [i \in 0..n |-> IF i = 0 THEN 0 ELSE next(run[i - 1], i)]
             step == [p \in (1..n) \X Nat |-> next(p[2], p[1])]
             good == [i \in 0..n |-> Nat]
             after == CHOOSE run : Is(run)
  <1>1. n \in Nat /\ 0 \in 0..n /\ \A i \in 1..n : i \in 0..n /\ i - 1 \in 0..n /\ i # 0
    OBVIOUS
  <1>2. ByWords(text) = after[n]
    BY DEF ByWords, Count, Loop
  <1>3. \A i \in 1..n, m \in Nat : next(m, i) \in Nat
    <2>1. \A i \in 1..n : text[i] \in Word
      OBVIOUS
    <2> QED  BY <2>1 DEF Word
  <1> HIDE DEF n, next
  <1>4. PICK run : Runs(run, n, good, 0, step)
    <2>1. 0 \in good[0] /\ \A i \in 1..n : \A m \in good[i - 1] : step[<<i, m>>] \in good[i]
      BY <1>1, <1>3
    <2> HIDE DEF good, step
    <2> QED  BY <1>1, <2>1, LoopRuns
  <1>5. Is(run)
    <2>1. \A i \in 1..n : run[i] = next(run[i - 1], i)
      BY <1>1, <1>4 DEF Runs
    <2>2. run = [i \in 0..n |-> run[i]] /\ run[0] = 0
      BY <1>4 DEF Runs
    <2>3. \A i \in 0..n : i = 0 \/ i \in 1..n
      BY <1>1
    <2> QED  BY <2>1, <2>2, <2>3
  <1>6. Is(after)
    <2> HIDE DEF Is
    <2> QED  BY <1>5
  <1> HIDE DEF after
  <1>7. after[0] = 0 /\ \A i \in 1..n : after[i] = next(after[i - 1], i)
    BY <1>1, <1>6
  <1>8. \A i \in 0..n : after[i] \in good[i]
    <2>1. after[0] \in good[0] /\ \A i \in 1..n : after[i - 1] \in good[i - 1] => after[i] \in good[i]
      BY <1>1, <1>3, <1>7
    <2> HIDE DEF good
    <2> QED  BY <1>1, <2>1, LoopStays
  <1> QED  BY <1>2, <1>7, <1>8 DEF Sums, n, next

(* They add up.                                                            *)
LEMMA TokensOf ==
  ASSUME NEW text \in Seq(Word), NEW w \in Word
  PROVE  ByWords(text) \in Nat /\ ByWords(Append(text, w)) = ByWords(text) + w.tokens
  <1> DEFINE longer == Append(text, w)
             n == Len(text)
  <1>1. /\ longer \in Seq(Word) /\ Len(longer) = n + 1 /\ n \in Nat
        /\ longer[n + 1] = w /\ \A i \in 1..n : longer[i] = text[i]
    OBVIOUS
  <1> HIDE DEF longer
  <1>2. PICK f : Sums(f, text)
    BY TokensRun
  <1>3. PICK g : Sums(g, longer)
    BY <1>1, TokensRun
  <1>4. g[n] = f[n]
    <2> DEFINE good == [i \in 0..n |-> {f[i]}]
    <2>1. g[0] \in good[0]
      BY <1>1, <1>2, <1>3 DEF Sums
    <2>2. ASSUME NEW i \in 1..n, g[i - 1] \in good[i - 1] PROVE g[i] \in good[i]
      <3>1. /\ i \in 0..n /\ i - 1 \in 0..n /\ i \in 1..Len(longer)
            /\ g[i - 1] = f[i - 1]
        BY <1>1, <2>2
      <3>2. g[i] = f[i]
        BY <1>1, <1>2, <1>3, <3>1 DEF Sums
      <3> QED  BY <3>1, <3>2
    <2>3. \A i \in 0..n : g[i] \in good[i]
      <3> HIDE DEF good, n
      <3> QED  BY <1>1, <2>1, <2>2, LoopStays
    <2> QED  BY <1>1, <2>3
  <1>5. n + 1 \in 1..Len(longer) /\ (n + 1) - 1 = n /\ n \in 0..Len(text)
    BY <1>1
  <1> QED  BY <1>1, <1>2, <1>3, <1>4, <1>5 DEF Sums, longer

-----------------------------------------------------------------------------
(* Runs of a text and chains of them.                                      *)

(* Every word has its place. *)
Texts == {text \in Seq(Word) : \A i \in 1..Len(text) : text[i].at = i}

From(chunk) == chunk[1].at

(* The words a to b of a text. *)
Run(text, chunk, a, b) ==
  /\ b \in 1..Len(text) /\ a \in 1..b
  /\ chunk \in Seq(Word) /\ Len(chunk) = b - a + 1
  /\ \A j \in 1..(b - a + 1) : chunk[j] = text[a + j - 1]

Follows(chunk, next, overlap) ==
  /\ From(next) <= End(chunk) + 1
  /\ ~overlap => From(next) = End(chunk) + 1

(* Runs that follow one another, from the word a to the word b. *)
Chain(text, cut, a, b, overlap) ==
  /\ cut \in Seq(Seq(Word)) /\ cut # <<>>
  /\ \A i \in 1..Len(cut) : Run(text, cut[i], From(cut[i]), End(cut[i]))
  /\ From(cut[1]) = a /\ End(cut[Len(cut)]) = b
  /\ \A i \in 1..(Len(cut) - 1) : Follows(cut[i], cut[i + 1], overlap)

LEMMA RunIs ==
  ASSUME NEW text \in Texts, NEW c, NEW a, NEW b, Run(text, c, a, b)
  PROVE  /\ c \in Seq(Word) /\ c # <<>> /\ Len(c) = b - a + 1
         /\ a \in Nat /\ b \in Nat /\ Len(text) \in Nat
         /\ From(c) = a /\ End(c) = b
         /\ \A j \in 1..Len(c) : c[j].at = a + j - 1
  <1>1. /\ c \in Seq(Word) /\ Len(c) = b - a + 1 /\ a \in Nat /\ b \in Nat /\ a <= b
        /\ Len(text) \in Nat /\ b <= Len(text) /\ a >= 1
    BY DEF Run, Texts
  <1>2. \A j \in 1..Len(c) : c[j].at = a + j - 1
    <2>1. \A j \in 1..Len(c) : a + j - 1 \in 1..Len(text)
      BY <1>1
    <2> QED  BY <1>1, <2>1 DEF Run, Texts
  <1>3. 1 \in 1..Len(c) /\ Len(c) \in 1..Len(c)
    BY <1>1
  <1>4. From(c) = a /\ End(c) = b
    <2>1. c[1].at = a + 1 - 1 /\ c[Len(c)].at = a + Len(c) - 1
      BY <1>2, <1>3
    <2> QED  BY <1>1, <2>1 DEF From, End
  <1>5. c # <<>>
    BY <1>1
  <1> QED  BY <1>1, <1>2, <1>4, <1>5

LEMMA RunJoins ==
  ASSUME NEW text \in Texts, NEW c, NEW d, NEW a, NEW b, NEW e,
         Run(text, c, a, b), Run(text, d, b + 1, e)
  PROVE  Run(text, c \o d, a, e)
  <1>1. /\ c \in Seq(Word) /\ d \in Seq(Word) /\ a \in Nat /\ b \in Nat /\ e \in Nat
        /\ a <= b /\ b + 1 <= e /\ e \in 1..Len(text) /\ a >= 1
        /\ Len(c) = b - a + 1 /\ Len(d) = e - b
    <2>1. /\ Len(text) \in Nat /\ b \in 1..Len(text) /\ a \in 1..b
          /\ e \in 1..Len(text) /\ b + 1 \in 1..e
          /\ Len(d) = e - (b + 1) + 1
      BY DEF Run, Texts
    <2> QED  BY <2>1 DEF Run
  <1>2. c \o d \in Seq(Word) /\ Len(c \o d) = e - a + 1
    BY <1>1
  <1>3. ASSUME NEW j \in 1..(e - a + 1) PROVE (c \o d)[j] = text[a + j - 1]
    <2>1. CASE j <= Len(c)
      <3>1. (c \o d)[j] = c[j] /\ j \in 1..(b - a + 1)
        BY <1>1, <1>3, <2>1
      <3> QED  BY <3>1 DEF Run
    <2>2. CASE j > Len(c)
      <3>1. (c \o d)[j] = d[j - Len(c)]
        BY <1>1, <1>3, <2>2
      <3>2. j - Len(c) \in 1..(e - (b + 1) + 1)
        BY <1>1, <1>3, <2>2
      <3>3. d[j - Len(c)] = text[(b + 1) + (j - Len(c)) - 1]
        BY <3>2 DEF Run
      <3>4. (b + 1) + (j - Len(c)) - 1 = a + j - 1
        BY <1>1, <1>3
      <3> QED  BY <3>1, <3>3, <3>4
    <2> QED  BY <1>1, <1>3, <2>1, <2>2
  <1>4. a \in 1..e
    BY <1>1
  <1> QED  BY <1>1, <1>2, <1>3, <1>4 DEF Run

LEMMA RunOfWord ==
  ASSUME NEW text \in Texts, NEW i \in 1..Len(text)
  PROVE  Run(text, <<text[i]>>, i, i)
  <1>1. text[i] \in Word /\ Len(text) \in Nat
    BY DEF Texts
  <1>2. <<text[i]>> \in Seq(Word) /\ Len(<<text[i]>>) = 1 /\ <<text[i]>>[1] = text[i]
    BY <1>1
  <1>3. i - i + 1 = 1 /\ i + 1 - 1 = i /\ i \in 1..i
    BY <1>1
  <1> QED  BY <1>1, <1>2, <1>3 DEF Run

LEMMA ChainOne ==
  ASSUME NEW text \in Texts, NEW c, NEW a, NEW b, Run(text, c, a, b), NEW overlap
  PROVE  Chain(text, <<c>>, a, b, overlap)
  <1>1. c \in Seq(Word) /\ From(c) = a /\ End(c) = b
    BY RunIs
  <1>2. /\ <<c>> \in Seq(Seq(Word)) /\ <<c>> # <<>> /\ Len(<<c>>) = 1 /\ <<c>>[1] = c
        /\ \A i \in 1..1 : i = 1
        /\ \A i \in 1..(1 - 1) : FALSE
    BY <1>1
  <1> HIDE DEF From
  <1> QED  BY <1>1, <1>2 DEF Chain

LEMMA ChainJoins ==
  ASSUME NEW text \in Texts, NEW overlap, NEW cut, NEW a, NEW b, Chain(text, cut, a, b, overlap),
         NEW more, NEW d, NEW e, Chain(text, more, d, e, overlap),
         d <= b + 1, ~overlap => d = b + 1
  PROVE  Chain(text, cut \o more, a, e, overlap)
  <1> DEFINE both == cut \o more
             m == Len(cut)
             n == Len(more)
  <1>1. /\ cut \in Seq(Seq(Word)) /\ more \in Seq(Seq(Word)) /\ m \in Nat /\ n \in Nat
        /\ m > 0 /\ n > 0
    BY DEF Chain
  <1>2. /\ both \in Seq(Seq(Word)) /\ both # <<>> /\ Len(both) = m + n
        /\ \A i \in 1..m : both[i] = cut[i]
        /\ \A i \in (m + 1)..(m + n) : both[i] = more[i - m]
    BY <1>1
  <1> HIDE DEF both
  <1>3. ASSUME NEW i \in 1..(m + n) PROVE Run(text, both[i], From(both[i]), End(both[i]))
    <2>1. CASE i \in 1..m
      BY <1>2, <2>1 DEF Chain
    <2>2. CASE i \in (m + 1)..(m + n)
      <3>1. i - m \in 1..n
        BY <1>1, <2>2
      <3> QED  BY <1>2, <2>2, <3>1 DEF Chain
    <2> QED  BY <1>1, <2>1, <2>2
  <1>4. From(both[1]) = a /\ End(both[m + n]) = e
    <2>1. 1 \in 1..m /\ m + n \in (m + 1)..(m + n) /\ (m + n) - m = n
      BY <1>1
    <2>2. both[1] = cut[1] /\ both[m + n] = more[n]
      BY <1>2, <2>1
    <2> QED  BY <2>2 DEF Chain
  <1>5. ASSUME NEW i \in 1..(m + n - 1) PROVE Follows(both[i], both[i + 1], overlap)
    <2>1. CASE i < m
      <3>1. both[i] = cut[i] /\ both[i + 1] = cut[i + 1] /\ i \in 1..(m - 1)
        BY <1>1, <1>2, <2>1
      <3> QED  BY <3>1 DEF Chain
    <2>2. CASE i = m
      <3>1. m \in 1..m /\ m + 1 \in (m + 1)..(m + n) /\ (m + 1) - m = 1
        BY <1>1
      <3>2. both[i] = cut[m] /\ both[i + 1] = more[1]
        BY <1>2, <2>2, <3>1
      <3> QED  BY <3>2 DEF Chain, Follows
    <2>3. CASE i > m
      <3>1. both[i] = more[i - m] /\ both[i + 1] = more[(i - m) + 1] /\ i - m \in 1..(n - 1)
        BY <1>1, <1>2, <2>3
      <3> QED  BY <3>1 DEF Chain
    <2> QED  BY <1>1, <2>1, <2>2, <2>3
  <1> HIDE DEF From, End, m, n
  <1>6. Chain(text, both, a, e, overlap)
    BY <1>1, <1>2, <1>3, <1>4, <1>5 DEF Chain
  <1> QED  BY <1>6 DEF both

LEMMA ExtendedIs ==
  ASSUME NEW S, NEW cut \in Seq(Seq(S)), cut # <<>>, NEW d \in Seq(S)
  PROVE  /\ Extended(cut, d) \in Seq(Seq(S)) /\ Extended(cut, d) # <<>>
         /\ Len(Extended(cut, d)) = Len(cut) /\ Len(cut) \in Nat \ {0}
         /\ \A i \in 1..(Len(cut) - 1) : Extended(cut, d)[i] = cut[i]
         /\ Extended(cut, d)[Len(cut)] = cut[Len(cut)] \o d
  <1> DEFINE n == Len(cut)
             f == Front(cut)
             l == cut[n] \o d
  <1>1. n \in Nat /\ n > 0 /\ cut[n] \in Seq(S)
    OBVIOUS
  <1>2. f \in Seq(Seq(S)) /\ Len(f) = n - 1 /\ \A i \in 1..(n - 1) : f[i] = cut[i]
    <2>1. f = SubSeq(cut, 1, n - 1) /\ \A i \in 1..(n - 1) : cut[i] \in Seq(S)
      BY DEF Front
    <2> HIDE DEF f, n
    <2>2. 1 \in Int /\ n - 1 \in Int
      BY <1>1
    <2> DEFINE k == n - 1
    <2> HIDE DEF k
    <2>3. /\ SubSeq(cut, 1, k) \in Seq(Seq(S))
          /\ Len(SubSeq(cut, 1, k)) = IF 1 <= k THEN k - 1 + 1 ELSE 0
          /\ \A i \in 1..(k - 1 + 1) : SubSeq(cut, 1, k)[i] = cut[1 + i - 1]
      BY <2>1, <2>2, SubSeqProperties DEF k
    <2> QED  BY <1>1, <2>1, <2>3 DEF k
  <1>3. l \in Seq(S)
    BY <1>1
  <1> HIDE DEF f, l
  <1>4. /\ Append(f, l) \in Seq(Seq(S)) /\ Len(Append(f, l)) = n
        /\ \A i \in 1..(n - 1) : Append(f, l)[i] = f[i]
        /\ Append(f, l)[n] = l
    BY <1>1, <1>2, <1>3
  <1>5. Extended(cut, d) = Append(f, l)
    BY DEF Extended, Last, f, l
  <1>6. Append(f, l) # <<>>
    BY <1>1, <1>4
  <1>7. Append(f, l)[n] = cut[n] \o d /\ \A i \in 1..(n - 1) : Append(f, l)[i] = cut[i]
    BY <1>2, <1>4 DEF l
  <1>8. n \in Nat \ {0}
    BY <1>1
  <1> HIDE DEF n
  <1>9. /\ Extended(cut, d) \in Seq(Seq(S)) /\ Extended(cut, d) # <<>>
        /\ Len(Extended(cut, d)) = n /\ n \in Nat \ {0}
        /\ \A i \in 1..(n - 1) : Extended(cut, d)[i] = cut[i]
        /\ Extended(cut, d)[n] = cut[n] \o d
    BY <1>4, <1>5, <1>6, <1>7, <1>8
  <1> QED  BY <1>9 DEF n

LEMMA ChainExtends ==
  ASSUME NEW text \in Texts, NEW overlap, NEW cut, NEW a, NEW b, Chain(text, cut, a, b, overlap),
         NEW d, NEW e, Run(text, d, b + 1, e)
  PROVE  Chain(text, Extended(cut, d), a, e, overlap)
  <1> DEFINE x == Extended(cut, d)
             n == Len(cut)
  <1>1. cut \in Seq(Seq(Word)) /\ cut # <<>> /\ d \in Seq(Word)
    BY RunIs DEF Chain
  <1>2. /\ x \in Seq(Seq(Word)) /\ x # <<>> /\ Len(x) = n /\ n \in Nat \ {0}
        /\ \A i \in 1..(n - 1) : x[i] = cut[i]
        /\ x[n] = cut[n] \o d
    BY <1>1, ExtendedIs
  <1> HIDE DEF x, n
  <1>3. /\ \A i \in 1..n : Run(text, cut[i], From(cut[i]), End(cut[i]))
        /\ From(cut[1]) = a /\ End(cut[n]) = b
        /\ \A i \in 1..(n - 1) : Follows(cut[i], cut[i + 1], overlap)
    BY DEF Chain, n
  <1>4. Run(text, x[n], From(cut[n]), e)
    <2>1. n \in 1..n
      BY <1>2
    <2> QED  BY <1>2, <1>3, <2>1, RunJoins
  <1>5. From(x[n]) = From(cut[n]) /\ End(x[n]) = e
    BY <1>4, RunIs
  <1>6. ASSUME NEW i \in 1..n PROVE Run(text, x[i], From(x[i]), End(x[i])) /\ From(x[i]) = From(cut[i])
    <2>1. i = n \/ i \in 1..(n - 1)
      BY <1>2
    <2> QED  BY <1>2, <1>3, <1>4, <1>5, <2>1
  <1>7. ASSUME NEW i \in 1..(n - 1) PROVE Follows(x[i], x[i + 1], overlap)
    <2>1. i + 1 \in 1..n
      BY <1>2
    <2> QED  BY <1>2, <1>3, <1>6, <2>1 DEF Follows
  <1>8. 1 \in 1..n
    BY <1>2
  <1> HIDE DEF From, End
  <1> QED  BY <1>2, <1>3, <1>5, <1>6, <1>7, <1>8 DEF Chain, x

-----------------------------------------------------------------------------
(* Sequences of sequences, joined.                                         *)

Joins(run, seqs, S) ==
  /\ run[0] = <<>> /\ FlattenSeq(seqs) = run[Len(seqs)]
  /\ \A i \in 0..Len(seqs) : run[i] \in Seq(S)
  /\ \A i \in 1..Len(seqs) : run[i] = run[i - 1] \o seqs[i]

LEMMA FlattenRun ==
  ASSUME NEW S, NEW seqs \in Seq(Seq(S))
  PROVE  \E run : Joins(run, seqs, S)
  <1> DEFINE n == Len(seqs)
             next(c, i) == c \o seqs[i]
             Is(run) == run = [i \in 1..n |-> IF i = 1 THEN seqs[i] ELSE next(run[i - 1], i)]
             step == [p \in (1..n) \X Seq(S) |-> next(p[2], p[1])]
             good == [i \in 0..n |-> Seq(S)]
             after == CHOOSE run : Is(run)
             all == [i \in 0..n |-> IF i = 0 THEN <<>> ELSE after[i]]
  <1>1. n \in Nat /\ 0 \in 0..n /\ \A i \in 1..n : i \in 0..n /\ i - 1 \in 0..n /\ i # 0
    OBVIOUS
  <1>2. FlattenSeq(seqs) = all[n]
    <2>1. CASE n = 0
      <3>1. seqs = <<>> /\ FlattenSeq(seqs) = seqs
        BY <2>1 DEF FlattenSeq
      <3> QED  BY <2>1, <3>1
    <2>2. CASE n # 0
      <3>1. FlattenSeq(seqs) = after[n]
        BY <2>2 DEF FlattenSeq
      <3> HIDE DEF after
      <3>2. all[n] = after[n]
        BY <1>1, <2>2
      <3> QED  BY <3>1, <3>2
    <2> QED  BY <2>1, <2>2
  <1>3. /\ <<>> \in Seq(S)
        /\ \A i \in 1..n, c \in Seq(S) : next(c, i) \in Seq(S)
        /\ \A i \in 1..n : next(<<>>, i) = seqs[i]
    <2>1. \A i \in 1..n : seqs[i] \in Seq(S)
      OBVIOUS
    <2> QED  BY <2>1
  <1> HIDE DEF n, next
  <1>4. PICK run : Runs(run, n, good, <<>>, step)
    <2>1. <<>> \in good[0] /\ \A i \in 1..n : \A c \in good[i - 1] : step[<<i, c>>] \in good[i]
      BY <1>1, <1>3
    <2> HIDE DEF good, step
    <2> QED  BY <1>1, <2>1, LoopRuns
  <1>5. Is([i \in 1..n |-> run[i]])
    <2> DEFINE f == [i \in 1..n |-> run[i]]
    <2>1. \A i \in 1..n : run[i] = next(run[i - 1], i)
      BY <1>1, <1>4 DEF Runs
    <2>2. \A i \in 1..n : i = 1 \/ i - 1 \in 1..n
      BY <1>1
    <2>3. run[0] = <<>>
      BY <1>4 DEF Runs
    <2>4. ASSUME NEW i \in 1..n
          PROVE  f[i] = (IF i = 1 THEN seqs[i] ELSE next(f[i - 1], i))
      <3>1. CASE i = 1
        <4>1. f[i] = next(run[0], i)
          BY <2>1, <3>1
        <4> QED  BY <1>3, <2>3, <3>1, <4>1
      <3>2. CASE i # 1
        BY <2>1, <2>2, <3>2
      <3> QED  BY <3>1, <3>2
    <2> QED  BY <2>4
  <1>6. Is(after)
    <2> HIDE DEF Is
    <2> QED  BY <1>5
  <1> HIDE DEF after
  <1>7. all[0] = <<>> /\ \A i \in 1..n : all[i] = next(all[i - 1], i)
    <2>1. \A i \in 1..n : i = 1 \/ i - 1 \in 1..n
      BY <1>1
    <2>2. ASSUME NEW i \in 1..n PROVE all[i] = next(all[i - 1], i)
      <3>1. after[i] = (IF i = 1 THEN seqs[i] ELSE next(after[i - 1], i))
        BY <1>6
      <3>2. CASE i = 1
        <4>1. all[i - 1] = <<>> /\ all[i] = after[i]
          BY <1>1, <3>2
        <4> QED  BY <1>3, <3>1, <3>2, <4>1
      <3>3. CASE i # 1
        <4>1. i - 1 \in 1..n /\ i - 1 # 0
          BY <1>1, <2>1, <3>3
        <4>2. all[i - 1] = after[i - 1] /\ all[i] = after[i]
          BY <1>1, <4>1
        <4> QED  BY <3>1, <3>3, <4>2
      <3> QED  BY <3>2, <3>3
    <2>3. all[0] = <<>>
      BY <1>1
    <2> QED  BY <2>2, <2>3
  <1> HIDE DEF all
  <1>8. \A i \in 0..n : all[i] \in good[i]
    <2>1. all[0] \in good[0] /\ \A i \in 1..n : all[i - 1] \in good[i - 1] => all[i] \in good[i]
      BY <1>1, <1>3, <1>7
    <2> HIDE DEF good
    <2> QED  BY <1>1, <2>1, LoopStays
  <1> QED  BY <1>2, <1>7, <1>8 DEF Joins, n, next

LEMMA FlattenElements ==
  ASSUME NEW S, NEW seqs \in Seq(Seq(S))
  PROVE  /\ FlattenSeq(seqs) \in Seq(S)
         /\ \A k \in 1..Len(FlattenSeq(seqs)) : \E i \in 1..Len(seqs) : \E j \in 1..Len(seqs[i]) :
              FlattenSeq(seqs)[k] = seqs[i][j]
  <1> DEFINE n == Len(seqs)
             In(x) == \E i \in 1..n : \E j \in 1..Len(seqs[i]) : x = seqs[i][j]
             ok == {c \in Seq(S) : \A k \in 1..Len(c) : In(c[k])}
             good == [i \in 0..n |-> ok]
  <1>1. PICK run : Joins(run, seqs, S)
    BY FlattenRun
  <1>2. n \in Nat /\ n \in 0..n /\ \A i \in 1..n : i \in 0..n /\ i - 1 \in 0..n /\ seqs[i] \in Seq(S)
    OBVIOUS
  <1>3. <<>> \in ok
    OBVIOUS
  <1>4. ASSUME NEW i \in 1..n, NEW c \in ok PROVE c \o seqs[i] \in ok
    <2>1. c \in Seq(S) /\ seqs[i] \in Seq(S)
      BY <1>2
    <2>2. ASSUME NEW k \in 1..Len(c \o seqs[i]) PROVE In((c \o seqs[i])[k])
      <3>1. CASE k <= Len(c)
        <4>1. (c \o seqs[i])[k] = c[k] /\ k \in 1..Len(c)
          BY <2>1, <3>1
        <4> HIDE DEF In
        <4> QED  BY <4>1
      <3>2. CASE k > Len(c)
        <4>1. (c \o seqs[i])[k] = seqs[i][k - Len(c)] /\ k - Len(c) \in 1..Len(seqs[i])
          BY <2>1, <3>2
        <4> QED  BY <4>1
      <3> QED  BY <2>1, <3>1, <3>2
    <2> DEFINE x == c \o seqs[i]
    <2>3. x \in Seq(S)
      BY <2>1
    <2> HIDE DEF In
    <2>4. \A k \in 1..Len(x) : In(x[k])
      BY <2>2
    <2> HIDE DEF x
    <2>5. x \in ok
      BY <2>3, <2>4
    <2> QED  BY <2>5 DEF x
  <1> HIDE DEF ok
  <1>5. \A i \in 0..n : run[i] \in good[i]
    <2>1. run[0] \in good[0]
      BY <1>1, <1>2, <1>3 DEF Joins
    <2>2. ASSUME NEW i \in 1..n, run[i - 1] \in good[i - 1] PROVE run[i] \in good[i]
      <3>1. run[i - 1] \in ok
        BY <1>2, <2>2
      <3>2. run[i] = run[i - 1] \o seqs[i]
        BY <1>1 DEF Joins
      <3> QED  BY <1>2, <1>4, <3>1, <3>2
    <2> HIDE DEF good, n
    <2> QED  BY <1>2, <2>1, <2>2, LoopStays
  <1>6. FlattenSeq(seqs) \in ok
    <2>1. FlattenSeq(seqs) = run[n]
      BY <1>1 DEF Joins
    <2> QED  BY <1>2, <1>5, <2>1
  <1> QED  BY <1>6 DEF ok, n

LEMMA FlattenChains ==
  ASSUME NEW text \in Texts, NEW overlap, NEW texts, NEW a, NEW b,
         Chain(text, texts, a, b, overlap),
         NEW cuts \in Seq(Seq(Seq(Word))), Len(cuts) = Len(texts),
         \A i \in 1..Len(texts) : Chain(text, cuts[i], From(texts[i]), End(texts[i]), overlap)
  PROVE  Chain(text, FlattenSeq(cuts), a, b, overlap)
  <1> DEFINE n == Len(texts)
             ok(c, i) == IF i = 0 THEN c = <<>> ELSE Chain(text, c, a, End(texts[i]), overlap)
             good == [i \in 0..n |-> {c \in Seq(Seq(Word)) : ok(c, i)}]
  <1>1. PICK run : Joins(run, cuts, Seq(Word))
    BY FlattenRun
  <1>2. /\ n \in Nat /\ n # 0 /\ n \in 0..n /\ 0 \in 0..n
        /\ \A i \in 1..n : i \in 0..n /\ i - 1 \in 0..n /\ i # 0
        /\ From(texts[1]) = a /\ End(texts[n]) = b
        /\ \A i \in 1..(n - 1) : Follows(texts[i], texts[i + 1], overlap)
    BY DEF Chain
  <1>3. ASSUME NEW i \in 1..n, NEW c \in Seq(Seq(Word)), ok(c, i - 1) PROVE ok(c \o cuts[i], i)
    <2>1. cuts[i] \in Seq(Seq(Word)) /\ Chain(text, cuts[i], From(texts[i]), End(texts[i]), overlap)
      OBVIOUS
    <2>2. CASE i = 1
      <3>1. c = <<>>
        BY <1>3, <2>2
      <3>2. c \o cuts[i] = cuts[i]
        BY <2>1, <3>1
      <3> QED  BY <1>2, <2>1, <2>2, <3>2
    <2>3. CASE i # 1
      <3>1. i - 1 \in 1..(n - 1) /\ (i - 1) + 1 = i /\ i - 1 # 0
        BY <1>2, <2>3
      <3>2. Chain(text, c, a, End(texts[i - 1]), overlap)
        BY <1>3, <3>1
      <3>3. Follows(texts[i - 1], texts[i], overlap)
        BY <1>2, <3>1
      <3>4. Chain(text, c \o cuts[i], a, End(texts[i]), overlap)
        BY <2>1, <3>2, <3>3, ChainJoins DEF Follows
      <3> QED  BY <1>2, <3>4
    <2> QED  BY <2>2, <2>3
  <1> HIDE DEF ok
  <1>4. \A i \in 0..n : run[i] \in good[i]
    <2>1. run[0] \in good[0]
      <3>1. ok(<<>>, 0) /\ <<>> \in Seq(Seq(Word))
        BY DEF ok
      <3> QED  BY <1>1, <1>2, <3>1 DEF Joins
    <2>2. ASSUME NEW i \in 1..n, run[i - 1] \in good[i - 1] PROVE run[i] \in good[i]
      <3>1. run[i - 1] \in Seq(Seq(Word)) /\ ok(run[i - 1], i - 1)
        BY <1>2, <2>2
      <3>2. run[i] = run[i - 1] \o cuts[i] /\ run[i] \in Seq(Seq(Word))
        BY <1>1, <1>2 DEF Joins
      <3> QED  BY <1>2, <1>3, <3>1, <3>2
    <2> HIDE DEF good, n
    <2> QED  BY <1>2, <2>1, <2>2, LoopStays
  <1>5. run[n] = FlattenSeq(cuts)
    BY <1>1 DEF Joins
  <1>6. ok(FlattenSeq(cuts), n)
    BY <1>2, <1>4, <1>5
  <1> QED  BY <1>2, <1>6 DEF ok

-----------------------------------------------------------------------------
(* Cutting a run.                                                          *)

LEMMA RunWords ==
  ASSUME NEW text \in Texts, NEW t, NEW a, NEW b, Run(text, t, a, b), NEW i \in 1..Len(t)
  PROVE  /\ a + i - 1 \in 1..Len(text) /\ t[i] \in Word
         /\ Run(text, <<t[i]>>, a + i - 1, a + i - 1)
  <1>1. /\ t \in Seq(Word) /\ Len(t) = b - a + 1 /\ Len(text) \in Nat
        /\ b \in 1..Len(text) /\ a \in 1..b /\ t[i] = text[a + i - 1]
    <2>1. t \in Seq(Word) /\ Len(t) = b - a + 1 /\ Len(text) \in Nat
      BY RunIs
    <2> QED  BY <2>1 DEF Run
  <1>2. a + i - 1 \in 1..Len(text)
    BY <1>1
  <1> QED  BY <1>1, <1>2, RunOfWord

(* A run is added to a chain as one more, or to its last.                  *)
LEMMA ChainGrows ==
  ASSUME NEW text \in Texts, NEW overlap, NEW cut, NEW a, NEW b, Chain(text, cut, a, b, overlap),
         NEW d, NEW e, Run(text, d, b + 1, e)
  PROVE  /\ Chain(text, Append(cut, d), a, e, overlap)
         /\ Chain(text, Extended(cut, d), a, e, overlap)
  <1>1. Chain(text, <<d>>, b + 1, e, overlap)
    BY ChainOne
  <1>2. b + 1 <= b + 1
    <2>1. b + 1 \in Nat
      BY RunIs
    <2> QED  BY <2>1
  <1>3. Chain(text, cut \o <<d>>, a, e, overlap)
    BY <1>1, <1>2, ChainJoins
  <1>4. cut \o <<d>> = Append(cut, d)
    <2>1. cut \in Seq(Seq(Word)) /\ d \in Seq(Word)
      BY RunIs DEF Chain
    <2> QED  BY <2>1
  <1> QED  BY <1>3, <1>4, ChainExtends

(* The parts between separators hold the words in their order. *)
LEMMA PartsChain ==
  ASSUME NEW text \in Texts, NEW t, NEW a, NEW b, Run(text, t, a, b), NEW sep
  PROVE  Chain(text, Parts(t, sep), a, b, FALSE)
  <1> DEFINE n == Len(t)
             X == Seq(Seq(Word))
             next(c, i) == WithWord(c, t[i], sep)
             ok(c, i) == IF i = 0 THEN c = <<>> ELSE Chain(text, c, a, a + i - 1, FALSE)
             Is(run) == run = [i \in 0..n |-> IF i = 0 THEN <<>> ELSE next(run[i - 1], i)]
             step == [p \in (1..n) \X X |-> next(p[2], p[1])]
             good == [i \in 0..n |-> {c \in X : ok(c, i)}]
             after == CHOOSE run : Is(run)
  <1>1. /\ n \in Nat /\ n # 0 /\ n \in 0..n /\ 0 \in 0..n /\ n = b - a + 1 /\ a \in Nat /\ b \in Nat
        /\ \A i \in 1..n : i \in 0..n /\ i - 1 \in 0..n /\ i # 0
    BY RunIs
  <1>2. Parts(t, sep) = after[n]
    BY DEF Parts, Loop
  <1>3. <<>> \in X /\ ok(<<>>, 0)
    OBVIOUS
  <1>4. ASSUME NEW i \in 1..n, NEW c \in X, ok(c, i - 1)
        PROVE  next(c, i) \in X /\ ok(next(c, i), i)
    <2> DEFINE w == <<t[i]>>
    <2>1. Run(text, w, a + i - 1, a + i - 1)
      BY RunWords
    <2> HIDE DEF w
    <2>2. CASE i = 1
      <3>1. c = <<>> /\ a + i - 1 = a
        BY <1>1, <1>4, <2>2
      <3>2. next(c, i) = <<w>>
        BY <3>1 DEF WithWord, w
      <3>3. Chain(text, <<w>>, a, a + i - 1, FALSE)
        BY <2>1, <3>1, ChainOne
      <3> QED  BY <1>1, <3>2, <3>3 DEF Chain
    <2>3. CASE i # 1
      <3>1. i - 1 # 0 /\ (a + (i - 1) - 1) + 1 = a + i - 1
        BY <1>1, <2>3
      <3>2. Chain(text, c, a, a + (i - 1) - 1, FALSE)
        BY <1>4, <3>1
      <3>3. /\ Chain(text, Append(c, w), a, a + i - 1, FALSE)
            /\ Chain(text, Extended(c, w), a, a + i - 1, FALSE)
        BY <2>1, <3>1, <3>2, ChainGrows
      <3>4. next(c, i) \in {Append(c, w), Extended(c, w)}
        BY DEF WithWord, w
      <3>5. Chain(text, next(c, i), a, a + i - 1, FALSE)
        BY <3>3, <3>4
      <3> HIDE DEF next
      <3> QED  BY <1>1, <3>5 DEF Chain
    <2> QED  BY <2>2, <2>3
  <1> HIDE DEF n, next, ok
  <1>5. PICK run : Runs(run, n, good, <<>>, step)
    <2>1. <<>> \in good[0]
      BY <1>1, <1>3
    <2>2. ASSUME NEW i \in 1..n, NEW c \in good[i - 1] PROVE step[<<i, c>>] \in good[i]
      <3>1. c \in X /\ ok(c, i - 1)
        BY <1>1, <2>2
      <3>2. next(c, i) \in X /\ ok(next(c, i), i)
        BY <1>4, <3>1
      <3> QED  BY <1>1, <3>1, <3>2
    <2> HIDE DEF good, step
    <2> QED  BY <1>1, <2>1, <2>2, LoopRuns
  <1>6. Is(run)
    <2>1. ASSUME NEW i \in 1..n PROVE run[i] = next(run[i - 1], i)
      <3>1. run[i - 1] \in good[i - 1] /\ run[i] = step[<<i, run[i - 1]>>]
        BY <1>1, <1>5 DEF Runs
      <3> QED  BY <1>1, <3>1
    <2>2. run = [i \in 0..n |-> run[i]] /\ run[0] = <<>>
      BY <1>5 DEF Runs
    <2>3. \A i \in 0..n : i = 0 \/ i \in 1..n
      BY <1>1
    <2> QED  BY <2>1, <2>2, <2>3
  <1>7. Is(after)
    <2> HIDE DEF Is
    <2> QED  BY <1>6
  <1> HIDE DEF after
  <1>8. after[0] = <<>> /\ \A i \in 1..n : after[i] = next(after[i - 1], i)
    BY <1>1, <1>7
  <1>9. \A i \in 0..n : after[i] \in good[i]
    <2>1. after[0] \in good[0]
      BY <1>1, <1>3, <1>8
    <2>2. ASSUME NEW i \in 1..n, after[i - 1] \in good[i - 1] PROVE after[i] \in good[i]
      <3>1. after[i - 1] \in X /\ ok(after[i - 1], i - 1)
        BY <1>1, <2>2
      <3>2. next(after[i - 1], i) \in X /\ ok(next(after[i - 1], i), i)
        BY <1>4, <3>1
      <3> QED  BY <1>1, <1>8, <3>2
    <2> HIDE DEF good
    <2> QED  BY <1>1, <2>1, <2>2, LoopStays
  <1>10. ok(after[n], n)
    BY <1>1, <1>9
  <1>11. a + n - 1 = b
    BY <1>1
  <1> QED  BY <1>1, <1>2, <1>10, <1>11 DEF ok

Small(cut) == \A i \in 1..Len(cut) : Bounded(cut[i])

(* What the split word by word counts. *)
Counted(cut) == \A i \in 1..Len(cut) : ByWords(cut[i]) <= ChunkTokens \/ Len(cut[i]) = 1

(* A word starts a chunk or fits into the one before. *)
LEMMA FilledIsCounted ==
  ASSUME NEW c \in Seq(Seq(Word)), c # <<>>, Counted(c), NEW w \in Word
  PROVE  Counted(Filled(c, w)) /\ Filled(c, w) \in {Append(c, <<w>>), Extended(c, <<w>>)}
  <1> DEFINE n == Len(c)
             l == c[n]
  <1>1. n \in Nat /\ n # 0 /\ l \in Seq(Word) /\ <<w>> \in Seq(Word) /\ Last(c) = l
    BY DEF Last
  <1>2. CASE ByWords(Last(c)) + w.tokens > ChunkTokens
    <2>1. Filled(c, w) = Append(c, <<w>>)
      BY <1>2 DEF Filled
    <2>2. /\ Len(Append(c, <<w>>)) = n + 1 /\ Append(c, <<w>>)[n + 1] = <<w>> /\ Len(<<w>>) = 1
          /\ \A i \in 1..n : Append(c, <<w>>)[i] = c[i]
      BY <1>1
    <2>3. \A i \in 1..(n + 1) : i \in 1..n \/ i = n + 1
      BY <1>1
    <2> DEFINE x == Append(c, <<w>>)
    <2> HIDE DEF x
    <2>4. \A i \in 1..(n + 1) : ByWords(x[i]) <= ChunkTokens \/ Len(x[i]) = 1
      BY <2>2, <2>3 DEF Counted, x
    <2> QED  BY <2>1, <2>2, <2>4 DEF Counted, x
  <1>3. CASE ~(ByWords(Last(c)) + w.tokens > ChunkTokens)
    <2>1. Filled(c, w) = Extended(c, <<w>>)
      BY <1>3 DEF Filled
    <2> DEFINE x == Extended(c, <<w>>)
    <2>2. Len(x) = n /\ (\A i \in 1..(n - 1) : x[i] = c[i]) /\ x[n] = l \o <<w>>
      <3> DEFINE d == <<w>>
      <3>1. d \in Seq(Word)
        BY <1>1
      <3> HIDE DEF d
      <3>2. /\ Len(Extended(c, d)) = Len(c)
            /\ \A i \in 1..(Len(c) - 1) : Extended(c, d)[i] = c[i]
            /\ Extended(c, d)[Len(c)] = c[Len(c)] \o d
        BY <3>1, ExtendedIs
      <3> QED  BY <3>2 DEF d
    <2> HIDE DEF x, l, n
    <2>3. l \o <<w>> = Append(l, w)
      BY <1>1
    <2>4. ByWords(x[n]) <= ChunkTokens
      <3>1. /\ ByWords(l) \in Nat /\ ByWords(Append(l, w)) = ByWords(l) + w.tokens
            /\ w.tokens \in Nat /\ ChunkTokens \in Nat
        BY <1>1, TokensOf, ChunkingConstants DEF Word
      <3>2. ByWords(l) + w.tokens <= ChunkTokens
        BY <1>1, <1>3, <3>1
      <3> QED  BY <2>2, <2>3, <3>1, <3>2
    <2>5. \A i \in 1..n : i \in 1..(n - 1) \/ i = n
      BY <1>1
    <2>6. \A i \in 1..n : ByWords(x[i]) <= ChunkTokens \/ Len(x[i]) = 1
      BY <2>2, <2>4, <2>5 DEF Counted, n
    <2> QED  BY <2>1, <2>2, <2>6 DEF Counted, x
  <1> QED  BY <1>2, <1>3

(* Word by word, a run is cut into chunks that are within the limit when   *)
(* counted so, or are one word.                                            *)
LEMMA HardChain ==
  ASSUME NEW text \in Texts, NEW t, NEW a, NEW b, Run(text, t, a, b)
  PROVE  Chain(text, HardSplit(t), a, b, FALSE) /\ Counted(HardSplit(t))
  <1> DEFINE n == Len(t)
             X == Seq(Seq(Word))
             next(c, i) == Filled(c, t[i])
             ok(c, i) == IF i = 0 THEN c = <<>>
                         ELSE Chain(text, c, a, a + i - 1, FALSE) /\ Counted(c)
             Is(run) == run = [i \in 0..n |-> IF i = 0 THEN <<>> ELSE next(run[i - 1], i)]
             step == [p \in (1..n) \X X |-> next(p[2], p[1])]
             good == [i \in 0..n |-> {c \in X : ok(c, i)}]
             after == CHOOSE run : Is(run)
  <1>1. /\ n \in Nat /\ n # 0 /\ n \in 0..n /\ 0 \in 0..n /\ n = b - a + 1 /\ a \in Nat /\ b \in Nat
        /\ \A i \in 1..n : i \in 0..n /\ i - 1 \in 0..n /\ i # 0
    BY RunIs
  <1>2. HardSplit(t) = after[n]
    BY DEF HardSplit, Loop
  <1>3. <<>> \in X /\ ok(<<>>, 0)
    OBVIOUS
  <1>4. ASSUME NEW i \in 1..n, NEW c \in X, ok(c, i - 1)
        PROVE  next(c, i) \in X /\ ok(next(c, i), i)
    <2> DEFINE w == <<t[i]>>
    <2>1. Run(text, w, a + i - 1, a + i - 1) /\ t[i] \in Word
      BY RunWords
    <2> HIDE DEF w
    <2>2. CASE i = 1
      <3>1. c = <<>> /\ a + i - 1 = a
        BY <1>1, <1>4, <2>2
      <3>2. next(c, i) = <<w>>
        BY <3>1 DEF Filled, w
      <3>3. Chain(text, <<w>>, a, a + i - 1, FALSE)
        BY <2>1, <3>1, ChainOne
      <3>4. Counted(<<w>>)
        <4>1. Len(w) = 1 /\ Len(<<w>>) = 1 /\ <<w>>[1] = w /\ \A k \in 1..1 : k = 1
          BY DEF w
        <4> QED  BY <4>1 DEF Counted
      <3> QED  BY <1>1, <3>2, <3>3, <3>4 DEF Chain
    <2>3. CASE i # 1
      <3>1. i - 1 # 0 /\ (a + (i - 1) - 1) + 1 = a + i - 1
        BY <1>1, <2>3
      <3>2. Chain(text, c, a, a + (i - 1) - 1, FALSE) /\ Counted(c)
        BY <1>4, <3>1
      <3>3. /\ Chain(text, Append(c, w), a, a + i - 1, FALSE)
            /\ Chain(text, Extended(c, w), a, a + i - 1, FALSE)
        BY <2>1, <3>1, <3>2, ChainGrows
      <3>4. Counted(next(c, i)) /\ next(c, i) \in {Append(c, w), Extended(c, w)}
        <4>1. c # <<>>
          BY <3>2 DEF Chain
        <4> QED  BY <2>1, <3>2, <4>1, FilledIsCounted DEF w
      <3>5. Chain(text, next(c, i), a, a + i - 1, FALSE)
        BY <3>3, <3>4
      <3> HIDE DEF next
      <3> QED  BY <1>1, <3>4, <3>5 DEF Chain
    <2> QED  BY <2>2, <2>3
  <1> HIDE DEF n, next, ok
  <1>5. PICK run : Runs(run, n, good, <<>>, step)
    <2>1. <<>> \in good[0]
      BY <1>1, <1>3
    <2>2. ASSUME NEW i \in 1..n, NEW c \in good[i - 1] PROVE step[<<i, c>>] \in good[i]
      <3>1. c \in X /\ ok(c, i - 1)
        BY <1>1, <2>2
      <3>2. next(c, i) \in X /\ ok(next(c, i), i)
        BY <1>4, <3>1
      <3> QED  BY <1>1, <3>1, <3>2
    <2> HIDE DEF good, step
    <2> QED  BY <1>1, <2>1, <2>2, LoopRuns
  <1>6. Is(run)
    <2>1. ASSUME NEW i \in 1..n PROVE run[i] = next(run[i - 1], i)
      <3>1. run[i - 1] \in good[i - 1] /\ run[i] = step[<<i, run[i - 1]>>]
        BY <1>1, <1>5 DEF Runs
      <3> QED  BY <1>1, <3>1
    <2>2. run = [i \in 0..n |-> run[i]] /\ run[0] = <<>>
      BY <1>5 DEF Runs
    <2>3. \A i \in 0..n : i = 0 \/ i \in 1..n
      BY <1>1
    <2> QED  BY <2>1, <2>2, <2>3
  <1>7. Is(after)
    <2> HIDE DEF Is
    <2> QED  BY <1>6
  <1> HIDE DEF after
  <1>8. after[0] = <<>> /\ \A i \in 1..n : after[i] = next(after[i - 1], i)
    BY <1>1, <1>7
  <1>9. \A i \in 0..n : after[i] \in good[i]
    <2>1. after[0] \in good[0]
      BY <1>1, <1>3, <1>8
    <2>2. ASSUME NEW i \in 1..n, after[i - 1] \in good[i - 1] PROVE after[i] \in good[i]
      <3>1. after[i - 1] \in X /\ ok(after[i - 1], i - 1)
        BY <1>1, <2>2
      <3>2. next(after[i - 1], i) \in X /\ ok(next(after[i - 1], i), i)
        BY <1>4, <3>1
      <3> QED  BY <1>1, <1>8, <3>2
    <2> HIDE DEF good
    <2> QED  BY <1>1, <2>1, <2>2, LoopStays
  <1>10. ok(after[n], n)
    BY <1>1, <1>9
  <1>11. a + n - 1 = b
    BY <1>1
  <1> QED  BY <1>1, <1>2, <1>10, <1>11 DEF ok

LEMMA WithPartTyped ==
  ASSUME NEW c \in Seq(Seq(Word)), NEW parts \in Seq(Seq(Word)), NEW i \in 1..Len(parts),
         NEW sep, NEW overlap, i = 1 => c = <<>>
  PROVE  WithPart(c, parts, i, sep, overlap) \in Seq(Seq(Word))
  <1>1. parts[i] \in Seq(Word)
    OBVIOUS
  <1>2. CASE c = <<>>
    BY <1>1, <1>2 DEF WithPart
  <1>3. CASE c # <<>>
    <2>1. parts[i - 1] \in Seq(Word)
      <3>1. i - 1 \in 1..Len(parts)
        BY <1>3
      <3> QED  BY <3>1
    <2>2. Extended(c, parts[i]) \in Seq(Seq(Word))
      BY <1>1, <1>3, ExtendedIs
    <2> DEFINE p == parts[i]
               q == parts[i - 1]
    <2>3. p \in Seq(Word) /\ q \in Seq(Word)
      BY <1>1, <2>1
    <2> HIDE DEF p, q
    <2>4. /\ Append(c, q \o p) \in Seq(Seq(Word)) /\ Append(c, p) \in Seq(Seq(Word))
      BY <2>3
    <2> QED  BY <1>3, <2>2, <2>4 DEF WithPart, p, q
  <1> QED  BY <1>2, <1>3

(* Parts that follow one another are joined to texts that do, or that      *)
(* overlap by a part.                                                      *)
LEMMA PackedChain ==
  ASSUME NEW text \in Texts, NEW parts, NEW a, NEW b, Chain(text, parts, a, b, FALSE),
         NEW sep, NEW overlap \in BOOLEAN
  PROVE  Chain(text, Packed(parts, sep, overlap), a, b, overlap)
  <1> DEFINE n == Len(parts)
             X == Seq(Seq(Word))
             next(c, i) == WithPart(c, parts, i, sep, overlap)
             ok(c, i) == IF i = 0 THEN c = <<>> ELSE Chain(text, c, a, End(parts[i]), overlap)
             Is(run) == run = [i \in 0..n |-> IF i = 0 THEN <<>> ELSE next(run[i - 1], i)]
             step == [p \in (1..n) \X X |-> next(p[2], p[1])]
             good == [i \in 0..n |-> {c \in X : ok(c, i)}]
             after == CHOOSE run : Is(run)
  <1>1. /\ n \in Nat /\ n # 0 /\ n \in 0..n /\ 0 \in 0..n
        /\ \A i \in 1..n : i \in 0..n /\ i - 1 \in 0..n /\ i # 0
    BY DEF Chain
  <1>2. Packed(parts, sep, overlap) = after[n]
    BY DEF Packed, Loop
  <1>3. <<>> \in X /\ ok(<<>>, 0)
    OBVIOUS
  <1>4. ASSUME NEW i \in 1..n, NEW c \in X, ok(c, i - 1)
        PROVE  next(c, i) \in X /\ ok(next(c, i), i)
    <2> DEFINE p == parts[i]
    <2>1. Run(text, p, From(p), End(p)) /\ parts \in Seq(Seq(Word)) /\ p \in Seq(Word)
      BY DEF Chain
    <2>2. next(c, i) \in X
      <3>1. i = 1 => c = <<>>
        BY <1>4
      <3> QED  BY <2>1, <3>1, WithPartTyped
    <2>3. CASE i = 1
      <3>1. c = <<>> /\ From(p) = a
        BY <1>1, <1>4, <2>3 DEF Chain
      <3> HIDE DEF From, End
      <3>2. next(c, i) = <<p>>
        BY <3>1 DEF WithPart
      <3>3. Chain(text, <<p>>, a, End(p), overlap)
        BY <2>1, <3>1, ChainOne
      <3> QED  BY <1>1, <2>2, <3>2, <3>3
    <2>4. CASE i # 1
      <3> DEFINE q == parts[i - 1]
      <3>1. i - 1 # 0 /\ i - 1 \in 1..(n - 1) /\ i - 1 \in 1..n /\ (i - 1) + 1 = i
        BY <1>1, <2>4
      <3>2. Chain(text, c, a, End(q), overlap)
        BY <1>4, <3>1
      <3>3. Run(text, q, From(q), End(q)) /\ From(p) = End(q) + 1
        BY <3>1 DEF Chain, Follows
      <3> HIDE DEF p, q, From, End
      <3>4. /\ Chain(text, Append(c, p), a, End(p), overlap)
            /\ Chain(text, Extended(c, p), a, End(p), overlap)
        BY <2>1, <3>2, <3>3, ChainGrows
      <3>5. overlap => Chain(text, Append(c, q \o p), a, End(p), overlap)
        <4> SUFFICES ASSUME overlap PROVE Chain(text, Append(c, q \o p), a, End(p), overlap)
          OBVIOUS
        <4>1. Run(text, q \o p, From(q), End(p))
          BY <2>1, <3>3, RunJoins
        <4>2. Chain(text, <<q \o p>>, From(q), End(p), overlap)
          BY <4>1, ChainOne
        <4>3. From(q) <= End(q) + 1
          <5>1. From(q) \in 1..End(q) /\ End(q) \in Nat
            BY <3>3, RunIs DEF Run
          <5> QED  BY <5>1
        <4>4. Chain(text, c \o <<q \o p>>, a, End(p), overlap)
          BY <3>2, <4>2, <4>3, ChainJoins
        <4>5. c \o <<q \o p>> = Append(c, q \o p)
          <5>1. q \o p \in Seq(Word)
            BY <4>1, RunIs
          <5> DEFINE x == q \o p
          <5> HIDE DEF x
          <5>2. x \in Seq(Word) => c \o <<x>> = Append(c, x)
            OBVIOUS
          <5> QED  BY <5>1, <5>2 DEF x
        <4> QED  BY <4>4, <4>5
      <3>6. /\ c # <<>>
            /\ next(c, i) \in {Append(c, p), Extended(c, p)} \/ (overlap /\ next(c, i) = Append(c, q \o p))
        <4>1. c # <<>>
          BY <3>2 DEF Chain
        <4> QED  BY <4>1 DEF WithPart, p, q
      <3>7. Chain(text, next(c, i), a, End(p), overlap)
        <4> HIDE DEF next
        <4> QED  BY <3>4, <3>5, <3>6
      <3> QED  BY <1>1, <2>2, <3>7 DEF p
    <2> QED  BY <2>3, <2>4
  <1> HIDE DEF n, next, ok
  <1>5. PICK run : Runs(run, n, good, <<>>, step)
    <2>1. <<>> \in good[0]
      BY <1>1, <1>3
    <2>2. ASSUME NEW i \in 1..n, NEW c \in good[i - 1] PROVE step[<<i, c>>] \in good[i]
      <3>1. c \in X /\ ok(c, i - 1)
        BY <1>1, <2>2
      <3>2. next(c, i) \in X /\ ok(next(c, i), i)
        BY <1>4, <3>1
      <3> QED  BY <1>1, <3>1, <3>2
    <2> HIDE DEF good, step
    <2> QED  BY <1>1, <2>1, <2>2, LoopRuns
  <1>6. Is(run)
    <2>1. ASSUME NEW i \in 1..n PROVE run[i] = next(run[i - 1], i)
      <3>1. run[i - 1] \in good[i - 1] /\ run[i] = step[<<i, run[i - 1]>>]
        BY <1>1, <1>5 DEF Runs
      <3> QED  BY <1>1, <3>1
    <2>2. run = [i \in 0..n |-> run[i]] /\ run[0] = <<>>
      BY <1>5 DEF Runs
    <2>3. \A i \in 0..n : i = 0 \/ i \in 1..n
      BY <1>1
    <2> QED  BY <2>1, <2>2, <2>3
  <1>7. Is(after)
    <2> HIDE DEF Is
    <2> QED  BY <1>6
  <1> HIDE DEF after
  <1>8. after[0] = <<>> /\ \A i \in 1..n : after[i] = next(after[i - 1], i)
    BY <1>1, <1>7
  <1>9. \A i \in 0..n : after[i] \in good[i]
    <2>1. after[0] \in good[0]
      BY <1>1, <1>3, <1>8
    <2>2. ASSUME NEW i \in 1..n, after[i - 1] \in good[i - 1] PROVE after[i] \in good[i]
      <3>1. after[i - 1] \in X /\ ok(after[i - 1], i - 1)
        BY <1>1, <2>2
      <3>2. next(after[i - 1], i) \in X /\ ok(next(after[i - 1], i), i)
        BY <1>4, <3>1
      <3> QED  BY <1>1, <1>8, <3>2
    <2> HIDE DEF good
    <2> QED  BY <1>1, <2>1, <2>2, LoopStays
  <1>10. ok(after[n], n)
    BY <1>1, <1>9
  <1>11. End(parts[n]) = b
    BY DEF Chain, n
  <1> HIDE DEF End
  <1> QED  BY <1>1, <1>2, <1>10, <1>11 DEF ok

-----------------------------------------------------------------------------
(* Cutting a text.                                                         *)

(* Chains without overlap are chains. *)
LEMMA ChainLoosens ==
  ASSUME NEW text, NEW cut, NEW a, NEW b, Chain(text, cut, a, b, FALSE), NEW overlap
  PROVE  Chain(text, cut, a, b, overlap)
  BY DEF Chain, Follows

LEMMA FinerChain ==
  ASSUME NEW text \in Texts, NEW t, NEW a, NEW b, Run(text, t, a, b), NEW sep,
         NEW overlap \in BOOLEAN
  PROVE  Chain(text, Finer(t, sep, overlap), a, b, overlap)
  <1>1. Chain(text, <<t>>, a, b, overlap)
    BY ChainOne
  <1>2. Chain(text, Packed(Parts(t, sep), sep, overlap), a, b, overlap)
    BY PartsChain, PackedChain
  <1> QED  BY <1>1, <1>2 DEF Finer

LEMMA WholeChain ==
  ASSUME NEW text \in Texts, NEW t, NEW a, NEW b, Run(text, t, a, b), NEW overlap
  PROVE  Chain(text, Whole(t), a, b, overlap) /\ Small(Whole(t))
  <1>1. CASE Fits(t)
    <2>1. Whole(t) = <<t>> /\ Small(<<t>>)
      <3>1. Len(<<t>>) = 1 /\ <<t>>[1] = t /\ \A i \in 1..1 : i = 1
        OBVIOUS
      <3> QED  BY <1>1, <3>1 DEF Whole, Small, Bounded
    <2> QED  BY <2>1, ChainOne
  <1>2. CASE ~Fits(t)
    <2>1. Counted(HardSplit(t)) /\ Whole(t) = HardSplit(t)
      BY <1>2, HardChain DEF Whole
    <2>2. Small(Whole(t))
      BY <2>1 DEF Counted, Small, Bounded
    <2> QED  BY <2>1, <2>2, HardChain, ChainLoosens
  <1> QED  BY <1>1, <1>2

(* The texts that a text is cut into, level by level. *)
LEMMA EachFiner ==
  ASSUME NEW text \in Texts, NEW overlap \in BOOLEAN, NEW sep, NEW texts, NEW a, NEW b,
         Chain(text, texts, a, b, overlap)
  PROVE  Chain(text, Level(texts, sep, overlap), a, b, overlap)
  <1> DEFINE n == Len(texts)
             cuts == [i \in 1..n |-> Finer(texts[i], sep, overlap)]
  <1>1. n \in Nat
    BY DEF Chain
  <1>2. \A i \in 1..n : Chain(text, Finer(texts[i], sep, overlap), From(texts[i]), End(texts[i]), overlap)
    BY FinerChain DEF Chain
  <1>3. \A i \in 1..n : Finer(texts[i], sep, overlap) \in Seq(Seq(Word))
    BY <1>2 DEF Chain
  <1>4. cuts \in Seq(Seq(Seq(Word))) /\ Len(cuts) = n
    BY <1>1, <1>3
  <1>5. \A i \in 1..n : Chain(text, cuts[i], From(texts[i]), End(texts[i]), overlap)
    BY <1>2
  <1>6. Chain(text, FlattenSeq(cuts), a, b, overlap)
    <2> HIDE DEF cuts
    <2> QED  BY <1>4, <1>5, FlattenChains
  <1> QED  BY <1>6 DEF Level, Each

LEMMA EachWhole ==
  ASSUME NEW text \in Texts, NEW overlap \in BOOLEAN, NEW texts, NEW a, NEW b,
         Chain(text, texts, a, b, overlap)
  PROVE  Chain(text, Each(Whole, texts), a, b, overlap) /\ Small(Each(Whole, texts))
  <1> DEFINE n == Len(texts)
             cuts == [i \in 1..n |-> Whole(texts[i])]
  <1>1. n \in Nat
    BY DEF Chain
  <1>2. \A i \in 1..n : /\ Chain(text, Whole(texts[i]), From(texts[i]), End(texts[i]), overlap)
                        /\ Small(Whole(texts[i]))
    BY WholeChain DEF Chain
  <1>3. \A i \in 1..n : Whole(texts[i]) \in Seq(Seq(Word))
    BY <1>2 DEF Chain
  <1>4. cuts \in Seq(Seq(Seq(Word))) /\ Len(cuts) = n
    BY <1>1, <1>3
  <1>5. \A i \in 1..n : Chain(text, cuts[i], From(texts[i]), End(texts[i]), overlap) /\ Small(cuts[i])
    BY <1>2
  <1> HIDE DEF cuts
  <1>6. Chain(text, FlattenSeq(cuts), a, b, overlap)
    BY <1>4, <1>5, FlattenChains
  <1>7. Small(FlattenSeq(cuts))
    <2>1. \A k \in 1..Len(FlattenSeq(cuts)) : \E i \in 1..Len(cuts) : \E j \in 1..Len(cuts[i]) :
            FlattenSeq(cuts)[k] = cuts[i][j]
      BY <1>4, FlattenElements
    <2> DEFINE x == FlattenSeq(cuts)
    <2> HIDE DEF x
    <2>2. ASSUME NEW k \in 1..Len(x) PROVE Bounded(x[k])
      <3>1. PICK i \in 1..Len(cuts) : \E j \in 1..Len(cuts[i]) : x[k] = cuts[i][j]
        BY <2>1 DEF x
      <3>2. Small(cuts[i])
        BY <1>4, <1>5
      <3> QED  BY <3>1, <3>2 DEF Small
    <2>3. Small(x)
      BY <2>2 DEF Small
    <2> QED  BY <2>3 DEF x
  <1> QED  BY <1>6, <1>7 DEF Each, cuts

LEMMA SplitChain ==
  ASSUME NEW text \in Texts, text # <<>>, NEW overlap \in BOOLEAN
  PROVE  Chain(text, Split(text, overlap), 1, Len(text), overlap) /\ Small(Split(text, overlap))
  <1> DEFINE n == Separators
             next(texts, sep) == Level(texts, sep, overlap)
             start == <<text>>
             X == Seq(Seq(Word))
             ok(c, i) == Chain(text, c, 1, Len(text), overlap)
             Is(run) == run = [i \in 0..n |-> IF i = 0 THEN start ELSE next(run[i - 1], i)]
             step == [p \in (1..n) \X X |-> next(p[2], p[1])]
             good == [i \in 0..n |-> {c \in X : ok(c, i)}]
             after == CHOOSE run : Is(run)
  <1>1. /\ n \in Nat /\ n \in 0..n /\ 0 \in 0..n
        /\ \A i \in 1..n : i \in 0..n /\ i - 1 \in 0..n /\ i # 0
    BY ChunkingConstants
  <1>2. Split(text, overlap) = Each(Whole, after[n])
    BY DEF Split, Loop
  <1>3. start \in X /\ ok(start, 0)
    <2>1. Run(text, text, 1, Len(text))
      <3>1. text \in Seq(Word) /\ Len(text) \in Nat /\ Len(text) > 0
        BY DEF Texts
      <3>2. Len(text) \in 1..Len(text) /\ 1 \in 1..Len(text) /\ Len(text) = Len(text) - 1 + 1
        BY <3>1
      <3>3. \A j \in 1..(Len(text) - 1 + 1) : text[j] = text[1 + j - 1]
        BY <3>1
      <3> QED  BY <3>1, <3>2, <3>3 DEF Run
    <2>2. Chain(text, <<text>>, 1, Len(text), overlap)
      BY <2>1, ChainOne
    <2> QED  BY <2>2 DEF Chain
  <1>4. ASSUME NEW i \in 1..n, NEW c \in X, ok(c, i - 1)
        PROVE  next(c, i) \in X /\ ok(next(c, i), i)
    <2>1. Chain(text, next(c, i), 1, Len(text), overlap)
      BY <1>4, EachFiner
    <2> HIDE DEF next
    <2> QED  BY <2>1 DEF Chain
  <1> HIDE DEF n, next, ok, start
  <1>5. PICK run : Runs(run, n, good, start, step)
    <2>1. start \in good[0]
      BY <1>1, <1>3
    <2>2. ASSUME NEW i \in 1..n, NEW c \in good[i - 1] PROVE step[<<i, c>>] \in good[i]
      <3>1. c \in X /\ ok(c, i - 1)
        BY <1>1, <2>2
      <3>2. next(c, i) \in X /\ ok(next(c, i), i)
        BY <1>4, <3>1
      <3> QED  BY <1>1, <3>1, <3>2
    <2> HIDE DEF good, step
    <2> QED  BY <1>1, <2>1, <2>2, LoopRuns
  <1>6. Is(run)
    <2>1. ASSUME NEW i \in 1..n PROVE run[i] = next(run[i - 1], i)
      <3>1. run[i - 1] \in good[i - 1] /\ run[i] = step[<<i, run[i - 1]>>]
        BY <1>1, <1>5 DEF Runs
      <3> QED  BY <1>1, <3>1
    <2>2. run = [i \in 0..n |-> run[i]] /\ run[0] = start
      BY <1>5 DEF Runs
    <2>3. \A i \in 0..n : i = 0 \/ i \in 1..n
      BY <1>1
    <2> QED  BY <2>1, <2>2, <2>3
  <1>7. Is(after)
    <2> HIDE DEF Is
    <2> QED  BY <1>6
  <1> HIDE DEF after
  <1>8. after[0] = start /\ \A i \in 1..n : after[i] = next(after[i - 1], i)
    BY <1>1, <1>7
  <1>9. \A i \in 0..n : after[i] \in good[i]
    <2>1. after[0] \in good[0]
      BY <1>1, <1>3, <1>8
    <2>2. ASSUME NEW i \in 1..n, after[i - 1] \in good[i - 1] PROVE after[i] \in good[i]
      <3>1. after[i - 1] \in X /\ ok(after[i - 1], i - 1)
        BY <1>1, <2>2
      <3>2. next(after[i - 1], i) \in X /\ ok(next(after[i - 1], i), i)
        BY <1>4, <3>1
      <3> QED  BY <1>1, <1>8, <3>2
    <2> HIDE DEF good
    <2> QED  BY <1>1, <2>1, <2>2, LoopStays
  <1>10. ok(after[n], n)
    BY <1>1, <1>9
  <1>11. Chain(text, after[n], 1, Len(text), overlap)
    BY <1>10 DEF ok
  <1> QED  BY <1>2, <1>11, EachWhole

(* In a chain every word is in a chunk: in the first that ends behind it.  *)
LEMMA ChainCovers ==
  ASSUME NEW text \in Texts, NEW overlap \in BOOLEAN, NEW cut,
         Chain(text, cut, 1, Len(text), overlap)
  PROVE  Covers(cut, text, overlap)
  <1> DEFINE m == Len(cut)
  <1>1. /\ cut \in Seq(Seq(Word)) /\ m \in Nat /\ m # 0 /\ text \in Seq(Word) /\ Len(text) \in Nat
        /\ From(cut[1]) = 1 /\ End(cut[m]) = Len(text)
        /\ \A i \in 1..(m - 1) : Follows(cut[i], cut[i + 1], overlap)
    BY DEF Chain, Texts
  <1>2. ASSUME NEW i \in 1..m
        PROVE  /\ Run(text, cut[i], From(cut[i]), End(cut[i]))
               /\ From(cut[i]) \in Nat /\ End(cut[i]) \in Nat
               /\ cut[i] \in Seq(Word) /\ Len(cut[i]) = End(cut[i]) - From(cut[i]) + 1
               /\ \A j \in 1..Len(cut[i]) : cut[i][j].at = From(cut[i]) + j - 1
    <2>1. Run(text, cut[i], From(cut[i]), End(cut[i]))
      BY DEF Chain
    <2> DEFINE a == From(cut[i])
               b == End(cut[i])
               c == cut[i]
    <2> HIDE DEF a, b, c
    <2>2. Run(text, c, a, b)
      BY <2>1 DEF a, b, c
    <2>3. c \in Seq(Word) /\ Len(c) = b - a + 1 /\ a \in Nat /\ b \in Nat
          /\ \A j \in 1..Len(c) : c[j].at = a + j - 1
      BY <2>2, RunIs
    <2> QED  BY <2>2, <2>3 DEF a, b, c
  <1>3. ASSUME NEW p \in 1..Len(text)
        PROVE  \E i \in 1..m : From(cut[i]) <= p /\ p <= End(cut[i])
    <2> DEFINE T == {i \in 1..m : p <= End(cut[i])}
    <2>1. m \in T /\ T \in SUBSET Nat
      BY <1>1
    <2>2. PICK i \in T : \A k \in T : i <= k
      <3> HIDE DEF T
      <3> QED  BY <2>1, LeastNumber
    <2>3. i \in 1..m /\ p <= End(cut[i])
      BY <2>2
    <2>4. CASE i = 1
      BY <1>1, <2>3, <2>4
    <2>5. CASE i # 1
      <3>1. i - 1 \in 1..(m - 1) /\ i - 1 \in 1..m /\ (i - 1) + 1 = i /\ ~(i <= i - 1)
        BY <1>1, <2>3, <2>5
      <3>2. ~(p <= End(cut[i - 1]))
        BY <2>2, <3>1
      <3>3. From(cut[i]) <= End(cut[i - 1]) + 1
        BY <1>1, <3>1 DEF Follows
      <3>4. From(cut[i]) \in Nat /\ End(cut[i - 1]) \in Nat
        BY <1>2, <2>3, <3>1
      <3>5. From(cut[i]) <= p
        <4> HIDE DEF From, End
        <4> QED  BY <3>2, <3>3, <3>4
      <3> QED  BY <2>3, <3>5
    <2> QED  BY <2>4, <2>5
  <1>4. ASSUME NEW word \in ToSet(text) PROVE \E chunk \in ToSet(cut) : word \in ToSet(chunk)
    <2>1. PICK p \in 1..Len(text) : word = text[p]
      BY <1>1 DEF ToSet
    <2>2. PICK i \in 1..m : From(cut[i]) <= p /\ p <= End(cut[i])
      BY <1>3
    <2> DEFINE a == From(cut[i])
               b == End(cut[i])
               j == p - a + 1
    <2>3. Run(text, cut[i], a, b) /\ a \in Nat /\ b \in Nat /\ Len(cut[i]) = b - a + 1
      BY <1>2
    <2>4. a <= p /\ p <= b
      BY <2>2
    <2> HIDE DEF a, b
    <2>5. j \in 1..(b - a + 1) /\ a + j - 1 = p
      BY <1>1, <2>3, <2>4
    <2>6. cut[i][j] = text[p]
      BY <2>3, <2>5 DEF Run
    <2>7. cut[i][j] \in ToSet(cut[i]) /\ cut[i] \in ToSet(cut)
      BY <1>1, <2>3, <2>5 DEF ToSet
    <2> QED  BY <2>1, <2>6, <2>7
  <1>5. ASSUME NEW i \in 1..m, NEW j \in 1..(Len(cut[i]) - 1)
        PROVE  cut[i][j + 1].at = cut[i][j].at + 1
    <2> DEFINE c == cut[i]
               a == From(cut[i])
    <2>1. Len(c) \in Nat /\ a \in Nat /\ \A k \in 1..Len(c) : c[k].at = a + k - 1
      BY <1>2
    <2> HIDE DEF a
    <2>2. j \in 1..Len(c) /\ j + 1 \in 1..Len(c) /\ a + (j + 1) - 1 = (a + j - 1) + 1
      BY <2>1
    <2> QED  BY <2>1, <2>2
  <1>6. ASSUME NEW i \in 1..(m - 1)
        PROVE  /\ cut[i + 1][1].at <= End(cut[i]) + 1
               /\ ~overlap => cut[i + 1][1].at = End(cut[i]) + 1
    BY <1>1 DEF Follows, From
  <1> QED  BY <1>4, <1>5, <1>6 DEF Covers

(* A text that is cut loses no word, and its chunks keep the order of the  *)
(* words: _recursive_split and _hard_split, for texts of any length and    *)
(* chunks of any size.                                                     *)
THEOREM NothingLost ==
  ASSUME NEW text \in Texts, text # <<>>, NEW overlap \in BOOLEAN
  PROVE  Covers(Split(text, overlap), text, overlap)
  BY SplitChain, ChainCovers

(* A chunk encodes to more than ChunkTokens only if it is one word or was  *)
(* put together word by word, within the limit by that count: _hard_split  *)
(* does not encode what it joins.                                          *)
THEOREM PiecesBounded ==
  ASSUME NEW text \in Texts, text # <<>>, NEW overlap \in BOOLEAN,
         NEW chunk \in ToSet(Split(text, overlap))
  PROVE  Bounded(chunk)
  <1>1. Small(Split(text, overlap)) /\ Split(text, overlap) \in Seq(Seq(Word))
    BY SplitChain DEF Chain
  <1>2. PICK i \in 1..Len(Split(text, overlap)) : chunk = Split(text, overlap)[i]
    BY <1>1 DEF ToSet
  <1> QED  BY <1>1, <1>2 DEF Small

(* The texts that are looked at are among them. *)
LEMMA TextsOfAre ==
  ASSUME NEW text \in TextsOf(MaxWords)
  PROVE  text \in Texts /\ text # <<>>
  <1>1. PICK m \in 1..MaxWords : \E w \in [1..m -> Words] :
          text = [i \in 1..m |-> [at |-> i, tokens |-> w[i].tokens, joined |-> w[i].joined,
                               before |-> w[i].before]]
    BY DEF TextsOf
  <1>2. PICK w \in [1..m -> Words] :
          text = [i \in 1..m |-> [at |-> i, tokens |-> w[i].tokens, joined |-> w[i].joined,
                               before |-> w[i].before]]
    BY <1>1
  <1>3. m \in Nat /\ m # 0
    BY <1>1, ChunkingConstants
  <1>4. ASSUME NEW i \in 1..m
        PROVE  [at |-> i, tokens |-> w[i].tokens, joined |-> w[i].joined,
                before |-> w[i].before] \in Word
    <2>1. w[i] \in Words
      OBVIOUS
    <2>2. w[i].tokens \in Nat /\ w[i].joined \in Nat /\ w[i].before \in Nat
      BY <2>1, ChunkingConstants DEF Words
    <2> QED  BY <1>3, <2>2 DEF Word
  <1>5. text \in Seq(Word) /\ Len(text) = m
    BY <1>2, <1>3, <1>4
  <1>6. \A i \in 1..m : text[i].at = i
    BY <1>2
  <1> QED  BY <1>3, <1>5, <1>6 DEF Texts

-----------------------------------------------------------------------------
(* Lists without repetition.                                               *)

LEMMA PermutationIsList ==
  ASSUME NEW S, IsFiniteSet(S), NEW s \in SetToAllKPermutations(S)
  PROVE  s \in Seq(S) /\ IsInjective(s)
  <1>1. PICK T \in SUBSET S : s \in SetToSeqs(T)
    BY DEF SetToAllKPermutations
  <1>2. Cardinality(T) \in Nat
    BY FS_Subset, FS_CardinalityType
  <1>3. s \in [1..Cardinality(T) -> T] /\ IsInjective(s)
    BY <1>1 DEF SetToSeqs, IsInjective
  <1> QED  BY <1>2, <1>3

LEMMA ElementsOf ==
  ASSUME NEW S, NEW s \in Seq(S)
  PROVE  /\ ToSet(s) = {s[i] : i \in 1..Len(s)} /\ ToSet(s) \subseteq S
         /\ \A x : InList(s, x) <=> x \in ToSet(s)
  BY DEF ToSet, InList

(* As many elements as places. *)
LEMMA ListCounts ==
  ASSUME NEW S, NEW s \in Seq(S)
  PROVE  /\ IsFiniteSet(ToSet(s))
         /\ IsInjective(s) => Cardinality(ToSet(s)) = Len(s)
  <1>1. Len(s) \in Nat /\ IsFiniteSet(1..Len(s)) /\ Cardinality(1..Len(s)) = Len(s)
    <2>1. Len(s) \in Nat
      OBVIOUS
    <2> HIDE DEF ToSet
    <2> QED  BY <2>1, FS_Interval
  <1>2. s \in Surjection(1..Len(s), ToSet(s))
    BY DEF Surjection, ToSet
  <1>3. IsInjective(s) => s \in Bijection(1..Len(s), ToSet(s))
    BY <1>2 DEF Bijection, Injection, Surjection
  <1>4. IsFiniteSet(ToSet(s))
    BY <1>1, <1>2, FS_Surjection
  <1>5. IsInjective(s) => ExistsBijection(1..Len(s), ToSet(s))
    BY <1>3 DEF ExistsBijection
  <1> QED  BY <1>1, <1>4, <1>5, FS_CountingElements

LEMMA RankOf ==
  ASSUME NEW S, NEW s \in Seq(S), NEW x, InList(s, x)
  PROVE  /\ Rank(s, x) \in 1..Len(s) /\ s[Rank(s, x)] = x
         /\ IsInjective(s) => \A i \in 1..Len(s) : s[i] = x => i = Rank(s, x)
  BY DEF InList, Rank, IsInjective

-----------------------------------------------------------------------------
(* Scores.                                                                 *)

LEMMA DivisionFalls ==
  ASSUME NEW n \in Nat, NEW a \in Nat \ {0}, NEW b \in Nat \ {0}, a <= b
  PROVE  n \div a \in Nat /\ n \div b <= n \div a
  <1> DEFINE p == n \div a
             q == n \div b
  <1>1. p \in Nat /\ q \in Nat
    OBVIOUS
  <1>2. n < a * (p + 1) /\ b * q <= n
    OBVIOUS
  <1> HIDE DEF p, q
  <1>3. ASSUME p < q PROVE FALSE
    <2>1. p + 1 <= q
      BY <1>1, <1>3
    <2>2. a * (p + 1) <= a * q
      BY <1>1, <2>1
    <2>3. a * q <= b * q
      BY <1>1
    <2> DEFINE u == a * (p + 1)
               v == a * q
               w == b * q
    <2>4. u \in Int /\ v \in Int /\ w \in Int /\ u <= v /\ v <= w /\ n < u /\ w <= n
      BY <1>1, <1>2, <2>2, <2>3
    <2> HIDE DEF u, v, w
    <2> QED  BY <2>4
  <1> QED  BY <1>1, <1>3 DEF p, q

(* What the three retrievers may give: lists of hits without repetition. *)
RankLists(S) == [Retrievers -> {s \in Seq(S) : IsInjective(s)}]

LEMMA ListOf ==
  ASSUME NEW S, NEW lists \in RankLists(S), NEW r \in Retrievers
  PROVE  lists[r] \in Seq(S) /\ IsInjective(lists[r])
  BY DEF RankLists

LEMMA PartOf ==
  ASSUME NEW S, NEW lists \in RankLists(S), NEW r \in Retrievers, NEW x
  PROVE  /\ Part(lists, r, x) \in Nat
         /\ InList(lists[r], x) =>
              /\ Rank(lists[r], x) \in 1..Len(lists[r])
              /\ K(r) + Rank(lists[r], x) \in Nat \ {0}
              /\ Part(lists, r, x) = Scale \div (K(r) + Rank(lists[r], x))
         /\ ~InList(lists[r], x) => Part(lists, r, x) = 0
  <1>1. CASE InList(lists[r], x)
    <2>1. Rank(lists[r], x) \in 1..Len(lists[r]) /\ Len(lists[r]) \in Nat
      BY <1>1, ListOf, RankOf
    <2>2. K(r) + Rank(lists[r], x) \in Nat \ {0}
      BY <2>1 DEF K
    <2>3. Scale \div (K(r) + Rank(lists[r], x)) \in Nat
      <3>1. Scale \in Nat
        BY DEF Scale
      <3> QED  BY <2>2, <3>1, DivisionFalls
    <2> QED  BY <1>1, <2>1, <2>2, <2>3 DEF Part
  <1>2. CASE ~InList(lists[r], x)
    BY <1>2 DEF Part
  <1> QED  BY <1>1, <1>2

LEMMA ScoreIsNat ==
  ASSUME NEW S, NEW lists \in RankLists(S), NEW x
  PROVE  Score(lists, x) \in Nat
  <1>1. \A r \in Retrievers : Part(lists, r, x) \in Nat
    BY PartOf
  <1> QED  BY <1>1 DEF Score, Retrievers

LEMMA FoundIs ==
  ASSUME NEW S, NEW lists \in RankLists(S)
  PROVE  /\ \A x : x \in Found(lists) <=> \E r \in Retrievers : InList(lists[r], x)
         /\ Found(lists) = ToSet(lists["dense"]) \cup ToSet(lists["bm25"]) \cup ToSet(lists["entity"])
         /\ IsFiniteSet(Found(lists)) /\ Found(lists) \subseteq S
  <1>1. \A x : x \in Found(lists) <=> \E r \in Retrievers : InList(lists[r], x)
    BY DEF Found, InList
  <1>2. \A r \in Retrievers : \A x : InList(lists[r], x) <=> x \in ToSet(lists[r])
    BY ListOf, ElementsOf
  <1>3. Found(lists) = ToSet(lists["dense"]) \cup ToSet(lists["bm25"]) \cup ToSet(lists["entity"])
    <2> HIDE DEF Found
    <2> QED  BY <1>1, <1>2 DEF Retrievers
  <1>4. \A r \in Retrievers : IsFiniteSet(ToSet(lists[r])) /\ ToSet(lists[r]) \subseteq S
    BY ListOf, ListCounts, ElementsOf
  <1>5. IsFiniteSet(Found(lists)) /\ Found(lists) \subseteq S
    BY <1>3, <1>4, FS_Union DEF Retrievers
  <1> QED  BY <1>1, <1>3, <1>5

-----------------------------------------------------------------------------
(* The order of the fusion.                                                *)

AllHits(lists) == lists["dense"] \o lists["bm25"] \o lists["entity"]

(* Where a retriever's hits begin among all. *)
Offset(lists, r) ==
  IF r = "dense" THEN 0
  ELSE IF r = "bm25" THEN Len(lists["dense"])
  ELSE Len(lists["dense"]) + Len(lists["bm25"])

LEMMA AllHitsAre ==
  ASSUME NEW S, NEW lists \in RankLists(S)
  PROVE  /\ AllHits(lists) \in Seq(S) /\ Len(AllHits(lists)) \in Nat
         /\ \A r \in Retrievers : Offset(lists, r) \in Nat /\ Len(lists[r]) \in Nat
         /\ \A r \in Retrievers : \A i \in 1..Len(lists[r]) :
              /\ Offset(lists, r) + i \in 1..Len(AllHits(lists))
              /\ AllHits(lists)[Offset(lists, r) + i] = lists[r][i]
         /\ \A k \in 1..Len(AllHits(lists)) :
              \E r \in Retrievers : \E i \in 1..Len(lists[r]) : k = Offset(lists, r) + i
  <1> DEFINE d == lists["dense"]
             b == lists["bm25"]
             e == lists["entity"]
             all == (d \o b) \o e
  <1>1. d \in Seq(S) /\ b \in Seq(S) /\ e \in Seq(S)
    BY ListOf DEF Retrievers
  <1> HIDE DEF d, b, e
  <1>2. /\ all \in Seq(S) /\ Len(all) \in Nat /\ Len(all) = Len(d) + Len(b) + Len(e)
        /\ Len(d) \in Nat /\ Len(b) \in Nat /\ Len(e) \in Nat
    BY <1>1
  <1>3. /\ \A i \in 1..Len(d) : all[i] = d[i]
        /\ \A i \in 1..Len(b) : all[Len(d) + i] = b[i]
        /\ \A i \in 1..Len(e) : all[Len(d) + Len(b) + i] = e[i]
    BY <1>1
  <1>4. AllHits(lists) = all
    BY DEF AllHits, d, b, e
  <1> HIDE DEF all
  <1>7. /\ lists["dense"] = d /\ lists["bm25"] = b /\ lists["entity"] = e
        /\ Offset(lists, "dense") = 0 /\ Offset(lists, "bm25") = Len(d)
        /\ Offset(lists, "entity") = Len(d) + Len(b)
    BY DEF Offset, d, b, e
  <1>5. ASSUME NEW r \in Retrievers, NEW i \in 1..Len(lists[r])
        PROVE  Offset(lists, r) + i \in 1..Len(all) /\ all[Offset(lists, r) + i] = lists[r][i]
    <2>1. CASE r = "dense"
      BY <1>2, <1>3, <1>7, <2>1
    <2>2. CASE r = "bm25"
      <3>1. i \in 1..Len(b) /\ lists[r] = b /\ Offset(lists, r) = Len(d)
        BY <1>7, <2>2
      <3> QED  BY <1>2, <1>3, <3>1
    <2>3. CASE r = "entity"
      BY <1>2, <1>3, <1>7, <2>3
    <2> QED  BY <2>1, <2>2, <2>3 DEF Retrievers
  <1>6. ASSUME NEW k \in 1..Len(all)
        PROVE  \E r \in Retrievers : \E i \in 1..Len(lists[r]) : k = Offset(lists, r) + i
    <2>1. CASE k <= Len(d)
      <3>1. k \in 1..Len(lists["dense"]) /\ k = Offset(lists, "dense") + k
        BY <1>2, <1>7, <2>1
      <3> QED  BY <3>1 DEF Retrievers
    <2>2. CASE k > Len(d) /\ k <= Len(d) + Len(b)
      <3>1. /\ k - Len(d) \in 1..Len(lists["bm25"])
            /\ k = Offset(lists, "bm25") + (k - Len(d))
        BY <1>2, <1>7, <2>2
      <3> QED  BY <3>1 DEF Retrievers
    <2>3. CASE k > Len(d) + Len(b)
      <3>1. /\ k - (Len(d) + Len(b)) \in 1..Len(lists["entity"])
            /\ k = Offset(lists, "entity") + (k - (Len(d) + Len(b)))
        BY <1>2, <1>7, <2>3
      <3> QED  BY <3>1 DEF Retrievers
    <2> QED  BY <1>2, <2>1, <2>2, <2>3
  <1>8. ASSUME NEW r \in Retrievers PROVE Offset(lists, r) \in Nat /\ Len(lists[r]) \in Nat
    <2>1. r = "dense" \/ r = "bm25" \/ r = "entity"
      BY DEF Retrievers
    <2>2. Len(lists[r]) \in Nat
      BY <1>2, <1>7, <2>1
    <2>3. Offset(lists, r) \in {0, Len(d), Len(d) + Len(b)}
      BY <1>7, <2>1
    <2> QED  BY <1>2, <2>2, <2>3
  <1> QED  BY <1>2, <1>4, <1>5, <1>6, <1>8

LEMMA RegisteredOf ==
  ASSUME NEW S, NEW lists \in RankLists(S), NEW x \in Found(lists)
  PROVE  /\ Registered(lists, x) \in 1..Len(AllHits(lists))
         /\ AllHits(lists)[Registered(lists, x)] = x
         /\ \A j \in 1..(Registered(lists, x) - 1) : AllHits(lists)[j] # x
  <1> DEFINE all == AllHits(lists)
             first(i) == all[i] = x /\ \A j \in 1..(i - 1) : all[j] # x
             T == {i \in 1..Len(all) : all[i] = x}
  <1>1. all \in Seq(S) /\ Len(all) \in Nat /\ InList(all, x)
    <2>1. PICK r \in Retrievers : InList(lists[r], x)
      BY FoundIs
    <2>2. PICK i \in 1..Len(lists[r]) : lists[r][i] = x
      BY <2>1 DEF InList
    <2>3. all[Offset(lists, r) + i] = x /\ Offset(lists, r) + i \in 1..Len(all)
      BY <2>2, AllHitsAre
    <2> QED  BY <2>3, AllHitsAre DEF InList
  <1>2. Registered(lists, x) = CHOOSE i \in 1..Len(all) : first(i)
    BY DEF Registered, AllHits
  <1> HIDE DEF all
  <1>3. T \in SUBSET Nat /\ T # {}
    BY <1>1 DEF InList
  <1>4. PICK i \in T : \A m \in T : i <= m
    BY <1>3, LeastNumber
  <1>5. i \in 1..Len(all) /\ first(i)
    <2>1. i \in 1..Len(all) /\ all[i] = x
      OBVIOUS
    <2>2. ASSUME NEW j \in 1..(i - 1) PROVE all[j] # x
      <3>1. j \in 1..Len(all) /\ ~(i <= j)
        BY <1>1, <2>1
      <3> QED  BY <1>4, <3>1
    <2> QED  BY <2>1, <2>2
  <1> HIDE DEF T
  <1>6. /\ (CHOOSE k \in 1..Len(all) : first(k)) \in 1..Len(all)
        /\ first(CHOOSE k \in 1..Len(all) : first(k))
    <2> HIDE DEF first
    <2> QED  BY <1>5
  <1> QED  BY <1>2, <1>6 DEF all

StrictOrder(F, R) ==
  /\ \A x \in F : <<x, x>> \notin R
  /\ \A x, y, z \in F : <<x, y>> \in R /\ <<y, z>> \in R => <<x, z>> \in R
  /\ \A x, y \in F : x = y \/ <<x, y>> \in R \/ <<y, x>> \in R

(* In a strict order of finitely many, the number of those before one says *)
(* which one it is.                                                        *)
LEMMA PlacesAreTaken ==
  ASSUME NEW F, IsFiniteSet(F), NEW R, StrictOrder(F, R),
         NEW place, place = [x \in F |-> Cardinality({y \in F : <<y, x>> \in R})]
  PROVE  /\ place \in Bijection(F, 0..(Cardinality(F) - 1))
         /\ \A x, y \in F : <<x, y>> \in R => place[x] < place[y]
  <1> DEFINE down(x) == {y \in F : <<y, x>> \in R}
             n == Cardinality(F)
  <1>1. n \in Nat
    BY FS_CardinalityType
  <1>2. ASSUME NEW x \in F
        PROVE  IsFiniteSet(down(x)) /\ Cardinality(down(x)) \in 0..(n - 1)
    <2>1. down(x) \in SUBSET F /\ down(x) # F
      BY DEF StrictOrder
    <2> HIDE DEF down
    <2>2. /\ IsFiniteSet(down(x)) /\ Cardinality(down(x)) <= n
          /\ (n = Cardinality(down(x)) => F = down(x))
      BY <2>1, FS_Subset
    <2>3. Cardinality(down(x)) \in Nat
      BY <2>2, FS_CardinalityType
    <2> QED  BY <1>1, <2>1, <2>2, <2>3
  <1>3. ASSUME NEW x \in F, NEW y \in F, <<x, y>> \in R
        PROVE  Cardinality(down(x)) < Cardinality(down(y))
    <2>1. down(x) \in SUBSET down(y)
      BY <1>3 DEF StrictOrder
    <2>2. x \in down(y) /\ x \notin down(x)
      BY <1>3 DEF StrictOrder
    <2>3. IsFiniteSet(down(y)) /\ Cardinality(down(x)) \in Int /\ Cardinality(down(y)) \in Int
      <3>1. n - 1 \in Int
        BY <1>1
      <3> HIDE DEF n, down
      <3> QED  BY <1>2, <3>1
    <2> HIDE DEF down
    <2>4. /\ Cardinality(down(x)) <= Cardinality(down(y))
          /\ Cardinality(down(y)) = Cardinality(down(x)) => down(y) = down(x)
      BY <2>1, <2>3, FS_Subset
    <2> QED  BY <2>2, <2>3, <2>4
  <1>4. place \in [F -> 0..(n - 1)] /\ \A x \in F : place[x] = Cardinality(down(x))
    BY <1>2
  <1>5. place \in Injection(F, 0..(n - 1))
    <2>1. ASSUME NEW x \in F, NEW y \in F, place[x] = place[y] PROVE x = y
      <3>1. Cardinality(down(x)) = Cardinality(down(y)) /\ Cardinality(down(x)) \in Int
        <4>1. n - 1 \in Int
          BY <1>1
        <4> HIDE DEF n, down
        <4> QED  BY <1>2, <1>4, <2>1, <4>1
      <3>2. x = y \/ <<x, y>> \in R \/ <<y, x>> \in R
        BY DEF StrictOrder
      <3> DEFINE c(z) == Cardinality(down(z))
      <3>3. (<<x, y>> \in R => c(x) < c(y)) /\ (<<y, x>> \in R => c(y) < c(x))
        BY <1>3
      <3>4. c(x) = c(y) /\ c(x) \in Int
        BY <3>1
      <3> HIDE DEF c
      <3> QED  BY <3>2, <3>3, <3>4
    <2> HIDE DEF down, n
    <2> QED  BY <1>4, <2>1 DEF Injection, IsInjective
  <1>6. IsFiniteSet(0..(n - 1)) /\ Cardinality(0..(n - 1)) = n
    <2> HIDE DEF n
    <2>1. 0 \in Int /\ n - 1 \in Int
      BY <1>1
    <2> QED  BY <1>1, <2>1, FS_Interval
  <1> HIDE DEF n
  <1>7. place \in Surjection(F, 0..(n - 1))
    BY <1>5, <1>6, FS_Injection DEF n
  <1> QED  BY <1>3, <1>4, <1>5, <1>7 DEF Bijection, n

BeforeIn(lists) == {p \in Found(lists) \X Found(lists) : Before(lists, p[1], p[2])}

LEMMA BeforeOrders ==
  ASSUME NEW S, NEW lists \in RankLists(S)
  PROVE  StrictOrder(Found(lists), BeforeIn(lists))
  <1> DEFINE F == Found(lists)
             sc(x) == Score(lists, x)
             at(x) == Registered(lists, x)
  <1>1. \A x \in F : sc(x) \in Nat
    BY ScoreIsNat
  <1>2. \A x \in F : at(x) \in Nat /\ AllHits(lists)[at(x)] = x
    <2>1. Len(AllHits(lists)) \in Nat
      BY AllHitsAre
    <2> HIDE DEF F
    <2> QED  BY <2>1, RegisteredOf DEF F
  <1>3. \A x, y \in F : <<x, y>> \in BeforeIn(lists)
                          <=> sc(x) > sc(y) \/ (sc(x) = sc(y) /\ at(x) < at(y))
    BY DEF BeforeIn, Before
  <1> HIDE DEF F, sc, at
  <1>4. \A x, y \in F : at(x) = at(y) => x = y
    BY <1>2
  <1>5. StrictOrder(F, BeforeIn(lists))
    BY <1>1, <1>2, <1>3, <1>4 DEF StrictOrder
  <1> QED  BY <1>5 DEF F

(* As many hits are answered as asked for, if there are so many, and every *)
(* one that is answered has those before it answered, too.                 *)
LEMMA TopCounts ==
  ASSUME NEW S, NEW lists \in RankLists(S), NEW n \in Nat
  PROVE  /\ Top(lists, n) \subseteq Found(lists)
         /\ Cardinality(Top(lists, n)) =
              (IF Cardinality(Found(lists)) < n THEN Cardinality(Found(lists)) ELSE n)
         /\ \A x, y \in Found(lists) :
              Before(lists, x, y) /\ y \in Top(lists, n) => x \in Top(lists, n)
  <1> DEFINE F == Found(lists)
             R == BeforeIn(lists)
             m == Cardinality(F)
             place == [x \in F |-> Cardinality({y \in F : <<y, x>> \in R})]
             T == Top(lists, n)
             k == IF m < n THEN m ELSE n
  <1>1. IsFiniteSet(F) /\ m \in Nat
    BY FoundIs, FS_CardinalityType
  <1>2. /\ place \in Bijection(F, 0..(m - 1))
        /\ \A x, y \in F : <<x, y>> \in R => place[x] < place[y]
    <2>1. StrictOrder(F, R)
      BY BeforeOrders
    <2> HIDE DEF F, R
    <2> QED  BY <1>1, <2>1, PlacesAreTaken
  <1>3. T = {x \in F : place[x] < n}
    <2>1. ASSUME NEW x \in F PROVE Place(lists, x) = place[x]
      <3>1. {y \in F : Before(lists, y, x)} = {y \in F : <<y, x>> \in R}
        BY DEF BeforeIn
      <3> QED  BY <3>1 DEF Place
    <2> HIDE DEF place
    <2> QED  BY <2>1 DEF Top
  <1>4. \A x, y \in F : Before(lists, x, y) => <<x, y>> \in R
    BY DEF BeforeIn
  <1> HIDE DEF F, R, place, T
  <1>5. /\ place \in [F -> 0..(m - 1)] /\ \A x, y \in F : place[x] = place[y] => x = y
        /\ \A i \in 0..(m - 1) : \E x \in F : place[x] = i
    BY <1>2 DEF Bijection, Injection, Surjection, IsInjective
  <1> HIDE DEF m
  <1>6. k \in Nat /\ IsFiniteSet(T) /\ T \subseteq F
    <2>1. T \in SUBSET F
      BY <1>3
    <2> QED  BY <1>1, <2>1, FS_Subset
  <1>7. Cardinality(T) = k
    <2> DEFINE g == [x \in T |-> place[x]]
    <2>1. \A x \in T : place[x] \in 0..(k - 1)
      BY <1>1, <1>3, <1>5
    <2>2. g \in [T -> 0..(k - 1)] /\ \A x, y \in T : g[x] = g[y] => x = y
      BY <1>5, <1>6, <2>1
    <2>3. ASSUME NEW i \in 0..(k - 1) PROVE \E x \in T : g[x] = i
      <3>1. i \in 0..(m - 1) /\ i < n
        BY <1>1
      <3>2. PICK x \in F : place[x] = i
        BY <1>5, <3>1
      <3> QED  BY <1>3, <3>1, <3>2
    <2>4. g \in Bijection(T, 0..(k - 1))
      <3> HIDE DEF g, k
      <3> QED  BY <2>2, <2>3 DEF Bijection, Injection, Surjection, IsInjective
    <2>5. Cardinality(0..(k - 1)) = k
      <3> HIDE DEF k
      <3>1. 0 \in Int /\ k - 1 \in Int
        BY <1>6
      <3> QED  BY <1>6, <3>1, FS_Interval
    <2> HIDE DEF g, k
    <2> QED  BY <1>6, <2>4, <2>5, FS_Bijection DEF ExistsBijection
  <1>8. ASSUME NEW x \in F, NEW y \in F, Before(lists, x, y), y \in T PROVE x \in T
    <2>1. place[x] < place[y] /\ place[y] < n /\ place[x] \in Int /\ place[y] \in Int
      <3>1. place[x] \in 0..(m - 1) /\ place[y] \in 0..(m - 1)
        BY <1>5
      <3>2. <<x, y>> \in R
        BY <1>4, <1>8
      <3>3. place[x] < place[y]
        BY <1>2, <3>2
      <3>4. place[y] < n
        BY <1>3, <1>8
      <3> QED  BY <1>1, <3>1, <3>3, <3>4
    <2> QED  BY <1>3, <2>1
  <1> QED  BY <1>6, <1>7, <1>8 DEF F, T, m

-----------------------------------------------------------------------------
(* What the fusion promises.                                               *)

(* A hit that is ahead of another in every list that has the other is      *)
(* ahead of it in the fusion and, if that is answered, answered too: for   *)
(* lists of any length.                                                    *)
THEOREM FusionOrdered ==
  ASSUME NEW S, NEW lists \in RankLists(S),
         NEW x \in Found(lists), NEW y \in Found(lists),
         \A r \in Retrievers : InList(lists[r], y) =>
            InList(lists[r], x) /\ Rank(lists[r], x) < Rank(lists[r], y)
  PROVE  Before(lists, x, y) /\ \A n \in Nat : y \in Top(lists, n) => x \in Top(lists, n)
  <1>1. ASSUME NEW r \in Retrievers PROVE Part(lists, r, y) <= Part(lists, r, x)
    <2>1. CASE InList(lists[r], y)
      <3> DEFINE a == K(r) + Rank(lists[r], x)
                 b == K(r) + Rank(lists[r], y)
      <3>1. /\ a \in Nat \ {0} /\ b \in Nat \ {0}
            /\ Part(lists, r, x) = Scale \div a /\ Part(lists, r, y) = Scale \div b
        BY <2>1, PartOf
      <3>2. a <= b
        <4>1. Rank(lists[r], x) < Rank(lists[r], y) /\ InList(lists[r], x)
          BY <2>1
        <4>2. Rank(lists[r], x) \in 1..Len(lists[r])
          BY <4>1, PartOf
        <4>3. Rank(lists[r], y) \in 1..Len(lists[r])
          BY <2>1, PartOf
        <4>4. Len(lists[r]) \in Nat
          BY ListOf
        <4>5. K(r) \in Nat
          BY DEF K
        <4> QED  BY <4>1, <4>2, <4>3, <4>4, <4>5
      <3>3. Scale \in Nat
        BY DEF Scale
      <3> HIDE DEF a, b
      <3> QED  BY <3>1, <3>2, <3>3, DivisionFalls
    <2>2. CASE ~InList(lists[r], y)
      <3>1. Part(lists, r, y) = 0 /\ Part(lists, r, x) \in Nat
        BY <2>2, PartOf
      <3> QED  BY <3>1
    <2> QED  BY <2>1, <2>2
  <1>2. Score(lists, y) <= Score(lists, x)
    <2>1. \A r \in Retrievers : Part(lists, r, x) \in Nat /\ Part(lists, r, y) \in Nat
      BY PartOf
    <2> QED  BY <1>1, <2>1 DEF Score, Retrievers
  <1>3. Registered(lists, x) < Registered(lists, y)
    <2> DEFINE all == AllHits(lists)
               u == Registered(lists, x)
               v == Registered(lists, y)
    <2>1. /\ u \in 1..Len(all) /\ \A j \in 1..(u - 1) : all[j] # x
          /\ v \in 1..Len(all) /\ all[v] = y /\ Len(all) \in Nat
      BY RegisteredOf, AllHitsAre
    <2>2. PICK r \in Retrievers : \E i \in 1..Len(lists[r]) : v = Offset(lists, r) + i
      BY <2>1, AllHitsAre
    <2>3. PICK i \in 1..Len(lists[r]) : v = Offset(lists, r) + i
      BY <2>2
    <2>4. lists[r][i] = y /\ InList(lists[r], y) /\ i = Rank(lists[r], y)
      <3>1. lists[r][i] = y
        <4>1. all[Offset(lists, r) + i] = lists[r][i]
          BY AllHitsAre
        <4> QED  BY <2>1, <2>3, <4>1
      <3>2. InList(lists[r], y)
        BY <3>1 DEF InList
      <3> QED  BY <3>1, <3>2, ListOf, RankOf
    <2> DEFINE h == Rank(lists[r], x)
    <2>5. h \in 1..Len(lists[r]) /\ lists[r][h] = x /\ h < i
      BY <2>4, ListOf, RankOf
    <2>6. Offset(lists, r) + h \in 1..Len(all) /\ all[Offset(lists, r) + h] = x
      BY <2>5, AllHitsAre
    <2>7. Offset(lists, r) \in Nat /\ Len(lists[r]) \in Nat
      BY AllHitsAre
    <2> HIDE DEF all, u, v, h
    <2>8. ~(Offset(lists, r) + h \in 1..(u - 1))
      BY <2>1, <2>6
    <2>9. u <= Offset(lists, r) + h
      BY <2>1, <2>5, <2>6, <2>7, <2>8
    <2>10. u < v
      BY <2>1, <2>3, <2>5, <2>7, <2>9
    <2> QED  BY <2>10 DEF u, v
  <1>4. Before(lists, x, y)
    <2>1. Score(lists, x) \in Nat /\ Score(lists, y) \in Nat
      BY ScoreIsNat
    <2> QED  BY <1>2, <1>3, <2>1 DEF Before
  <1> QED  BY <1>4, TopCounts

Via(lists, x) == {r \in Retrievers : InList(lists[r], x)}

(* What two retrievers found is ahead of what one found, however the       *)
(* entities weigh, in lists of 21: that is what is fetched for up to seven *)
(* results, and the inspection endpoint allows ten.                        *)
THEOREM AgreementLeads ==
  ASSUME NEW S, NEW lists \in RankLists(S), \A r \in Retrievers : Len(lists[r]) <= 21,
         NEW x, NEW y, Cardinality(Via(lists, x)) > 1, Cardinality(Via(lists, y)) = 1
  PROVE  Before(lists, x, y)
  <1> DEFINE low == Scale \div 81
             high == Scale \div 41
  <1>0. Scale \in Nat /\ low \in Nat /\ high \in Nat /\ high < 2 * low
    BY SMT DEF Scale
  <1> HIDE DEF low, high
  <1>1. \A z : IsFiniteSet(Via(lists, z))
    <2>1. ASSUME NEW z PROVE IsFiniteSet(Via(lists, z))
      <3>1. Via(lists, z) \in SUBSET Retrievers
        BY DEF Via
      <3>2. IsFiniteSet(Retrievers)
        <4>1. Retrievers = ({} \cup {"dense"}) \cup {"bm25"} \cup {"entity"}
          BY DEF Retrievers
        <4> QED  BY <4>1, FS_EmptySet, FS_AddElement
      <3> QED  BY <3>1, <3>2, FS_Subset
    <2> QED  BY <2>1
  <1>2. \A r \in Retrievers : \A z : Part(lists, r, z) \in Nat
    BY PartOf
  <1>3. ASSUME NEW r \in Via(lists, x) PROVE low <= Part(lists, r, x)
    <2> DEFINE a == K(r) + Rank(lists[r], x)
    <2>1. r \in Retrievers /\ InList(lists[r], x)
      BY DEF Via
    <2>2. a \in Nat \ {0} /\ Part(lists, r, x) = Scale \div a
      BY <2>1, PartOf
    <2>3. a <= 81
      <3>1. Rank(lists[r], x) \in 1..Len(lists[r])
        BY <2>1, PartOf
      <3>2. Len(lists[r]) \in Nat /\ Len(lists[r]) <= 21
        BY <2>1, ListOf
      <3> QED  BY <3>1, <3>2 DEF K
    <2> DEFINE b == 81
    <2>4. b \in Nat \ {0} /\ a <= b
      BY <2>3
    <2> HIDE DEF a, b
    <2>5. Scale \div b <= Scale \div a
      BY <1>0, <2>2, <2>4, DivisionFalls
    <2> QED  BY <2>2, <2>5 DEF low, b
  <1>4. PICK s \in Retrievers : Via(lists, y) = {s}
    <2>1. \E s : Via(lists, y) = {s}
      BY <1>1, FS_Singleton
    <2> QED  BY <2>1 DEF Via
  <1>5. Part(lists, s, y) <= high
    <2> DEFINE a == K(s) + Rank(lists[s], y)
    <2>1. InList(lists[s], y)
      BY <1>4 DEF Via
    <2>2. a \in Nat \ {0} /\ Part(lists, s, y) = Scale \div a
      BY <2>1, PartOf
    <2>3. 41 <= a
      <3>1. Rank(lists[s], y) \in 1..Len(lists[s])
        BY <2>1, PartOf
      <3>2. Len(lists[s]) \in Nat
        BY ListOf
      <3> QED  BY <3>1, <3>2 DEF K
    <2> DEFINE b == 41
    <2>4. b \in Nat \ {0} /\ b <= a
      BY <2>3
    <2> HIDE DEF a, b
    <2>5. Scale \div a <= Scale \div b
      BY <1>0, <2>2, <2>4, DivisionFalls
    <2> QED  BY <2>2, <2>5 DEF high, b
  <1>6. Score(lists, y) = Part(lists, s, y)
    <2>1. \A r \in Retrievers \ {s} : Part(lists, r, y) = 0
      BY <1>4, PartOf DEF Via
    <2> QED  BY <1>2, <2>1 DEF Score, Retrievers
  <1>7. PICK p \in Via(lists, x), q \in Via(lists, x) : p # q
    <2>1. SUFFICES ASSUME \A p, q \in Via(lists, x) : p = q PROVE FALSE
      OBVIOUS
    <2>2. Via(lists, x) = {} \/ \E p : Via(lists, x) = {p}
      BY <2>1
    <2>3. Cardinality(Via(lists, x)) \in {0, 1}
      BY <1>1, <2>2, FS_EmptySet, FS_Singleton
    <2> QED  BY <2>3
  <1>8. Score(lists, x) >= Part(lists, p, x) + Part(lists, q, x)
    <2>1. p \in Retrievers /\ q \in Retrievers
      BY DEF Via
    <2> QED  BY <1>2, <1>7, <2>1 DEF Score, Retrievers
  <1>9. Score(lists, x) > Score(lists, y)
    <2>1. /\ Part(lists, p, x) \in Nat /\ Part(lists, q, x) \in Nat /\ Part(lists, s, y) \in Nat
          /\ low <= Part(lists, p, x) /\ low <= Part(lists, q, x)
      BY <1>2, <1>3 DEF Via
    <2>2. Score(lists, x) \in Nat
      BY ScoreIsNat
    <2> QED  BY <1>0, <1>5, <1>6, <1>8, <2>1, <2>2
  <1> QED  BY <1>9 DEF Before
=============================================================================
