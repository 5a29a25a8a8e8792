----------------------------- MODULE RankFusion -----------------------------
(***************************************************************************)
(* Reciprocal rank fusion of the three retrievers of a search of the       *)
(* knowledge base, and what its consumers make of the score.  A hit at     *)
(* rank r of a retriever is worth 1/(K+r) there.  The fractions are taken  *)
(* as multiples of 1/Scale, exact for ranks up to 3, else rounded down.    *)
(***************************************************************************)
EXTENDS Naturals, Sequences, FiniteSets

Retrievers == {"dense", "bm25", "entity"}

(* A hit of the entity index weighs more at the same rank. *)
K(r) == IF r = "entity" THEN 40 ELSE 60

(* The least common multiple of 41..43 and 61..63. *)
Scale == 420062958

InList(s, x) == \E i \in 1..Len(s) : s[i] = x
Rank(s, x) == CHOOSE i \in 1..Len(s) : s[i] = x

(* Variant: the retriever's best hit comes last. *)
PartFromEnd(lists, r, x) ==
  IF InList(lists[r], x) THEN Scale \div (K(r) + Len(lists[r]) + 1 - Rank(lists[r], x)) ELSE 0
Part(lists, r, x) ==
  IF InList(lists[r], x) THEN Scale \div (K(r) + Rank(lists[r], x)) ELSE 0

(* Variant: a later retriever's score replaces the earlier one's. *)
ScoreLast(lists, x) ==
  IF InList(lists["entity"], x) THEN Part(lists, "entity", x)
  ELSE IF InList(lists["bm25"], x) THEN Part(lists, "bm25", x)
  ELSE Part(lists, "dense", x)

Score(lists, x) ==
  Part(lists, "dense", x) + Part(lists, "bm25", x) + Part(lists, "entity", x)

Found(lists) ==
  UNION {{lists[r][i] : i \in 1..Len(lists[r])} : r \in Retrievers}

(* Equal scores keep the order in which the hits were registered.          *)
Registered(lists, x) ==
  LET all == lists["dense"] \o lists["bm25"] \o lists["entity"]
  IN CHOOSE i \in 1..Len(all) : all[i] = x /\ \A j \in 1..(i - 1) : all[j] # x

Before(lists, x, y) ==
  \/ Score(lists, x) > Score(lists, y)
  \/ /\ Score(lists, x) = Score(lists, y)
     /\ Registered(lists, x) < Registered(lists, y)

Place(lists, x) == Cardinality({y \in Found(lists) : Before(lists, y, x)})

(* Variant: one hit too many. *)
TopAndNext(lists, n) == {x \in Found(lists) : Place(lists, x) <= n}
(* The first n of the fused order. *)
Top(lists, n) == {x \in Found(lists) : Place(lists, x) < n}

(* What faq_capability takes for an answer: a relevance of 0.20. *)
Surfaces(score) == score >= Scale \div 5

Leads(lists, x) == \A r \in Retrievers : Len(lists[r]) > 0 /\ lists[r][1] = x

=============================================================================
