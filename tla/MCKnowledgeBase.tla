-------------------------- MODULE MCKnowledgeBase --------------------------
(* An instance of KnowledgeBase: an upload has the file name of a seed. *)
EXTENDS KnowledgeBase, TLC

CONSTANTS u1, s1, s2, faq, policy

Names == (u1 :> faq) @@ (s1 :> faq) @@ (s2 :> policy)
Both == <<"fin", "kb">>

=============================================================================
