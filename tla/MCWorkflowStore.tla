--------------------------- MODULE MCWorkflowStore --------------------------
(* The small instance of WorkflowStore for TLC. *)
EXTENDS WorkflowStore, TLC

\* Requests are interchangeable.
EditorsSwap == Permutations(Editors)

=============================================================================
