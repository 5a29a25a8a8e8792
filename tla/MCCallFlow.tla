---------------------------- MODULE MCCallFlow ----------------------------
(* Small instances of CallFlow for TLC. *)
EXTENDS CallFlow

CONSTANTS t1, t2

Says(signal) == [Filler EXCEPT !.signal = signal]
Phone(p) == [Filler EXCEPT !.phone = p]
Code(o) == [Filler EXCEPT !.otp = o]
Txn(t) == [Filler EXCEPT !.txn = t]
Issue(w, router) == [Filler EXCEPT !.issue = w, !.router = router]

\* A caller who passes the verification, and states issues with or without
\* their transaction, changes their mind and leaves.
Cases ==
  {Filler, Phone("known"), Code("code"), Says("cancel")}
  \cup {Txn(t) : t \in Txns}
  \cup {Issue(w, "keyword") : w \in Workflows}
  \cup {[Issue(w, "keyword") EXCEPT !.txn = t] : w \in Workflows, t \in Txns}
  \cup {[Issue(w, "keyword") EXCEPT !.signal = "cancel"] : w \in Workflows}

\* What else a caller may say, and the same caller with it.
Odd ==
  {Says("transfer"), Code("wrong")}
  \cup {Issue(w, "embedding") : w \in Workflows}
Mixed == Cases \cup Odd
Parts == Cases \cup {Phone("part")}

\* Bound: what is odd is said in the first workflow, before the last code and
\* before an interruption.
OddEarly ==
  otpSends = MaxSends \/ state.completed # {} \/ interrupts > 0 => said \notin Odd

\* A caller who states an issue with its transaction, passes the verification,
\* and leaves a workflow while naming the next one.
Changes ==
  {Filler, Phone("known"), Code("code"), Says("cancel")}
  \cup {[Issue(w, "keyword") EXCEPT !.txn = t] : w \in Workflows, t \in Txns}
  \cup {[Issue(w, "keyword") EXCEPT !.signal = "cancel"] : w \in Workflows}
=============================================================================
