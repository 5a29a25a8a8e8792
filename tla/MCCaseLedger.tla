---------------------------- MODULE MCCaseLedger ----------------------------
(* Small instances of CaseLedger for TLC. *)
EXTENDS CaseLedger, TLC

CONSTANTS c1, c2, p1, p2, a1, k1, k2, t1

\* One transaction and its owner.
OneOwner == t1 :> k1

\* Two tools in flight, next to a specialist, on the one transaction of one
\* customer: every race for a row.  The tasks may change places.
RaceCallOf == p1 :> c1 @@ p2 :> c1
RaceSwap   == {p1 :> p2 @@ p2 :> p1}

\* One tool of one call that may name two customers, next to the seed script.
CallCallOf == p1 :> c1

\* Two calls with a tool each, next to a specialist.
TwoCallOf == p1 :> c1 @@ p2 :> c2

=============================================================================
