----------------------------- MODULE MCVisitorGate -----------------------------
(* Model-checking instances of VisitorGate. *)
EXTENDS VisitorGate, TLC

Symmetry == Permutations(Code) \cup Permutations(Verifier)

\* Until an outage there are three gate requests, two desk requests and a
\* fault; next to an outage there is no fault, and two requests of either kind
\* or a third desk request and one gate request.  All that is counted only
\* grows, so each part is explored as if it were alone.
Budget ==
    \/ outages = 0 /\ deskOps <= 2
    \/ faults = 0 /\ checks <= 2 /\ checks + deskOps <= 4
=============================================================================
