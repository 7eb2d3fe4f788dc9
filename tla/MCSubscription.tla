---------------------------- MODULE MCSubscription ----------------------------
(* Model-checking instance of Subscription. *)
EXTENDS Subscription

CONSTANTS starter, standard

\* One verification a month on the lower tier, two on the higher.
MCLimit == [t \in Tier |-> IF t = starter THEN 1 ELSE 2]
=============================================================================
