--------------------------- MODULE MCMediaDeletion ---------------------------
(* A source picture, what is made of it, and clean-ups that overtake each other. *)
EXTENDS MediaDeletion, TLC

CONSTANTS source, candidate, delivery, c1, c2

\* The two invocations may have been asked for different numbers of rows.
MCLimit == [c \in Cleaners |-> IF c = c1 THEN 2 ELSE 1]

=============================================================================
