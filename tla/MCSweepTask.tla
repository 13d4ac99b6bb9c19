---------------------------- MODULE MCSweepTask ----------------------------
EXTENDS SweepTask, TLC

CONSTANTS w1, w2, w3


\* Three workers, three slots.
MCWorker3 == {w1, w2, w3}
MCSlot3 == {1, 2, 3}

\* Relation 0 has two pointer pages, relation 1 none (dropped or empty),
\* relations 2 and 3 one and two: with three slots the fourth relation is
\* started in a slot freed by an earlier one, which may have had fewer
\* pages, and relations 0 and 3 have pages left for a joiner.
MCRelPages4 == (0 :> 2) @@ (1 :> 0) @@ (2 :> 1) @@ (3 :> 2)

=============================================================================
