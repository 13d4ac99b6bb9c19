------------------------------- MODULE MCVio -------------------------------
(* Model-checking instance of Vio: three transactions over one or two rows. *)
EXTENDS Vio

CONSTANTS r1, r2

MCRec1 == {r1}
MCRec2 == {r1, r2}

\* Subsets of the transactions for RC and NoCleanup.
MCNone == {}
MCLast == {MaxTx}
MCFirst == {1}
\* Transaction 2 read committed: 1 can delete under it and 3 expunge.
MCMiddle == {2}

\* vio_snapshot starts from rows already stored by a committed transaction:
\* a row the transactions insert themselves reaches the same chains with one
\* transaction fewer left to contend on it, and vio_wait_cycle covers inserts.
MCStoredInit == Init /\ \A r \in Rec : chain[r] # << >>

MCFairSpec == MCStoredInit /\ [][Next]_vars /\ \A t \in Tx : WF_vars(StatementStep(t))

\* The statements issued: updates, deletes and sweeps (run by the read
\* committed transaction, SweepTx: VIO_chase_record_version with the
\* sweeper's cleanup and its give-up on an active head); and, for two
\* transactions contending on rows, updates, deletes, SELECT WITH LOCK and
\* the unique-key lookups of VIO_get_current.
MCReadWrite == {"modify", "erase", "sweep"}
MCContend == {"modify", "erase", "lock", "current"}

=============================================================================
