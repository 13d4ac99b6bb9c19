-------------------------- MODULE MCRecordSources --------------------------
(***************************************************************************)
(* The record sources of src/jrd/recsrc checked in one run: a request's   *)
(* plan reads either a merge join (MergeJoin) or a window stream           *)
(* (WindowedStream).  Each behaviour starts with one of them planned and   *)
(* the other one empty and never opened; the planned source then takes     *)
(* every step its own specification allows.                               *)
(***************************************************************************)
EXTENDS MergeJoin

CONSTANTS MaxRows, PartVal, OrdVal, Offsets, NoValue

VARIABLES
    source,                \* the record source the plan uses
    grouped, ordered, frame, rows, wOpen, wPos, partition,
    partitionPending, rangePending, window, acc, gen, wOut, wEof

WS == INSTANCE WindowedStream WITH open <- wOpen, pos <- wPos,
                                   out <- wOut, eof <- wEof

wsVars == <<grouped, ordered, frame, rows, wOpen, wPos, partition,
            partitionPending, rangePending, window, acc, gen, wOut, wEof>>
allVars == <<source, vars, wsVars>>

\* A merge join over empty substreams, never opened.
MergeIdle ==
    /\ in = [s \in S |-> << >>]
    /\ mfb = [s \in S |-> [equal_records |-> 0, current_block |-> 0,
                           blocking_factor |-> CHOOSE f \in Factors : TRUE,
                           block_data |-> NoBlock, space |-> NoSpace]]
    /\ Init

\* A window stream over an empty buffer, never opened.
WindowIdle ==
    /\ rows = << >> /\ grouped = FALSE /\ ordered = FALSE
    /\ frame = [unit |-> "ROWS", b1 |-> "PRECEDING", v1 |-> NoValue,
                b2 |-> "FOLLOWING", v2 |-> NoValue]
    /\ WS!Init

MCInit ==
    \/ source = "merge" /\ Init /\ WindowIdle
    \/ source = "window" /\ MergeIdle /\ WS!Init

MCNext ==
    \/ source = "merge" /\ Next /\ UNCHANGED <<source, wsVars>>
    \/ source = "window" /\ WS!Next /\ UNCHANGED <<source, vars>>

MCSpec == MCInit /\ [][MCNext]_allVars

\* internalGetRecord of the merge join keeps taking steps once called
\* (MergeJoin's FairSpec); the window stream's call is a single step.
MCFairSpec ==
    MCSpec /\ WF_allVars(source = "merge" /\ GetRecordStep /\ UNCHANGED <<source, wsVars>>)

WindowTypeOK == WS!TypeOK
WindowExact == WS!WindowExact
AccMatchesWindow == WS!AccMatchesWindow
=============================================================================
