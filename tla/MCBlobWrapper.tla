---------------------------- MODULE MCBlobWrapper ----------------------------
(***************************************************************************)
(* The buffer classes of src/common/classes checked in one run: a caller  *)
(* uses either a BlobWrapper over a blob handle or a ClumpletWriter over a *)
(* parameter buffer.  Each behaviour starts with one of them in use and    *)
(* the other one freshly constructed and never called; the one in use     *)
(* then takes every step its own specification allows.                    *)
(***************************************************************************)
EXTENDS BlobWrapper

CONSTANTS a, b, sep, SizeLimit, DpbLengths, MaxOps

VARIABLES
    source,              \* the class the caller uses: "blob" or "clumplet"
    writer, kind, buf, cur, overflow, nOps, cwLast

CW == INSTANCE ClumpletWriter WITH last <- cwLast

cwVars == <<writer, kind, buf, cur, overflow, nOps, cwLast>>
allVars == <<source, vars, cwVars>>

MCByte == {a, b}

\* A stored blob of two segments, the first one as long as SEGMENT_LIMIT.
MCContent == << <<a, b>>, <<b>> >>

MCInit ==
    \/ source = "blob" /\ Init /\ writer = "dpb" /\ CW!Init
    \/ source = "clumplet" /\ DEV_BUILD = TRUE /\ Init /\ CW!Init

MCNext ==
    \/ source = "blob" /\ Next /\ UNCHANGED <<source, cwVars>>
    \/ source = "clumplet" /\ CW!Next /\ UNCHANGED <<source, vars>>

MCSpec == MCInit /\ [][MCNext]_allVars

CWTypeOK == CW!TypeOK
WellFormed == CW!WellFormed
WithinLimit == CW!WithinLimit
ContentKept == CW!ContentKept
=============================================================================
