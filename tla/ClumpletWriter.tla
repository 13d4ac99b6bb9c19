---------------------------- MODULE ClumpletWriter ----------------------------
(***************************************************************************)
(* Firebird::ClumpletWriter, src/common/classes/ClumpletWriter.cpp: a      *)
(* growable buffer of clumplets (tag, length, data) with a cursor, as used *)
(* for DPB, TPB and info-item buffers.                                     *)
(*                                                                         *)
(* The buffer is modelled byte by byte and the cursor (cur_offset) as the  *)
(* 0-based offset the code keeps; data bytes are 0, tags and length bytes  *)
(* are the values the code writes.  The reader half (ClumpletReader:      *)
(* getClumpletType, getClumpletSize, rewind, moveNext, find) is not under  *)
(* src/; it is modelled from the buffer layout the writer produces.        *)
(* Three writers are checked: a DPB writer built on the kind list          *)
(* version1 (Tagged, 1-byte lengths) / version2 (WideTagged, 4-byte        *)
(* lengths), which upgrades itself when a clumplet is too long; a TPB      *)
(* writer without a kind list; and an info-items writer (untagged,         *)
(* tag-only items, closed by an end marker).  A call that raises           *)
(* (usage_mistake, invalid_structure, size_overflow) ends the call, the    *)
(* state it changed before raising included.                               *)
(***************************************************************************)
EXTENDS Naturals, Sequences, SequencesExt

CONSTANTS
    SizeLimit,  \* sizeLimit given to the constructor
    DpbLengths, \* data lengths callers insert into a DPB
    MaxOps      \* calls made on the writer in a behaviour

ASSUME SizeLimit \in Nat /\ DpbLengths \subseteq Nat /\ MaxOps \in Nat

MAX_UCHAR == 255

\* Tag bytes, with the values of ibase.h / consts_pub.h.
isc_dpb_version1 == 1
isc_dpb_version2 == 2
isc_tpb_version3 == 3
isc_tpb_read == 8
isc_tpb_lock_read == 10
isc_info_end == 1
DpbTags == {4, 28}          \* isc_dpb_num_buffers, isc_dpb_user_name
InfoTags == {4, 6}          \* blob info items
BadVersion == 5             \* a tag missing from the DPB kind list

\* The DPB kind list (ClumpletReader::dpbList).
DpbList == << [kind |-> "Tagged", tag |-> isc_dpb_version1],
              [kind |-> "WideTagged", tag |-> isc_dpb_version2] >>

Writers == {"dpb", "tpb", "info"}
Kinds == {"Tagged", "WideTagged", "Tpb", "InfoItems"}

VARIABLES
    writer,     \* which writer this is (fixed): "dpb", "tpb" or "info"
    kind,       \* kind
    buf,        \* dynamic_buffer
    cur,        \* cur_offset
    overflow,   \* flag_overflow
    nOps,       \* calls made so far
    last        \* the last call and whether it returned normally (history)

vars == <<writer, kind, buf, cur, overflow, nOps, last>>

KindList == IF writer = "dpb" THEN DpbList ELSE << >>

-----------------------------------------------------------------------------
(* The reader half.                                                        *)

\* ClumpletReader::getClumpletType for the kinds modelled.
ClumpletType(k, tag) ==
    CASE k = "Tagged"     -> "TraditionalDpb"
      [] k = "WideTagged" -> "Wide"
      [] k = "Tpb"        -> IF tag = isc_tpb_lock_read THEN "TraditionalDpb" ELSE "SingleTpb"
      [] k = "InfoItems"  -> "SingleTpb"

LenSize(t) == CASE t = "Wide" -> 4 [] t = "TraditionalDpb" -> 1 [] t = "SingleTpb" -> 0

\* rewind: past the version byte of a tagged buffer.
Start(k) == IF k = "InfoItems" THEN 0 ELSE 1

IsTagged(k) == k # "InfoItems"

\* The little-endian number in a sequence of bytes.
VaxValue(s) ==
    LET v[i \in 0..Len(s)] == IF i = 0 THEN 0 ELSE v[i - 1] + s[i] * 256^(i - 1)
    IN  v[Len(s)]

\* getClumpletSize(true, true, true) of the clumplet at offset o; one that
\* runs past the end counts as reaching one byte beyond it.
ClumpletSize(b, k, o) ==
    LET ls == LenSize(ClumpletType(k, b[o + 1]))
    IN  IF o + 1 + ls > Len(b) THEN Len(b) + 1 - o
        ELSE 1 + ls + VaxValue(SubSeq(b, o + 2, o + 1 + ls))

\* The offsets moveNext visits from o to the end of the buffer.
RECURSIVE Offsets(_, _, _)
Offsets(b, k, o) ==
    IF o >= Len(b) THEN << >> ELSE <<o>> \o Offsets(b, k, o + ClumpletSize(b, k, o))

\* Where that walk stops: Len(b) exactly for a buffer of whole clumplets.
RECURSIVE WalkEnd(_, _, _)
WalkEnd(b, k, o) ==
    IF o >= Len(b) THEN o ELSE WalkEnd(b, k, o + ClumpletSize(b, k, o))

\* The clumplets of a buffer as (tag, data length) pairs, in order.
Clumplets(b, k) ==
    LET offs == Offsets(b, k, Start(k))
    IN  [i \in DOMAIN offs |->
            <<b[offs[i] + 1], ClumpletSize(b, k, offs[i]) - 1
                              - LenSize(ClumpletType(k, b[offs[i] + 1]))>>]

\* find(tag): the offset of the first clumplet with the tag, -1 if none.
FindOffset(b, k, tag) ==
    LET offs == Offsets(b, k, Start(k))
        i == SelectInSeq(offs, LAMBDA o : b[o + 1] = tag)
    IN  IF i = 0 THEN -1 ELSE offs[i]

-----------------------------------------------------------------------------
(* The writer.                                                             *)

\* initNewBuffer(tag): the version byte of a tagged kind.
Header(k, tag) == IF IsTagged(k) THEN <<tag>> ELSE << >>

\* Mutant of VaxBytes: the bytes are not reduced modulo 256.
VaxBytesNoMod(v, n) == [i \in 1..n |-> v \div 256^(i - 1)]

\* toVaxInteger(ptr, n, value): n bytes, least significant first.
VaxBytes(v, n) == [i \in 1..n |-> (v \div 256^(i - 1)) % 256]

\* The length check of insertBytesLengthCheck for the clumplet type.
LengthFits(k, tag, len) ==
    LET t == ClumpletType(k, tag)
    IN  CASE t = "Wide"           -> TRUE     \* a 32-bit FB_SIZE_T is never > MAX_ULONG
          [] t = "TraditionalDpb" -> len <= MAX_UCHAR
          [] t = "SingleTpb"      -> len = 0

\* The bytes insertBytesLengthCheck writes for a clumplet.
Encode(k, tag, len) ==
    <<tag>> \o VaxBytes(len, LenSize(ClumpletType(k, tag))) \o [i \in 1..len |-> 0]

\* Mutant of Upgrade: the cursor keeps its old offset in the new buffer.
UpgradeKeepCursor(k, b, c) ==
    LET newest == KindList[CHOOSE i \in DOMAIN KindList :
                               \A j \in DOMAIN KindList : KindList[j].tag <= KindList[i].tag]
        items == Clumplets(b, k)
        enc == [i \in DOMAIN items |-> Encode(newest.kind, items[i][1], items[i][2])]
        nb == Header(newest.kind, newest.tag) \o FlattenSeq(enc)
    IN  [can |-> ~(Len(b) > 0 /\ newest.tag <= b[1]), fits |-> Len(nb) <= SizeLimit,
         kind |-> newest.kind, buf |-> nb, cur |-> c, stop |-> c]

\* Mutant of Upgrade: the copy loop stops before the last clumplet.
UpgradeDropLast(k, b, c) ==
    LET newest == KindList[CHOOSE i \in DOMAIN KindList :
                               \A j \in DOMAIN KindList : KindList[j].tag <= KindList[i].tag]
        items == Clumplets(b, k)
        kept == IF items = << >> THEN items ELSE SubSeq(items, 1, Len(items) - 1)
        enc == [i \in DOMAIN kept |-> Encode(newest.kind, kept[i][1], kept[i][2])]
        nb == Header(newest.kind, newest.tag) \o FlattenSeq(enc)
    IN  [can |-> ~(Len(b) > 0 /\ newest.tag <= b[1]), fits |-> Len(nb) <= SizeLimit,
         kind |-> newest.kind, buf |-> nb, cur |-> Start(newest.kind), stop |-> c]

\* Mutant of Upgrade: the copy is not checked against the size limit.
UpgradeNoSizeCheck(k, b, c) ==
    LET newest == KindList[CHOOSE i \in DOMAIN KindList :
                               \A j \in DOMAIN KindList : KindList[j].tag <= KindList[i].tag]
        items == Clumplets(b, k)
        enc == [i \in DOMAIN items |-> Encode(newest.kind, items[i][1], items[i][2])]
        nb == Header(newest.kind, newest.tag) \o FlattenSeq(enc)
    IN  [can |-> ~(Len(b) > 0 /\ newest.tag <= b[1]), fits |-> TRUE,
         kind |-> newest.kind, buf |-> nb, cur |-> Start(newest.kind), stop |-> c]

\* upgradeVersion (with a kind list): when the list has a newer version than the
\* buffer's, every clumplet is re-inserted, in order, into a new writer of
\* that kind and size limit (which raises size_overflow when it does not
\* fit), the buffer replaced by its buffer, and the cursor set to where the
\* clumplet it was on went, or rewound when no clumplet was at the cursor.
\* When the copy raises, the copy loop has left the cursor on the clumplet
\* whose copy overflowed (stop).
Upgrade(k, b, c) ==
    LET newest == KindList[CHOOSE i \in DOMAIN KindList :
                               \A j \in DOMAIN KindList : KindList[j].tag <= KindList[i].tag]
        offs == Offsets(b, k, Start(k))
        items == Clumplets(b, k)
        enc == [i \in DOMAIN items |-> Encode(newest.kind, items[i][1], items[i][2])]
        nb == Header(newest.kind, newest.tag) \o FlattenSeq(enc)
        at(i) == Len(Header(newest.kind, newest.tag)) + Len(FlattenSeq(SubSeq(enc, 1, i - 1)))
        j == SelectInSeq(offs, LAMBDA o : o = c)
        over == SelectInSeq([i \in DOMAIN enc |-> at(i + 1)], LAMBDA n : n > SizeLimit)
    IN  [can  |-> ~(Len(b) > 0 /\ newest.tag <= b[1]),
         fits |-> Len(nb) <= SizeLimit,
         kind |-> newest.kind,
         buf  |-> nb,
         cur  |-> IF j > 0 THEN at(j) ELSE Start(newest.kind),
         stop |-> IF over > 0 THEN offs[over] ELSE c]

Call(op, tag, len, ok) ==
    /\ nOps < MaxOps
    /\ nOps' = nOps + 1
    /\ last' = [op |-> op, tag |-> tag, len |-> len, ok |-> ok]

\* size_overflow(count + length + lenSize + 1 > sizeLimit), then the tag,
\* the length and the data inserted at the cursor and the cursor moved
\* past them.  An overflow raises with the flag set.
Put(k, b, c, tag, len) ==
    LET cl == Encode(k, tag, len)
        over == Len(b) + Len(cl) > SizeLimit
    IN  /\ overflow' = over
        /\ kind' = k
        /\ buf' = IF over THEN b ELSE SubSeq(b, 1, c) \o cl \o SubSeq(b, c + 1, Len(b))
        /\ cur' = IF over THEN c ELSE c + Len(cl)
        /\ last'.ok = ~over

\* A call that raises before changing anything.
Raise == UNCHANGED <<kind, buf, cur, overflow>>

(* insertBytesLengthCheck(tag, bytes, length), and insertTag, insertByte,  *)
(* insertString, ... which call it: past an end marker a usage mistake;    *)
(* otherwise the length check, upgradeVersion when it fails (a usage      *)
(* mistake when no upgrade is possible; the copy may overflow, leaving    *)
(* the cursor where the copy loop stopped), then Put                       *)
(* in the buffer's kind, upgraded or not.  The newest kind of the DPB list *)
(* is wide, so the check after an upgrade always passes.                  *)
Insert(tag, len) ==
    /\ \E ok \in BOOLEAN : Call("insert", tag, len, ok)
    /\ UNCHANGED writer
    /\ \/ cur > Len(buf) /\ ~last'.ok /\ Raise
       \/ cur <= Len(buf) /\ LengthFits(kind, tag, len) /\ Put(kind, buf, cur, tag, len)
       \/ /\ cur <= Len(buf) /\ ~LengthFits(kind, tag, len)
          /\ KindList = << >> /\ ~last'.ok /\ Raise
       \/ /\ cur <= Len(buf) /\ ~LengthFits(kind, tag, len)
          /\ KindList # << >>
          /\ LET u == Upgrade(kind, buf, cur)
             IN  \/ /\ ~(u.can /\ u.fits) /\ ~last'.ok
                    /\ cur' = IF u.can THEN u.stop ELSE cur
                    /\ UNCHANGED <<kind, buf, overflow>>
                 \/ u.can /\ u.fits /\ Put(u.kind, u.buf, u.cur, tag, len)

(* insertEndMarker(tag): size_overflow(cur_offset + 1 > sizeLimit), the   *)
(* buffer cut at the cursor, the marker appended and the cursor moved two  *)
(* bytes on, past the end, so that further inserts are usage mistakes.     *)
InsertEndMarker(tag) ==
    /\ \E ok \in BOOLEAN : Call("marker", tag, 0, ok)
    /\ UNCHANGED <<writer, kind>>
    /\ \/ cur > Len(buf) /\ ~last'.ok /\ Raise
       \/ /\ cur <= Len(buf)
          /\ overflow' = (cur + 1 > SizeLimit)
          /\ last'.ok = ~overflow'
          /\ buf' = IF overflow' THEN buf ELSE SubSeq(buf, 1, cur) \o <<tag>>
          /\ cur' = IF overflow' THEN cur ELSE cur + 2

\* deleteClumplet's removal at offset o: the rest of the buffer when less
\* than two bytes are left (an end marker), else the clumplet's bytes.
DeleteAt(b, k, o) ==
    IF Len(b) - o < 2 THEN SubSeq(b, 1, o)
    ELSE SubSeq(b, 1, o) \o SubSeq(b, o + ClumpletSize(b, k, o) + 1, Len(b))

(* deleteClumplet: a usage mistake at the end; the cursor stays, now on    *)
(* the next clumplet.                                                      *)
DeleteClumplet ==
    /\ \E ok \in BOOLEAN : Call("delete", 0, 0, ok)
    /\ UNCHANGED <<writer, kind, cur, overflow>>
    /\ \/ cur >= Len(buf) /\ ~last'.ok /\ UNCHANGED buf
       \/ cur < Len(buf) /\ last'.ok /\ buf' = DeleteAt(buf, kind, cur)

\* The loop of deleteWithTag: find, delete, until find fails and puts the
\* cursor back where the last delete left it.  <<buffer, cursor>>.
RECURSIVE DeleteAll(_, _, _, _)
DeleteAll(b, k, tag, c) ==
    LET o == FindOffset(b, k, tag)
    IN  IF o < 0 THEN <<b, c>> ELSE DeleteAll(DeleteAt(b, k, o), k, tag, o)

DeleteWithTag(tag) ==
    /\ Call("deleteTag", tag, 0, TRUE)
    /\ LET r == DeleteAll(buf, kind, tag, cur)
       IN  buf' = r[1] /\ cur' = r[2]
    /\ UNCHANGED <<writer, kind, overflow>>

(* reset(tag): with a kind list, the kind of that version (an unknown tag  *)
(* is invalid_structure) and a new buffer; without one, a new buffer of    *)
(* the same kind.  clear() is reset with the buffer's own tag.            *)
Reset(tag) ==
    /\ \E ok \in BOOLEAN : Call("reset", tag, 0, ok)
    /\ UNCHANGED <<writer, overflow>>
    /\ \/ /\ KindList # << >>
          /\ \/ \E i \in DOMAIN KindList :
                    /\ KindList[i].tag = tag /\ last'.ok
                    /\ kind' = KindList[i].kind
                    /\ buf' = Header(kind', tag) /\ cur' = Start(kind')
             \/ (\A i \in DOMAIN KindList : KindList[i].tag # tag) /\ ~last'.ok /\ Raise
       \/ /\ KindList = << >> /\ last'.ok
          /\ buf' = Header(kind, tag) /\ cur' = Start(kind)
          /\ UNCHANGED kind

Clear == Reset(IF IsTagged(kind) THEN buf[1] ELSE 0)

\* The reader's cursor moves, inherited by the writer.
MoveNext ==
    /\ Call("moveNext", 0, 0, TRUE)
    /\ cur' = IF cur >= Len(buf) THEN cur ELSE cur + ClumpletSize(buf, kind, cur)
    /\ UNCHANGED <<writer, kind, buf, overflow>>

Rewind ==
    /\ Call("rewind", 0, 0, TRUE)
    /\ cur' = Start(kind)
    /\ UNCHANGED <<writer, kind, buf, overflow>>

Find(tag) ==
    /\ Call("find", tag, 0, TRUE)
    /\ LET o == FindOffset(buf, kind, tag) IN cur' = IF o < 0 THEN cur ELSE o
    /\ UNCHANGED <<writer, kind, buf, overflow>>

-----------------------------------------------------------------------------
\* A writer built on an empty buffer: ClumpletWriter(kindList, limit) for
\* the DPB (the list's first version), ClumpletWriter(Tpb, limit,
\* isc_tpb_version3), ClumpletWriter(InfoItems, limit).
Init ==
    /\ writer \in Writers
    /\ kind = CASE writer = "dpb" -> "Tagged" [] writer = "tpb" -> "Tpb"
                [] writer = "info" -> "InfoItems"
    /\ buf = Header(kind, IF writer = "dpb" THEN isc_dpb_version1 ELSE isc_tpb_version3)
    /\ cur = Start(kind)
    /\ overflow = FALSE
    /\ nOps = 0
    /\ last = [op |-> "none", tag |-> 0, len |-> 0, ok |-> TRUE]

\* What callers insert into each writer: tag and data length.
Inserts == CASE writer = "dpb"  -> DpbTags \X DpbLengths
             [] writer = "tpb"  -> {isc_tpb_read, isc_tpb_lock_read} \X {0, 1}
             [] writer = "info" -> InfoTags \X {0}

Tags == CASE writer = "dpb" -> DpbTags [] writer = "tpb" -> {isc_tpb_read, isc_tpb_lock_read}
          [] writer = "info" -> InfoTags

\* The owner stops using the writer.
Done == nOps = MaxOps /\ UNCHANGED vars

Next ==
    \/ \E x \in Inserts : Insert(x[1], x[2])
    \/ writer = "info" /\ InsertEndMarker(isc_info_end)
    \/ DeleteClumplet
    \/ \E t \in Tags : DeleteWithTag(t) \/ Find(t)
    \/ writer = "dpb" /\ \E t \in {isc_dpb_version1, isc_dpb_version2, BadVersion} : Reset(t)
    \/ Clear
    \/ MoveNext
    \/ Rewind
    \/ Done

Spec == Init /\ [][Next]_vars

-----------------------------------------------------------------------------
TypeOK ==
    /\ writer \in Writers /\ kind \in Kinds
    /\ buf \in Seq(0..255) /\ cur \in 0..Len(buf) + 1
    /\ overflow \in BOOLEAN /\ nOps \in 0..MaxOps

(* The buffer is always its version byte (the one of its kind, for a       *)
(* tagged writer) followed by whole clumplets of its kind, and the cursor  *)
(* is on a clumplet, at the end, or just past an end marker: inserts in    *)
(* the middle, deletes, the re-encoding of an upgrade and end markers      *)
(* never leave a clumplet cut or a cursor inside one.                      *)
WellFormed ==
    /\ IsTagged(kind) => /\ Len(buf) >= 1
                         /\ writer = "dpb" => \E i \in DOMAIN DpbList :
                                                 DpbList[i].tag = buf[1] /\ DpbList[i].kind = kind
    /\ WalkEnd(buf, kind, Start(kind)) = Len(buf)
    /\ cur \in Range(Offsets(buf, kind, Start(kind))) \cup {Len(buf), Len(buf) + 1}

(* The buffer never grows past the size limit: every path that adds bytes *)
(* (an insert, the copy of an upgrade, an end marker) checks the limit for *)
(* the bytes it really adds.                                               *)
WithinLimit == Len(buf) <= SizeLimit

(* No call loses or invents a clumplet: an insert that returns adds        *)
(* exactly its (tag, length) clumplet, an upgrade keeps every other one    *)
(* whatever its new encoding, a delete removes exactly the clumplet at the *)
(* cursor, and a call that raises leaves the clumplets as they were.       *)
ContentKept ==
    [][nOps' # nOps =>
         LET before == ToBag(Clumplets(buf, kind))
             after  == ToBag(Clumplets(buf', kind'))
             atCur  == Clumplets(buf, kind)[SelectInSeq(Offsets(buf, kind, Start(kind)),
                                                        LAMBDA o : o = cur)]
         IN  /\ last'.op = "insert" /\ last'.ok =>
                    after = before (+) SetToBag({<<last'.tag, last'.len>>})
             /\ last'.op = "delete" /\ last'.ok => after = before (-) SetToBag({atCur})
             /\ ~last'.ok => after = before]_vars
=============================================================================
