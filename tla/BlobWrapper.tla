----------------------------- MODULE BlobWrapper -----------------------------
(***************************************************************************)
(* Firebird::BlobWrapper, src/common/classes/BlobWrapper.cpp: a wrapper    *)
(* around an IBlob that remembers the handle (m_blob) and whether it was   *)
(* opened for reading or created for writing (m_direction).                *)
(*                                                                         *)
(* Each method is one action; the blob interface behind it is part of the  *)
(* model: a read handle holds the segments not yet read (rest), a write    *)
(* handle the segments written so far (data).  getSegment returns at most  *)
(* the rest of the current segment, RESULT_NO_DATA at the end.  Any API    *)
(* call may fail (a non-empty status), at most MaxFail times.  Bytes are   *)
(* model values; SEGMENT_LIMIT is scaled down with the lengths.            *)
(***************************************************************************)
EXTENDS Naturals, Sequences, SequencesExt

CONSTANTS
    Byte,           \* the bytes of blob data
    Sep,            \* the separator byte passed to getData
    SEGMENT_LIMIT,  \* the largest segment one API call moves
    Content,        \* the stored blob open() reads: a sequence of segments
    MaxLen,         \* largest buffer length a caller passes
    MaxHandles,     \* blob handles opened or created in a behaviour
    MaxFail,        \* API failures in a behaviour
    MaxData,        \* bytes, and segments, a caller writes into one blob
    Builds          \* the builds checked: TRUE = DEV_BUILD (argument checks)

ASSUME /\ Sep \notin Byte
       /\ SEGMENT_LIMIT \in Nat \ {0}
       /\ Content \in Seq(Seq(Byte))
       /\ \A i \in DOMAIN Content : Len(Content[i]) \in 1..SEGMENT_LIMIT
       /\ {MaxLen, MaxHandles, MaxFail, MaxData} \subseteq Nat
       /\ Builds \subseteq BOOLEAN /\ Builds # {}

NoBlob == 0                       \* m_blob == nullptr
NoFail == MaxLen + 2              \* an API call number no loop reaches
Handle == [kind : {"read", "write"}, open : BOOLEAN,
           rest : Seq(Seq(Byte)), data : Seq(Seq(Byte))]

VARIABLES
    direction,  \* m_direction: "none", "read", "write"
    blob,       \* m_blob: NoBlob or an index into handles
    handles,    \* every IBlob the wrapper obtained, in order
    nFail,      \* API failures so far
    last,       \* the last call and what it returned (history)
    DEV_BUILD   \* whether this build compiles the DEV_BUILD checks (fixed)

vars == <<direction, blob, handles, nFail, last, DEV_BUILD>>

NoCall == [op |-> "none", rc |-> FALSE, fail |-> FALSE, len |-> 0, sep |-> FALSE,
           buf |-> << >>, before |-> << >>, after |-> << >>, out |-> << >>,
           info |-> << >>]

MinOf(a, b) == IF a < b THEN a ELSE b

\* The API call numbers that may fail in a call making several of them.
FailPoints == IF nFail < MaxFail THEN 1..MaxLen + 1 \cup {NoFail} ELSE {NoFail}

Init ==
    /\ direction = "none"
    /\ blob = NoBlob
    /\ handles = << >>
    /\ nFail = 0
    /\ last = NoCall
    /\ DEV_BUILD \in Builds

Failed(b) == nFail' = IF b THEN nFail + 1 ELSE nFail

-----------------------------------------------------------------------------
ObtainRecordsFailed(kind, ok) ==
    /\ direction = "none"
    /\ Len(handles) < MaxHandles
    /\ \/ /\ ok
          /\ handles' = Append(handles, [kind |-> kind, open |-> TRUE,
                                         rest |-> IF kind = "read" THEN Content ELSE << >>,
                                         data |-> << >>])
          /\ blob' = Len(handles) + 1
          /\ direction' = kind
          /\ UNCHANGED nFail
       \/ /\ ~ok
          /\ nFail < MaxFail
          /\ nFail' = nFail + 1
          /\ blob' = Len(handles) + 1
          /\ UNCHANGED <<handles, direction>>
    /\ last' = [NoCall EXCEPT !.op = kind, !.rc = ok]

(* open / create: refused unless m_direction is dir_none; m_blob is        *)
(* assigned the API result, nullptr on error, whatever it held before.     *)
Obtain(kind, ok) ==
    /\ direction = "none"
    /\ Len(handles) < MaxHandles
    /\ \/ /\ ok
          /\ handles' = Append(handles, [kind |-> kind, open |-> TRUE,
                                         rest |-> IF kind = "read" THEN Content ELSE << >>,
                                         data |-> << >>])
          /\ blob' = Len(handles) + 1
          /\ direction' = kind
          /\ UNCHANGED nFail
       \/ /\ ~ok
          /\ nFail < MaxFail
          /\ nFail' = nFail + 1
          /\ blob' = NoBlob
          /\ UNCHANGED <<handles, direction>>
    /\ last' = [NoCall EXCEPT !.op = kind, !.rc = ok]

Open == \E ok \in BOOLEAN : Obtain("read", ok)

Create == \E ok \in BOOLEAN : Obtain("write", ok)

(* close: only with a handle; a failed IBlob::close keeps m_blob, but      *)
(* m_direction is reset in both cases.  A released handle's contents are   *)
(* no longer observable and are forgotten.                                 *)
Close ==
    /\ blob # NoBlob
    /\ \E ok \in BOOLEAN :
          /\ ok \/ nFail < MaxFail
          /\ nFail' = IF ok THEN nFail ELSE nFail + 1
          /\ handles' = IF ok THEN [handles EXCEPT ![blob] = [@ EXCEPT !.open = FALSE,
                                                                    !.rest = << >>,
                                                                    !.data = << >>]]
                         ELSE handles
          /\ blob' = IF ok THEN NoBlob ELSE blob
          /\ last' = [NoCall EXCEPT !.op = "close", !.rc = ok]
    /\ direction' = "none"

-----------------------------------------------------------------------------
(* One IBlob::getSegment(ilen): the bytes returned and the rest after it.  *)
SegmentRead(rest, ilen) ==
    LET seg == Head(rest)
        olen == MinOf(ilen, Len(seg))
    IN  [bytes |-> SubSeq(seg, 1, olen),
         rest  |-> IF olen = Len(seg) THEN Tail(rest)
                   ELSE <<SubSeq(seg, olen + 1, Len(seg))>> \o Tail(rest)]

RECURSIVE ReadLoopSepUncounted(_, _, _, _, _)
ReadLoopSepUncounted(rest, len, useSep, f, st) ==
    IF len = 0 \/ rest = << >> THEN st
    ELSE IF f = 1 THEN [st EXCEPT !.failed = TRUE]
    ELSE LET r    == SegmentRead(rest, MinOf(len, SEGMENT_LIMIT))
             left == len - Len(r.bytes)
             sep  == left > 0 /\ useSep
         IN  ReadLoopSepUncounted(r.rest, left, useSep, f - 1,
                      [rest |-> r.rest, rc |-> TRUE, failed |-> FALSE,
                       out  |-> st.out \o r.bytes \o (IF sep THEN <<Sep>> ELSE << >>)])

(* The reading loop of getData: read min(len, SEGMENT_LIMIT), append it,   *)
(* append the separator while the buffer has room, until len is used up,  *)
(* the blob ends or a call fails (call number f).                          *)
RECURSIVE ReadLoop(_, _, _, _, _)
ReadLoop(rest, len, useSep, f, st) ==
    IF len = 0 \/ rest = << >> THEN st
    ELSE IF f = 1 THEN [st EXCEPT !.failed = TRUE]
    ELSE LET r    == SegmentRead(rest, MinOf(len, SEGMENT_LIMIT))
             left == len - Len(r.bytes)
             sep  == left > 0 /\ useSep
         IN  ReadLoop(r.rest, IF sep THEN left - 1 ELSE left, useSep, f - 1,
                      [rest |-> r.rest, rc |-> TRUE, failed |-> FALSE,
                       out  |-> st.out \o r.bytes \o (IF sep THEN <<Sep>> ELSE << >>)])

Reading == blob # NoBlob /\ handles[blob].open /\ handles[blob].kind = "read"

\* The wrapper's guard m_blob && m_direction == dir_read.
CanRead == blob # NoBlob /\ direction = "read"

SetRest(r) == handles' = [handles EXCEPT ![blob].rest = r]

\* getSegment(len): one API call; true with the bytes unless it failed or
\* hit the end.
GetSegment ==
    /\ CanRead
    /\ \E len \in 0..MaxLen, f \in FailPoints :
          LET rest == handles[blob].rest
              r    == SegmentRead(rest, MinOf(len, SEGMENT_LIMIT))
              ok   == f # 1 /\ rest # << >>
          IN  /\ Failed(f = 1)
              /\ SetRest(IF ok THEN r.rest ELSE rest)
              /\ last' = [NoCall EXCEPT !.op = "getSegment", !.rc = ok, !.len = len,
                            !.before = rest, !.after = IF ok THEN r.rest ELSE rest,
                            !.out = IF ok THEN r.bytes ELSE << >>]
    /\ UNCHANGED <<direction, blob>>

\* getData(len, use_sep): the argument checks exist only in DEV_BUILD; in
\* the other build a blob that is not open for reading makes the first API
\* call fail.
GetData ==
    /\ blob # NoBlob
    /\ \E len \in 0..MaxLen, useSep \in BOOLEAN, f \in FailPoints :
          LET rest == handles[blob].rest
              go   == IF DEV_BUILD THEN CanRead /\ len > 0 ELSE Reading
              st   == ReadLoop(rest, len, useSep, f,
                               [rest |-> rest, rc |-> FALSE, failed |-> FALSE, out |-> << >>])
          IN  /\ IF go THEN SetRest(st.rest) /\ Failed(st.failed)
                       ELSE UNCHANGED <<handles, nFail>>
              /\ last' = [NoCall EXCEPT !.op = "getData", !.len = len, !.sep = useSep,
                            !.rc = go /\ st.rc, !.fail = ~go \/ st.failed, !.before = rest,
                            !.after = IF go THEN st.rest ELSE rest,
                            !.out = IF go THEN st.out ELSE << >>]
    /\ UNCHANGED <<direction, blob>>

-----------------------------------------------------------------------------
\* The API accepts a put only on a handle created for writing.
Writable == handles[blob].kind = "write"

\* The buffers a caller may still pass: the blob stays within MaxData
\* bytes and segments (empty segments included).
Buffers == IF Len(handles[blob].data) < MaxData
           THEN {buf \in BoundedSeq(Byte, MaxLen) :
                    Len(FlattenSeq(handles[blob].data)) + Len(buf) <= MaxData}
           ELSE {}

AppendData(segs) == handles' = [handles EXCEPT ![blob].data = @ \o segs]

RECURSIVE PutLoopNoAdvance(_, _, _)
PutLoopNoAdvance(buf, f, st) ==
    IF buf = << >> THEN st
    ELSE IF f = 1 THEN [st EXCEPT !.failed = TRUE]
    ELSE LET ilen == MinOf(SEGMENT_LIMIT, Len(buf))
         IN  PutLoopNoAdvance(SubSeq(buf, 1, Len(buf) - ilen), f - 1,
                     [st EXCEPT !.segs = @ \o <<SubSeq(buf, 1, ilen)>>,
                                !.realLen = @ + ilen])

(* The writing loop of putData: put min(SEGMENT_LIMIT, len) bytes at a     *)
(* time; a failed call (number f) returns false at once.                   *)
RECURSIVE PutLoop(_, _, _)
PutLoop(buf, f, st) ==
    IF buf = << >> THEN st
    ELSE IF f = 1 THEN [st EXCEPT !.failed = TRUE]
    ELSE LET ilen == MinOf(SEGMENT_LIMIT, Len(buf))
         IN  PutLoop(SubSeq(buf, ilen + 1, Len(buf)), f - 1,
                     [st EXCEPT !.segs = @ \o <<SubSeq(buf, 1, ilen)>>,
                                !.realLen = @ + ilen])

\* The two putSegment overloads: one API call of min(len, SEGMENT_LIMIT)
\* bytes.  In DEV_BUILD the first needs dir_write, the second anything
\* but dir_read; the other build has no checks.
PutSegmentCall(op, devGuard) ==
    /\ blob # NoBlob
    /\ \E buf \in Buffers, fail \in BOOLEAN :
          LET seg == SubSeq(buf, 1, MinOf(Len(buf), SEGMENT_LIMIT))
              go  == (~DEV_BUILD \/ devGuard) /\ Writable
              ok  == go /\ ~fail
          IN  /\ ~fail \/ (go /\ nFail < MaxFail)
              /\ Failed(fail)
              /\ IF ok THEN AppendData(<<seg>>) ELSE UNCHANGED handles
              /\ last' = [NoCall EXCEPT !.op = op, !.rc = ok, !.len = Len(buf),
                            !.buf = buf, !.before = handles[blob].data,
                            !.after = IF ok THEN handles[blob].data \o <<seg>>
                                      ELSE handles[blob].data,
                            !.out = IF ok /\ op = "putSegment3" THEN seg ELSE << >>]
    /\ UNCHANGED <<direction, blob>>

PutSegment == PutSegmentCall("putSegment", direction = "write")

PutSegmentLen == PutSegmentCall("putSegment3", direction # "read")

\* putData: refused without a handle or on dir_read (in every build).
PutData ==
    /\ blob # NoBlob
    /\ direction # "read"
    /\ \E buf \in Buffers, f \in FailPoints :
          LET data == handles[blob].data
              st   == IF Writable
                      THEN PutLoop(buf, f, [segs |-> << >>, realLen |-> 0, failed |-> FALSE])
                      ELSE [segs |-> << >>, realLen |-> 0, failed |-> buf # << >>]
          IN  /\ Failed(st.failed /\ Writable)
              /\ AppendData(st.segs)
              /\ last' = [NoCall EXCEPT !.op = "putData", !.rc = ~st.failed,
                            !.len = Len(buf), !.buf = buf, !.before = data,
                            !.after = data \o st.segs,
                            !.out = SubSeq(buf, 1, st.realLen)]
    /\ UNCHANGED <<direction, blob>>

-----------------------------------------------------------------------------
(* getInfo and getSize.  The item codes and isc_info_end have their values *)
(* of the public API; the engine answers each item with its code, a        *)
(* 2-byte little-endian length 4 and a 4-byte little-endian value.         *)
isc_info_end == 1
isc_info_blob_num_segments == 4
isc_info_blob_max_segment == 5
isc_info_blob_total_length == 6
InfoBufSize == 64

LittleEndian(v, n) == [i \in 1..n |-> (v \div (256 ^ (i - 1))) % 256]

\* gds__vax_integer / isc_portable_integer: little-endian bytes to a number.
PortableInteger(bytes) == FoldRight(LAMBDA b, acc : b + 256 * acc, bytes, 0)

SegMax(segs) == FoldLeft(LAMBDA m, sg : IF Len(sg) > m THEN Len(sg) ELSE m, 0, segs)

InfoItem(code, v) == <<code>> \o LittleEndian(4, 2) \o LittleEndian(v, 4)

\* The answer to blob_items[] = {max_segment, num_segments, total_length}.
InfoBuffer(segs) ==
    InfoItem(isc_info_blob_max_segment, SegMax(segs))
    \o InfoItem(isc_info_blob_num_segments, Len(segs))
    \o InfoItem(isc_info_blob_total_length, Len(FlattenSeq(segs)))
    \o <<isc_info_end>>

RECURSIVE ParseInfoNoLengthSkip(_, _, _)
ParseInfoNoLengthSkip(buf, p, acc) ==
    LET item == buf[p]
        q    == p + 1
    IN  IF item = isc_info_end \/ ~(q <= InfoBufSize) THEN acc
        ELSE LET l == PortableInteger(SubSeq(buf, q, q + 1))
                 n == PortableInteger(SubSeq(buf, q + 2, q + 1 + l))
                 r == q + l
             IN  CASE item = isc_info_blob_max_segment  -> ParseInfoNoLengthSkip(buf, r, [acc EXCEPT !.maxSeg = n])
                   [] item = isc_info_blob_num_segments -> ParseInfoNoLengthSkip(buf, r, [acc EXCEPT !.segCount = n])
                   [] item = isc_info_blob_total_length -> ParseInfoNoLengthSkip(buf, r, [acc EXCEPT !.size = n])
                   [] OTHER -> [acc EXCEPT !.rc = FALSE]

(* The parsing loop of getSize: item = *p++ while item != isc_info_end and *)
(* p < end; a 2-byte length, a value of that length; an unknown item       *)
(* returns false.  acc holds <<size, seg_count, max_seg>>.                 *)
RECURSIVE ParseInfo(_, _, _)
ParseInfo(buf, p, acc) ==
    LET item == buf[p]
        q    == p + 1
    IN  IF item = isc_info_end \/ ~(q <= InfoBufSize) THEN acc
        ELSE LET l == PortableInteger(SubSeq(buf, q, q + 1))
                 n == PortableInteger(SubSeq(buf, q + 2, q + 1 + l))
                 r == q + 2 + l
             IN  CASE item = isc_info_blob_max_segment  -> ParseInfo(buf, r, [acc EXCEPT !.maxSeg = n])
                   [] item = isc_info_blob_num_segments -> ParseInfo(buf, r, [acc EXCEPT !.segCount = n])
                   [] item = isc_info_blob_total_length -> ParseInfo(buf, r, [acc EXCEPT !.size = n])
                   [] OTHER -> [acc EXCEPT !.rc = FALSE]

\* getSize: getInfo (m_blob and dir_read, one API call), then the parse.
GetSize ==
    /\ blob # NoBlob
    /\ \E fail \in BOOLEAN :
          LET go  == direction = "read" /\ ~fail
              res == ParseInfo(InfoBuffer(Content), 1,
                               [rc |-> TRUE, size |-> 0, segCount |-> 0, maxSeg |-> 0])
          IN  /\ ~fail \/ (direction = "read" /\ nFail < MaxFail)
              /\ Failed(fail)
              /\ last' = [NoCall EXCEPT !.op = "getSize", !.rc = go /\ res.rc, !.fail = fail,
                            !.before = handles[blob].rest,
                            !.info = IF go THEN <<res.size, res.segCount, res.maxSeg>> ELSE << >>]
    /\ UNCHANGED <<direction, blob, handles>>

\* Every handle a caller may obtain has been obtained and released.
Done ==
    /\ Len(handles) = MaxHandles
    /\ blob = NoBlob
    /\ UNCHANGED vars

Next ==
    /\ UNCHANGED DEV_BUILD
    /\ \/ Open \/ Create \/ Close
       \/ GetSegment \/ GetData \/ GetSize
       \/ PutSegment \/ PutSegmentLen \/ PutData
       \/ Done

Spec == Init /\ [][Next]_vars

-----------------------------------------------------------------------------
TypeOK ==
    /\ direction \in {"none", "read", "write"}
    /\ handles \in Seq(Handle) /\ Len(handles) <= MaxHandles
    /\ blob \in 0..Len(handles)
    /\ nFail \in 0..MaxFail
    /\ last.op \in {"none", "read", "write", "close", "getSegment", "getData",
                    "getSize", "putSegment", "putSegment3", "putData"}
    /\ last.rc \in BOOLEAN /\ last.fail \in BOOLEAN

\* The bytes getData delivers for a blob whose unread segments are segs:
\* each segment followed by the separator when use_sep is set.
SepStream(segs, useSep) ==
    FlattenSeq([i \in DOMAIN segs |-> segs[i] \o (IF useSep THEN <<Sep>> ELSE << >>)])

DataBytes(s) == SelectSeq(s, LAMBDA b : b # Sep)

(* getData never writes more than len bytes into the buffer; it delivers   *)
(* the first len bytes of the separated segment stream (a prefix of them   *)
(* when an API call failed), consumes from the blob exactly the data bytes *)
(* it delivered, and returns true exactly when it delivered something.     *)
GetDataExact ==
    last.op = "getData" =>
        LET stream == SepStream(last.before, last.sep)
        IN  /\ Len(last.out) <= last.len
            /\ IsPrefix(last.out, stream)
            /\ ~last.fail => last.out = SubSeq(stream, 1, MinOf(last.len, Len(stream)))
            /\ FlattenSeq(last.before) = DataBytes(last.out) \o FlattenSeq(last.after)
            /\ last.rc <=> last.out # << >>

(* putData and the putSegment overload with real_len append to the blob   *)
(* exactly the first real_len bytes of the caller's buffer, in segments    *)
(* the API accepts (at most SEGMENT_LIMIT bytes); a successful putData     *)
(* has written the whole buffer.                                           *)
PutAccounted ==
    last.op \in {"putData", "putSegment3"} =>
        /\ IsPrefix(last.out, last.buf)
        /\ FlattenSeq(last.after) = FlattenSeq(last.before) \o last.out
        /\ \A i \in DOMAIN last.after : Len(last.after[i]) <= SEGMENT_LIMIT
        /\ (last.op = "putData" /\ last.rc) => last.out = last.buf

(* getSize succeeds exactly when getInfo did, and then reports the blob's  *)
(* total length, number of segments and longest segment.                  *)
InfoParsed ==
    last.op = "getSize" =>
        /\ last.rc <=> (direction = "read" /\ ~last.fail)
        /\ last.rc =>
              /\ last.info[1] = Len(FlattenSeq(Content))
              /\ last.info[2] = Len(Content)
              /\ \A i \in DOMAIN Content : Len(Content[i]) <= last.info[3]
              /\ \E i \in DOMAIN Content : Len(Content[i]) = last.info[3]

(* Every IBlob the wrapper obtained and did not close is still m_blob, so  *)
(* a later close() releases it.                                            *)
NoLostHandle == \A i \in DOMAIN handles : handles[i].open => blob = i
=============================================================================
