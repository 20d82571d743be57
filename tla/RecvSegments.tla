---------------------------- MODULE RecvSegments ----------------------------
(***************************************************************************)
(* The segment list of RecvBuf (quic/stream.mojo): the loops of            *)
(* _count_new_bytes, _would_create_gap, _num_gaps, _insert, _insert_gap,   *)
(* _insert_merge and read, checked against the set of offsets RecvStream   *)
(* keeps.  A byte is a copy number: two frames may carry different copies  *)
(* of the same offset, and the first one received must win.                *)
(***************************************************************************)
EXTENDS Integers, Sequences, SequencesExt, FiniteSets, FiniteSetsExt

CONSTANTS MaxOffset,   \* bound: largest offset a frame may end at
          Copies       \* bound: the copies of a byte, positive numbers

VARIABLES segs,            \* seg_offsets and seg_data, zipped
          read_offset, total_received,
          first,           \* history: the copy of each offset received first
          delivered        \* history: the bytes handed to the application

vars == <<segs, read_offset, total_received, first, delivered>>

Offsets == 0 .. (MaxOffset - 1)
Larger(a, b) == IF a > b THEN a ELSE b

SegEnd(s) == s.off + Len(s.data)

-----------------------------------------------------------------------------
(* Counting *)

\* Where the count starts: bytes already read are covered.
CountFrom(off) == Larger(off, read_offset)

\* _count_new_bytes walks the segments with a cursor.
CountNewBytes(off, end) ==
    LET Walk(acc, s) ==
          IF acc.done \/ SegEnd(s) <= acc.cur THEN acc
          ELSE IF s.off >= end THEN [acc EXCEPT !.done = TRUE]
          ELSE LET cur == Larger(acc.cur, SegEnd(s))
               IN  [cur  |-> cur,
                    new  |-> acc.new + Larger(0, s.off - acc.cur),
                    done |-> cur >= end]
        walked == FoldLeft(Walk, [cur |-> CountFrom(off), new |-> 0,
                                  done |-> FALSE], segs)
    IN  IF off >= end \/ end <= read_offset THEN 0
        ELSE walked.new + Larger(0, end - walked.cur)

NumGaps ==
    Cardinality({i \in 1 .. Len(segs) :
                    segs[i].off > IF i = 1 THEN read_offset
                                           ELSE SegEnd(segs[i - 1])})

WouldCreateGap(off, end) ==
    LET start == Larger(off, read_offset)
    IN  /\ start > read_offset
        /\ \A i \in 1 .. Len(segs) :
              ~(start <= SegEnd(segs[i]) /\ end >= segs[i].off)

-----------------------------------------------------------------------------
(* Inserting *)

InsertGap(start, data) ==
    LET above == {i \in 1 .. Len(segs) : start < segs[i].off}
        pos == IF above = {} THEN Len(segs) + 1 ELSE Min(above)
    IN  InsertAt(segs, pos, [off |-> start, data |-> data])

\* The byte of offset b in the segment list, 0 where there is none.
StoredByte(b) ==
    LET holding == {i \in 1 .. Len(segs) : b \in segs[i].off .. (SegEnd(segs[i]) - 1)}
    IN  IF holding = {} THEN 0
        ELSE LET s == segs[CHOOSE i \in holding : TRUE] IN s.data[b - s.off + 1]

\* Mutant: the new data overwrites what is stored.
MergedByteNewWins(b, start, data) ==
    IF b \in start .. (start + Len(data) - 1) THEN data[b - start + 1]
    ELSE StoredByte(b)

\* Existing data is laid over the new data.
MergedByte(b, start, data) ==
    IF StoredByte(b) # 0 THEN StoredByte(b)
    ELSE IF b \in start .. (start + Len(data) - 1) THEN data[b - start + 1]
    ELSE 0

\* Segments lo .. hi are replaced by one that spans them and the new data.
InsertMerge(start, end, data, lo, hi) ==
    LET mstart == IF segs[lo].off < start THEN segs[lo].off ELSE start
        mend == Larger(end, SegEnd(segs[hi]))
        merged == [k \in 1 .. (mend - mstart) |->
                      MergedByte(mstart + k - 1, start, data)]
    IN  SubSeq(segs, 1, lo - 1)
          \o <<[off |-> mstart, data |-> merged]>>
          \o SubSeq(segs, hi + 1, Len(segs))

Affected(start, end) ==
    {i \in 1 .. Len(segs) : segs[i].off <= end /\ SegEnd(segs[i]) >= start}

\* The list after _insert of new data at `start`, past read_offset.
Inserted(start, data) ==
    LET end == start + Len(data)
        n == Len(segs)
        aff == Affected(start, end)
    IN  IF n = 0 THEN <<[off |-> start, data |-> data]>>
        ELSE IF start = SegEnd(segs[n])
             THEN [segs EXCEPT ![n].data = @ \o data]
        ELSE IF n = 1 /\ start >= segs[1].off /\ start <= SegEnd(segs[1])
             THEN [segs EXCEPT ![1].data =
                      @ \o SubSeq(data, SegEnd(segs[1]) - start + 1, Len(data))]
        ELSE IF aff = {} THEN InsertGap(start, data)
        ELSE InsertMerge(start, end, data, Min(aff), Max(aff))

Insert(off, data) ==
    LET start == Larger(off, read_offset)
    IN  IF off + Len(data) <= start THEN segs
        ELSE Inserted(start, SubSeq(data, start - off + 1, Len(data)))

-----------------------------------------------------------------------------
Init ==
    /\ segs = <<>> /\ read_offset = 0 /\ total_received = 0
    /\ first = [b \in Offsets |-> 0]
    /\ delivered = <<>>

\* RecvBuf.write of n bytes of one copy.
Write(off, n, copy) ==
    /\ total_received' = total_received + CountNewBytes(off, off + n)
    /\ segs' = Insert(off, [k \in 1 .. n |-> copy])
    /\ first' = [b \in Offsets |->
                    IF first[b] = 0 /\ b \in off .. (off + n - 1)
                    THEN copy ELSE first[b]]
    /\ UNCHANGED <<read_offset, delivered>>

HasReadable == segs # <<>> /\ Head(segs).off <= read_offset

\* RecvBuf.read moves the first segment out.
Read ==
    /\ HasReadable
    /\ LET s == Head(segs)
           skip == read_offset - s.off
       IN  /\ read_offset' = SegEnd(s)
           /\ segs' = Tail(segs)
           /\ delivered' = delivered \o SubSeq(s.data, skip + 1, Len(s.data))
    /\ UNCHANGED <<total_received, first>>

Next ==
    \/ \E off \in Offsets, n \in 0 .. MaxOffset, copy \in Copies :
          off + n <= MaxOffset /\ Write(off, n, copy)
    \/ Read

Spec == Init /\ [][Next]_vars

-----------------------------------------------------------------------------
(* Properties *)

\* Segments are sorted, never empty, never touch and lie at or above
\* read_offset, whichever path _insert took.
Canonical ==
    /\ \A i \in 1 .. Len(segs) : segs[i].data # <<>> /\ segs[i].off >= read_offset
    /\ \A i \in 2 .. Len(segs) : segs[i].off > SegEnd(segs[i - 1])

\* Accept-first-copy: every stored byte is the copy received first, and
\* nothing received is missing.
FirstCopyKept ==
    \A b \in Offsets : StoredByte(b) = IF b < read_offset THEN 0 ELSE first[b]

\* total_received counts every distinct byte once.
CountsAgree == total_received = Cardinality({b \in Offsets : first[b] # 0})

\* The gap rules of the list code are those of the byte set.
GapRulesAgree ==
    LET have == {b \in Offsets : b >= read_offset /\ first[b] # 0}
    IN  /\ NumGaps = Cardinality({b \in have : b > read_offset
                                              /\ (b - 1) \notin have})
        /\ \A off \in Offsets : \A end \in (off + 1) .. MaxOffset :
              WouldCreateGap(off, end) <=>
                 off > read_offset /\ ((off - 1) .. end) \cap have = {}

\* The application reads the first copies, in order and without a hole.
DeliveredInOrder ==
    /\ Len(delivered) = read_offset
    /\ \A i \in 1 .. Len(delivered) : delivered[i] = first[i - 1]

=============================================================================
