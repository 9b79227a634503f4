----------------------------- MODULE LogFormat -----------------------------
(***************************************************************************)
(* The record format of the write-ahead log and of the manifest:           *)
(* log::Writer cuts a record into physical records that never cross a      *)
(* block, log::Reader puts them together again.                            *)
(*                                                                         *)
(* A byte of the file is <<j, p>>, the p-th byte of the j-th physical      *)
(* record ever emitted, or Zero, a byte of a block trailer.  A byte of a   *)
(* user record r is <<r, i>>.  The checksum is ideal: it accepts exactly   *)
(* the bytes of one physical record, whole and in order.  What a header    *)
(* made of bytes of several physical records says of its length and type   *)
(* is arbitrary.                                                           *)
(*                                                                         *)
(* A file is written; the process may die, which leaves any prefix of it;  *)
(* with reuse_logs a new Writer may append to what is left; at last a      *)
(* Reader reads the file to its end.                                       *)
(***************************************************************************)
EXTENDS Naturals, Sequences

CONSTANTS
    NULL,
    kBlockSize, kHeaderSize,
    InitialOffsets, \* values of initial_offset of the Reader
    MaxRecords,     \* bound: records added
    MaxLen,         \* bound: bytes of a record
    MaxTears,       \* bound: crashes that cut the file
    MaxFail         \* bound: file operations that fail

ASSUME LogAssumption ==
    /\ NULL \notin Nat
    /\ kHeaderSize \in Nat \ {0} /\ kBlockSize \in Nat /\ kHeaderSize < kBlockSize
    /\ InitialOffsets \subseteq Nat
    /\ MaxRecords \in Nat /\ MaxLen \in Nat /\ MaxTears \in Nat /\ MaxFail \in Nat

VARIABLES
    file,      \* the bytes of the file
    phys,      \* every physical record emitted
    recs,      \* records given to AddRecord: length, first and last byte in the
               \* file; end = 0 unless AddRecord returned OK and no crash cut it
    left,      \* bytes of the last record still to emit; NULL outside AddRecord
    block_offset,
    pc,        \* "write", "cut", then "call", "read", "done" of the Reader
    initial_offset, last_record_offset,
    buffer, end_of_buffer_offset, eof,
    resyncing, in_fragmented_record, prospective, scratch,
    out,       \* the records ReadRecord returned
    reported,  \* Reporter::Corruption was called
    reused,    \* a Writer appended to a file that a crash had cut
    tears, fails

wvars == <<file, phys, recs, left, block_offset, reused, tears>>
rvars == <<initial_offset, last_record_offset, buffer, end_of_buffer_offset, eof,
           resyncing, in_fragmented_record, prospective, scratch, out, reported>>
vars  == <<wvars, rvars, pc, fails>>

Zero == <<0, 0>>
Zeros(n) == [i \in 1..n |-> Zero]
Least2(a, b) == IF a < b THEN a ELSE b
Current == Len(recs)

Init ==
    /\ file = <<>> /\ phys = <<>> /\ recs = <<>> /\ left = NULL /\ block_offset = 0
    /\ pc = "write" /\ reused = FALSE /\ tears = 0 /\ fails = 0
    /\ initial_offset = 0 /\ last_record_offset = 0
    /\ buffer = <<>> /\ end_of_buffer_offset = 0 /\ eof = FALSE /\ resyncing = FALSE
    /\ in_fragmented_record = FALSE /\ prospective = 0 /\ scratch = <<>>
    /\ out = <<>> /\ reported = FALSE

-----------------------------------------------------------------------------
(* log::Writer *)

Leftover == kBlockSize - block_offset
(* Fault: a new block is begun only when the old one is full. *)
FullBlock == Leftover = 0
NewBlock == Leftover < kHeaderSize
At       == IF NewBlock THEN 0 ELSE block_offset
Trailer  == IF NewBlock THEN Leftover ELSE 0
FragmentLength == Least2(left, kBlockSize - At - kHeaderSize)

Begin == left = recs[Current].len
         /\ \A j \in 1..Len(phys) : phys[j].rec # Current
End   == left = FragmentLength
Type  == CASE Begin /\ End   -> "kFullType"
           [] Begin /\ ~End  -> "kFirstType"
           [] ~Begin /\ End  -> "kLastType"
           [] ~Begin /\ ~End -> "kMiddleType"

AddRecord ==
    /\ pc = "write" /\ left = NULL /\ Len(recs) < MaxRecords
    /\ \E len \in 0..MaxLen :
        /\ left' = len
        /\ recs' = Append(recs, [len |-> len, start |-> 0, end |-> 0])
    /\ UNCHANGED <<file, phys, block_offset, reused, tears, rvars, pc, fails>>

\* One turn of the loop: z bytes of the trailer and k bytes of the physical
\* record reach the file.
EmitPhysicalRecord(z, k) ==
    LET j == Len(phys) + 1
        n == kHeaderSize + FragmentLength
    IN  /\ phys' = Append(phys, [type |-> Type, rec |-> Current, len |-> FragmentLength,
                                 from |-> recs[Current].len - left])
        /\ file' = file \o Zeros(z) \o [p \in 1..k |-> <<j, p>>]
        /\ block_offset' = At + n
        /\ left' = IF k < n \/ End THEN NULL ELSE left - FragmentLength
        /\ recs' = [recs EXCEPT
                      ![Current].start = IF Begin THEN Len(file) + z ELSE @,
                      ![Current].end = IF End /\ k = n THEN Len(file) + z + n ELSE @]

Emit ==
    /\ pc = "write" /\ left # NULL
    /\ EmitPhysicalRecord(Trailer, kHeaderSize + FragmentLength)
    /\ UNCHANGED <<reused, tears, rvars, pc, fails>>

\* Append or Flush fails: AddRecord returns the error, and block_offset_ has
\* advanced over bytes that are not in the file.
EmitFails ==
    /\ pc = "write" /\ left # NULL /\ fails < MaxFail /\ fails' = fails + 1
    /\ \E k \in 0..(kHeaderSize + FragmentLength - 1) : EmitPhysicalRecord(Trailer, k)
    /\ UNCHANGED <<reused, tears, rvars, pc>>

\* The Append of the trailer fails; its status is not looked at.
TrailerLost ==
    /\ pc = "write" /\ left # NULL /\ Trailer > 0
    /\ fails < MaxFail /\ fails' = fails + 1
    /\ \E z \in 0..(Trailer - 1) : EmitPhysicalRecord(z, kHeaderSize + FragmentLength)
    /\ UNCHANGED <<reused, tears, rvars, pc>>

\* The process dies: any prefix of the file is left.
Tear ==
    /\ pc = "write" /\ tears < MaxTears /\ tears' = tears + 1 /\ pc' = "cut"
    /\ \E k \in 0..Len(file) :
        /\ file' = SubSeq(file, 1, k)
        /\ recs' = [r \in DOMAIN recs |->
                      IF recs[r].end > k THEN [recs[r] EXCEPT !.end = 0] ELSE recs[r]]
    /\ left' = NULL
    /\ UNCHANGED <<phys, block_offset, reused, rvars, fails>>

\* Writer(dest, dest_length): with options.reuse_logs recovery keeps the last log.
Reuse ==
    /\ pc = "cut" /\ pc' = "write" /\ reused' = TRUE
    /\ block_offset' = Len(file) % kBlockSize
    /\ UNCHANGED <<file, phys, recs, left, tears, rvars, fails>>

StartReader ==
    /\ pc \in {"write", "cut"} /\ left = NULL /\ pc' = "call"
    /\ initial_offset' \in InitialOffsets /\ resyncing' = (initial_offset' > 0)
    /\ UNCHANGED <<wvars, last_record_offset, buffer, end_of_buffer_offset, eof,
                   in_fragmented_record, prospective, scratch, out, reported, fails>>

-----------------------------------------------------------------------------
(* log::Reader *)

\* ReportDrop; the subtraction is modulo 2^64.
Dropped(bytes, end, size) ==
    end < size + bytes \/ end - size - bytes >= initial_offset

\* Start of the first block that can hold the initial record.
BlockStart ==
    LET in == initial_offset % kBlockSize
    IN  initial_offset - in + (IF in > kBlockSize - (kHeaderSize - 1) THEN kBlockSize ELSE 0)

ReadRecord ==
    /\ pc = "call" /\ pc' = "read"
    /\ end_of_buffer_offset' = IF last_record_offset < initial_offset
                               THEN BlockStart ELSE end_of_buffer_offset
    /\ scratch' = <<>> /\ in_fragmented_record' = FALSE /\ prospective' = 0
    /\ UNCHANGED <<wvars, initial_offset, last_record_offset, buffer, eof, resyncing,
                   out, reported, fails>>

SkipFails ==
    /\ pc = "call" /\ last_record_offset < initial_offset /\ BlockStart > 0
    /\ fails < MaxFail /\ fails' = fails + 1 /\ pc' = "done"
    /\ end_of_buffer_offset' = BlockStart
    /\ reported' = (reported \/ Dropped(BlockStart, BlockStart, Len(buffer)))
    /\ UNCHANGED <<wvars, initial_offset, last_record_offset, buffer, eof, resyncing,
                   in_fragmented_record, prospective, scratch, out>>

\* The buffer holds less than a header: it is a trailer, read the next block.
ReadBlock ==
    LET block == SubSeq(file, end_of_buffer_offset + 1,
                        Least2(end_of_buffer_offset + kBlockSize, Len(file)))
    IN  /\ pc = "read" /\ Len(buffer) < kHeaderSize /\ ~eof
        /\ buffer' = block
        /\ end_of_buffer_offset' = end_of_buffer_offset + Len(block)
        /\ eof' = (Len(block) < kBlockSize)
        /\ UNCHANGED <<wvars, initial_offset, last_record_offset, resyncing,
                       in_fragmented_record, prospective, scratch, out, reported, pc, fails>>

ReadBlockFails ==
    /\ pc = "read" /\ Len(buffer) < kHeaderSize /\ ~eof
    /\ fails < MaxFail /\ fails' = fails + 1
    /\ buffer' = <<>> /\ eof' = TRUE /\ scratch' = <<>> /\ resyncing' = FALSE /\ pc' = "done"
    /\ reported' = (reported \/ Dropped(kBlockSize, end_of_buffer_offset, 0))
    /\ UNCHANGED <<wvars, initial_offset, last_record_offset, end_of_buffer_offset,
                   in_fragmented_record, prospective, out>>

\* What the header at the front of the buffer is.
HeaderOf(j)  == \A p \in 1..kHeaderSize : buffer[p] = <<j, p>>
ZeroHeader   == \A p \in 1..kHeaderSize : buffer[p] = Zero
Garbled      == ~ZeroHeader /\ \A j \in 1..Len(phys) : ~HeaderOf(j)
Size(j)      == kHeaderSize + phys[j].len
Intact(j)    == Size(j) <= Len(buffer) /\ \A p \in 1..Size(j) : buffer[p] = <<j, p>>
TooLong      == \E j \in 1..Len(phys) : HeaderOf(j) /\ Size(j) > Len(buffer)
BadChecksum  == \E j \in 1..Len(phys) :
                    HeaderOf(j) /\ Size(j) <= Len(buffer) /\ ~Intact(j)
Offset       == end_of_buffer_offset - Len(buffer)

HeaderRead == pc = "read" /\ Len(buffer) >= kHeaderSize

ReadEof ==
    /\ \/ pc = "read" /\ Len(buffer) < kHeaderSize /\ eof
       \/ HeaderRead /\ (TooLong \/ Garbled) /\ eof
    /\ buffer' = <<>> /\ scratch' = <<>> /\ resyncing' = FALSE /\ pc' = "done"
    /\ UNCHANGED <<wvars, initial_offset, last_record_offset, end_of_buffer_offset, eof,
                   in_fragmented_record, prospective, out, reported, fails>>

ReportBad(rest, report) ==
    \/ reported
    \/ report /\ Dropped(Len(buffer), end_of_buffer_offset, 0)
    \/ in_fragmented_record /\ Dropped(Len(scratch), end_of_buffer_offset, Len(rest))

readerFrame == <<wvars, initial_offset, last_record_offset, end_of_buffer_offset, eof,
                 prospective, out, pc, fails>>

(* Fault: the buffer is not cleared. *)
BadKept(rest, report) ==
    /\ UNCHANGED buffer /\ resyncing' = FALSE /\ reported' = ReportBad(rest, report)
    /\ in_fragmented_record' = FALSE /\ scratch' = <<>>
    /\ UNCHANGED readerFrame

\* kBadRecord with `rest' left in the buffer, after a report or without one.
BadRecord(rest, report) ==
    /\ buffer' = rest /\ resyncing' = FALSE /\ reported' = ReportBad(rest, report)
    /\ in_fragmented_record' = FALSE
    /\ scratch' = IF in_fragmented_record THEN <<>> ELSE scratch
    /\ UNCHANGED readerFrame

(* Fault: a record cut off by the end of the file counts as corrupt. *)
ReadBadTail ==
    /\ HeaderRead
    /\ (TooLong \/ BadChecksum) /\ BadRecord(<<>>, TRUE)

ReadBad ==
    /\ HeaderRead
    /\ \/ TooLong /\ ~eof /\ BadRecord(<<>>, TRUE)
       \/ BadChecksum /\ BadRecord(<<>>, TRUE)
       \/ Garbled /\ \E report \in BOOLEAN : BadRecord(<<>>, report)
       \/ ZeroHeader /\ BadRecord(<<>>, FALSE)

Rest(j) == SubSeq(buffer, Size(j) + 1, Len(buffer))

(* Fault: a record that starts exactly at the offset is skipped. *)
ReadEarlyOrAt ==
    /\ HeaderRead
    /\ \E j \in 1..Len(phys) : Intact(j) /\ Offset <= initial_offset
                               /\ BadRecord(Rest(j), FALSE)

ReadEarly ==
    /\ HeaderRead
    /\ \E j \in 1..Len(phys) : Intact(j) /\ Offset < initial_offset
                               /\ BadRecord(Rest(j), FALSE)

\* ReadPhysicalRecord returns physical record j of the type.
Physical(j, type) ==
    /\ HeaderRead /\ Intact(j) /\ Offset >= initial_offset /\ phys[j].type = type
    /\ buffer' = Rest(j)
    /\ UNCHANGED <<wvars, initial_offset, end_of_buffer_offset, eof, fails>>

Fragment(j) == [i \in 1..phys[j].len |-> <<phys[j].rec, phys[j].from + i>>]

Report(bytes, rest) == reported \/ Dropped(bytes, end_of_buffer_offset, Len(rest))

Return(record, offset) ==
    /\ out' = Append(out, record) /\ last_record_offset' = offset /\ pc' = "call"

Resync ==
    /\ resyncing
    /\ \E j \in 1..Len(phys) :
        \/ Physical(j, "kMiddleType") /\ UNCHANGED resyncing
        \/ Physical(j, "kLastType") /\ resyncing' = FALSE
    /\ UNCHANGED <<last_record_offset, in_fragmented_record, prospective, scratch, out,
                   reported, pc>>

ReadFull ==
    /\ \E j \in 1..Len(phys) :
        /\ Physical(j, "kFullType")
        /\ prospective' = Offset /\ Return(Fragment(j), Offset)
        /\ IF in_fragmented_record /\ scratch # <<>>
           THEN reported' = Report(Len(scratch), Rest(j)) /\ UNCHANGED in_fragmented_record
           ELSE UNCHANGED reported /\ in_fragmented_record' = FALSE
    /\ scratch' = <<>> /\ resyncing' = FALSE

(* Fault: the fragment is appended to what was read of another record. *)
ReadFirstAppend ==
    /\ \E j \in 1..Len(phys) :
        /\ Physical(j, "kFirstType")
        /\ prospective' = Offset /\ scratch' = scratch \o Fragment(j)
    /\ in_fragmented_record' = TRUE /\ resyncing' = FALSE
    /\ UNCHANGED <<last_record_offset, out, pc, reported>>

ReadFirst ==
    /\ \E j \in 1..Len(phys) :
        /\ Physical(j, "kFirstType")
        /\ prospective' = Offset /\ scratch' = Fragment(j)
        /\ reported' = IF in_fragmented_record /\ scratch # <<>>
                       THEN Report(Len(scratch), Rest(j)) ELSE reported
    /\ in_fragmented_record' = TRUE /\ resyncing' = FALSE
    /\ UNCHANGED <<last_record_offset, out, pc>>

ReadMiddle ==
    /\ ~resyncing
    /\ \E j \in 1..Len(phys) :
        /\ Physical(j, "kMiddleType")
        /\ IF in_fragmented_record
           THEN scratch' = scratch \o Fragment(j) /\ UNCHANGED reported
           ELSE reported' = Report(phys[j].len, Rest(j)) /\ UNCHANGED scratch
    /\ UNCHANGED <<last_record_offset, in_fragmented_record, prospective, out, pc, resyncing>>

ReadLast ==
    /\ ~resyncing
    /\ \E j \in 1..Len(phys) :
        /\ Physical(j, "kLastType")
        /\ IF in_fragmented_record
           THEN /\ scratch' = scratch \o Fragment(j)
                /\ Return(scratch', prospective) /\ UNCHANGED reported
           ELSE /\ reported' = Report(phys[j].len, Rest(j))
                /\ UNCHANGED <<scratch, out, last_record_offset, pc>>
    /\ UNCHANGED <<in_fragmented_record, prospective, resyncing>>

Read ==
    \/ ReadRecord \/ ReadBlock \/ ReadEof \/ ReadBad \/ ReadEarly \/ Resync
    \/ ReadFull \/ ReadFirst \/ ReadMiddle \/ ReadLast

Finished == pc = "done" /\ UNCHANGED vars

Next ==
    \/ AddRecord \/ Emit \/ EmitFails \/ TrailerLost \/ Tear \/ Reuse \/ StartReader
    \/ Read \/ SkipFails \/ ReadBlockFails \/ Finished

Spec == Init /\ [][Next]_vars

-----------------------------------------------------------------------------
Content(r) == [i \in 1..recs[r].len |-> <<r, i>>]

TypeOK ==
    /\ file \in Seq(Nat \X Nat)
    /\ phys \in Seq([type : {"kFullType", "kFirstType", "kMiddleType", "kLastType"},
                     rec : 1..MaxRecords, len : 0..kBlockSize, from : 0..MaxLen])
    /\ recs \in Seq([len : 0..MaxLen, start : Nat, end : Nat])
    /\ left \in 0..MaxLen \cup {NULL} /\ block_offset \in 0..kBlockSize
    /\ pc \in {"write", "cut", "call", "read", "done"}
    /\ initial_offset \in InitialOffsets \cup {0} /\ last_record_offset \in Nat
    /\ buffer \in Seq(Nat \X Nat) /\ end_of_buffer_offset \in Nat /\ eof \in BOOLEAN
    /\ resyncing \in BOOLEAN /\ in_fragmented_record \in BOOLEAN /\ prospective \in Nat
    /\ scratch \in Seq(Nat \X Nat) /\ out \in Seq(Seq(Nat \X Nat)) /\ reported \in BOOLEAN
    /\ reused \in BOOLEAN /\ tears \in 0..MaxTears /\ fails \in 0..MaxFail

\* out consists of the records f[1], f[2], ..., each whole, in the order in
\* which they were added.
Returned(f) ==
    /\ \A n \in DOMAIN out : out[n] = Content(f[n])
    /\ \A m, n \in DOMAIN out : m < n => f[m] < f[n]

Survivors == {r \in DOMAIN recs : recs[r].end > 0 /\ recs[r].start >= initial_offset}

\* Without failing file operations, and unless reuse_logs appended to a file that
\* had been cut, the Reader returns exactly the records that were added completely
\* before the file was cut and that start at or after initial_offset, in order:
\* SkipToInitialBlock and resyncing neither lose a record nor return half of one.
ReadsBack ==
    (pc = "done" /\ fails = 0 /\ ~reused) =>
        \E f \in [DOMAIN out -> DOMAIN recs] :
            Returned(f) /\ {f[n] : n \in DOMAIN out} = Survivors

\* A file cut anywhere by a crash is not corrupt: reading it from the start
\* reports nothing ("assume the writer died ... Don't report a corruption"), unless
\* reuse_logs appended to what the crash left.
TornTailIgnored == (fails = 0 /\ ~reused /\ initial_offset = 0) => ~reported

\* The log::Reader returns exactly the records that reached the file whole, in
\* order, and takes a tail that a crash cut for what it is.
LogReadsBack == ReadsBack /\ TornTailIgnored

\* The same for a Reader that starts at any initial_offset: the Reporter is
\* told of data "dropped due to a detected corruption" only (log_reader.h).
ReportsOnlyCorruption == (fails = 0 /\ ~reused) => ~reported

\* Whatever file operations fail, ReadRecord returns only records that were
\* given to AddRecord, each whole, none twice, and in the order they were added:
\* fragments of two records are never joined.
NothingInvented ==
    \E f \in [DOMAIN out -> DOMAIN recs] : Returned(f)

\* "Invariant: we never leave < kHeaderSize bytes in a block" (log_writer.cpp):
\* the header of a physical record lies inside one block of the file.
HeaderInOneBlock ==
    \A x \in DOMAIN file :
        file[x][2] = 1 => ((x - 1) % kBlockSize) + kHeaderSize <= kBlockSize

\* What the Reader has before it: bytes that are not in the buffer yet, bytes of
\* the buffer, the end of the file that it has not noticed.
Unread ==
    LET ahead == IF end_of_buffer_offset < Len(file) THEN Len(file) - end_of_buffer_offset ELSE 0
    IN  3 * ahead + 2 * Len(buffer) + (IF eof THEN 0 ELSE 1) + (IF pc = "call" THEN 1 ELSE 0)

\* The loops of ReadRecord and of its caller end, whatever the file holds: every
\* step of the Reader lessens what is before it, or is the last.
ReaderAdvances == [][(pc = "call" \/ pc = "read") => (pc' = "done" \/ Unread' < Unread)]_vars

=============================================================================
