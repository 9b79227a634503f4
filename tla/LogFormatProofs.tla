--------------------------- MODULE LogFormatProofs ---------------------------
(***************************************************************************)
(* The log format, for every block size, header size, record length and    *)
(* initial offset, and any number of failing file operations.              *)
(*                                                                         *)
(* What holds of every file, also one that failed operations and reused    *)
(* logs have left: the Reader never returns anything but records that were *)
(* added, and every step brings it closer to the end.                      *)
(***************************************************************************)
EXTENDS LogFormat, SequenceTheorems, TLAPS

Begins    == {"kFullType", "kFirstType"}
Continues == {"kMiddleType", "kLastType"}
Ends      == {"kFullType", "kLastType"}
Open      == {"kFirstType", "kMiddleType"}

(* The physical records: fragments of a record follow each other, the      *)
(* records are in order, and nothing follows a fragment that ends one.     *)
PhysOK ==
    \A j \in 1..Len(phys) :
        /\ phys[j].rec \in 1..Len(recs)
        /\ phys[j].type \in Begins => phys[j].from = 0
        /\ phys[j].type \in Ends => phys[j].from + phys[j].len = recs[phys[j].rec].len
        /\ phys[j].type \in Continues =>
              /\ j > 1 /\ phys[j - 1].type \in Open /\ phys[j - 1].rec = phys[j].rec
              /\ phys[j - 1].from + phys[j - 1].len = phys[j].from
        /\ \A i \in 1..(j - 1) :
              /\ phys[i].rec <= phys[j].rec
              /\ phys[i].rec = phys[j].rec => phys[i].type \in Open /\ phys[j].type \in Continues

(* The bytes: zeros, and physical records from their first byte on.        *)
BytesOK ==
    \A x \in DOMAIN file :
        \/ file[x] = Zero
        \/ /\ file[x][1] \in 1..Len(phys) /\ file[x][2] \in 1..Size(file[x][1])
           /\ \A p \in 1..file[x][2] :
                 x - file[x][2] + p \in DOMAIN file
                 /\ file[x - file[x][2] + p] = <<file[x][1], p>>

(* They are in the order in which they were emitted.                       *)
OrderOK ==
    \A x, y \in DOMAIN file :
        x < y /\ file[x][1] > 0 /\ file[y][1] > 0 =>
            /\ file[x][1] <= file[y][1]
            /\ file[x][1] = file[y][1] => y - x = file[y][2] - file[x][2]

(* A fragment that continues a record is written behind the one before it. *)
ContinuedOK ==
    \A y \in DOMAIN file :
        file[y][1] > 0 /\ phys[file[y][1]].type \in Continues =>
            \E x \in DOMAIN file :
                x < y /\ file[x] = <<file[y][1] - 1, Size(file[y][1] - 1)>>

(* AddRecord between two fragments.                                        *)
WriterOK ==
    /\ Len(recs) <= MaxRecords
    /\ pc # "write" => left = NULL
    /\ left # NULL =>
          /\ Current >= 1 /\ left <= recs[Current].len
          /\ \/ left = recs[Current].len /\ \A j \in 1..Len(phys) : phys[j].rec # Current
             \/ /\ Len(phys) > 0 /\ phys[Len(phys)].rec = Current
                /\ phys[Len(phys)].type \in Open
                /\ phys[Len(phys)].from + phys[Len(phys)].len = recs[Current].len - left
                /\ Len(file) > 0 /\ file[Len(file)] = <<Len(phys), Size(Len(phys))>>

(* Where a record starts and ends. *)
RecsOK ==
    /\ \A x \in DOMAIN file : file[x][1] > 0 =>
          LET j == file[x][1]
              r == phys[j].rec
          IN  /\ recs[r].start < x
              /\ recs[r].start + 1 \in DOMAIN file /\ file[recs[r].start + 1][2] = 1
              /\ file[x][2] = 1 /\ phys[j].type \in Begins => recs[r].start = x - 1
              /\ file[x][2] = Size(j) /\ phys[j].type \in Ends => recs[r].end = x
    /\ \A r \in DOMAIN recs : recs[r].end > 0 =>
          LET x == recs[r].end
          IN  /\ x \in DOMAIN file /\ file[x][1] > 0
              /\ file[x] = <<file[x][1], Size(file[x][1])>>
              /\ phys[file[x][1]].rec = r /\ phys[file[x][1]].type \in Ends

FileInv == TypeOK /\ PhysOK /\ BytesOK /\ OrderOK /\ ContinuedOK /\ WriterOK /\ RecsOK

Reading == pc \in {"call", "read"}

(* The buffer is a part of the file.  The Reader jumps to initial_offset   *)
(* only before its first record, with nothing in the buffer.               *)
BufferBytes ==
    /\ Len(buffer) <= end_of_buffer_offset
    /\ \A p \in 1..Len(buffer) :
          Offset + p \in DOMAIN file /\ buffer[p] = file[Offset + p]

BufferPlace ==
    /\ pc \in {"write", "cut"} => initial_offset = 0 /\ last_record_offset = 0 /\ ~eof
    /\ pc \in {"write", "cut"} \/ (pc = "call" /\ last_record_offset < initial_offset) =>
          out = <<>> /\ end_of_buffer_offset = 0 /\ ~eof /\ ~in_fragmented_record
    /\ pc = "read" /\ in_fragmented_record => prospective >= initial_offset
    /\ resyncing => ~in_fragmented_record

BufferOK == BufferBytes /\ BufferPlace

(* The Reader has read physical record h of an unfinished record, all      *)
(* fragments of which are in scratch, and at most skipped a trailer since. *)
Fragmented(h) ==
    /\ h \in 1..Len(phys) /\ phys[h].type \in Open
    /\ scratch = [i \in 1..(phys[h].from + phys[h].len) |-> <<phys[h].rec, i>>]
    /\ recs[phys[h].rec].start >= initial_offset
    /\ \E q \in DOMAIN file :
          /\ file[q] = <<h, Size(h)>> /\ q <= Offset /\ Offset - q < kHeaderSize
          /\ Offset = q \/ eof \/ Len(buffer) >= kHeaderSize

(* The records returned come before those that are not read yet.           *)
Ahead(f, h) ==
    \A n \in DOMAIN out :
        /\ \A x \in DOMAIN file :
              x > Offset /\ file[x][1] > 0 => phys[file[x][1]].rec > f[n]
        /\ pc = "read" /\ in_fragmented_record => phys[h].rec > f[n]

(* out consists of the records f, and the Reader is past physical record h *)
(* of another.                                                             *)
Track(f, h) ==
    /\ Returned(f)
    /\ \A n \in DOMAIN out : f[n] \in Survivors
    /\ pc = "read" /\ in_fragmented_record => Fragmented(h)
    /\ Reading => Ahead(f, h)

ReaderOK ==
    \E h \in 0..Len(phys), f \in [DOMAIN out -> DOMAIN recs] : Track(f, h)

LogInv == FileInv /\ BufferOK /\ ReaderOK

-----------------------------------------------------------------------------
(* The Writer. *)

USE LogAssumption

LEMMA Types ==
    ASSUME TypeOK
    PROVE  /\ Len(file) \in Nat /\ Len(phys) \in Nat /\ Len(recs) \in Nat
           /\ Len(buffer) \in Nat /\ Len(scratch) \in Nat /\ Len(out) \in Nat
           /\ DOMAIN file = 1..Len(file) /\ DOMAIN recs = 1..Len(recs) /\ DOMAIN out = 1..Len(out)
           /\ \A x \in 1..Len(file) : /\ file[x][1] \in Nat /\ file[x][2] \in Nat
                                     /\ file[x] = <<file[x][1], file[x][2]>>
           /\ \A j \in 1..Len(phys) : /\ phys[j].rec \in Nat /\ phys[j].len \in Nat /\ phys[j].from \in Nat
                                     /\ Size(j) \in Nat /\ Size(j) >= kHeaderSize /\ Size(j) >= 1
                                     /\ Size(j) = kHeaderSize + phys[j].len
           /\ \A r \in 1..Len(recs) : /\ recs[r].len \in Nat /\ recs[r].start \in Nat /\ recs[r].end \in Nat
           /\ initial_offset \in Nat /\ last_record_offset \in Nat
           /\ end_of_buffer_offset \in Nat /\ prospective \in Nat
           /\ fails \in Nat /\ tears \in Nat /\ (left # NULL => left \in Nat)
           /\ \A j \in 1..Len(phys) :
                 /\ phys[j].type \in Begins <=> phys[j].type \notin Continues
                 /\ phys[j].type \in Ends <=> phys[j].type \notin Open
<1> DEFINE S == [type : {"kFullType", "kFirstType", "kMiddleType", "kLastType"},
                 rec : 1..MaxRecords, len : 0..kBlockSize, from : 0..MaxLen]
           R == [len : 0..MaxLen, start : Nat, end : Nat]
<1>0. /\ file \in Seq(Nat \X Nat) /\ buffer \in Seq(Nat \X Nat) /\ scratch \in Seq(Nat \X Nat)
      /\ out \in Seq(Seq(Nat \X Nat))
  BY DEF TypeOK
<1>a. phys \in Seq(S)
  BY DEF TypeOK
<1>b. recs \in Seq(R)
  BY DEF TypeOK
<1>1. /\ Len(file) \in Nat /\ Len(buffer) \in Nat /\ Len(scratch) \in Nat /\ Len(out) \in Nat
      /\ DOMAIN file = 1..Len(file) /\ DOMAIN out = 1..Len(out)
  BY ONLY <1>0
<1>2. \A x \in 1..Len(file) : /\ file[x][1] \in Nat /\ file[x][2] \in Nat
                              /\ file[x] = <<file[x][1], file[x][2]>>
  <2>1. \A x \in 1..Len(file) : file[x] \in Nat \X Nat
    BY ONLY <1>0
  <2> QED BY ONLY <2>1
<1>3. /\ Len(phys) \in Nat
      /\ \A j \in 1..Len(phys) : /\ phys[j].rec \in Nat /\ phys[j].len \in Nat /\ phys[j].from \in Nat
                                /\ Size(j) \in Nat /\ Size(j) >= kHeaderSize /\ Size(j) >= 1
                                /\ Size(j) = kHeaderSize + phys[j].len
                                /\ phys[j].type \in {"kFullType", "kFirstType", "kMiddleType", "kLastType"}
  <2> HIDE DEF S
  <2>1. Len(phys) \in Nat /\ \A j \in 1..Len(phys) : phys[j] \in S
    BY ONLY <1>a
  <2>2. \A j \in 1..Len(phys) : phys[j].rec \in 1..MaxRecords /\ phys[j].len \in 0..kBlockSize /\ phys[j].from \in 0..MaxLen
                         /\ phys[j].type \in {"kFullType", "kFirstType", "kMiddleType", "kLastType"}
    BY ONLY <2>1 DEF S
  <2> QED BY ONLY SMTT(40), <2>1, <2>2, LogAssumption DEF Size
<1>4. /\ Len(recs) \in Nat /\ DOMAIN recs = 1..Len(recs)
      /\ \A r \in 1..Len(recs) : /\ recs[r].len \in Nat /\ recs[r].start \in Nat /\ recs[r].end \in Nat
  <2> HIDE DEF R
  <2>1. Len(recs) \in Nat /\ DOMAIN recs = 1..Len(recs) /\ \A r \in 1..Len(recs) : recs[r] \in R
    BY ONLY <1>b
  <2>2. \A r \in 1..Len(recs) : recs[r].len \in 0..MaxLen /\ recs[r].start \in Nat /\ recs[r].end \in Nat
    BY ONLY <2>1 DEF R
  <2> QED BY ONLY <2>1, <2>2, LogAssumption
<1>5. /\ initial_offset \in Nat /\ last_record_offset \in Nat
      /\ end_of_buffer_offset \in Nat /\ prospective \in Nat
      /\ fails \in Nat /\ tears \in Nat /\ (left # NULL => left \in Nat)
  BY DEF TypeOK
<1>6. \A j \in 1..Len(phys) :
         /\ phys[j].type \in Begins <=> phys[j].type \notin Continues
         /\ phys[j].type \in Ends <=> phys[j].type \notin Open
  BY ONLY <1>3 DEF Begins, Continues, Ends, Open
<1> QED BY <1>1, <1>2, <1>3, <1>4, <1>5, <1>6

LEMMA FragmentFits ==
    ASSUME TypeOK, WriterOK, left # NULL
    PROVE  /\ left \in Nat /\ Current \in 1..Len(recs) /\ Current \in Nat
           /\ At \in Nat /\ Trailer \in Nat /\ Trailer < kHeaderSize
           /\ FragmentLength \in Nat /\ FragmentLength <= left
           /\ At + kHeaderSize + FragmentLength <= kBlockSize
           /\ left # FragmentLength => At + kHeaderSize + FragmentLength = kBlockSize
<1>1. /\ left \in Nat /\ block_offset \in 0..kBlockSize /\ Current \in 1..Len(recs)
  BY DEF TypeOK, WriterOK, Current
<1>2. /\ At \in Nat /\ Trailer \in Nat /\ Trailer < kHeaderSize /\ At + kHeaderSize <= kBlockSize
  BY <1>1 DEF At, Trailer, NewBlock, Leftover
<1> QED BY <1>1, <1>2 DEF FragmentLength, Least2

LEMMA ConcatAt ==
    ASSUME NEW S, NEW s \in Seq(S), NEW t \in Seq(S)
    PROVE  /\ s \o t \in Seq(S) /\ Len(s \o t) = Len(s) + Len(t)
           /\ \A x \in 1..(Len(s) + Len(t)) :
                 (s \o t)[x] = IF x <= Len(s) THEN s[x] ELSE t[x - Len(s)]
OBVIOUS

LEMMA PhysAt ==
    ASSUME TypeOK, PhysOK, NEW j \in 1..Len(phys)
    PROVE  /\ phys[j].rec \in 1..Len(recs)
           /\ phys[j].type \in Begins => phys[j].from = 0
           /\ phys[j].type \in Ends => phys[j].from + phys[j].len = recs[phys[j].rec].len
           /\ phys[j].type \in Continues =>
                /\ j - 1 \in 1..Len(phys) /\ phys[j - 1].type \in Open
                /\ phys[j - 1].rec = phys[j].rec
                /\ phys[j - 1].from + phys[j - 1].len = phys[j].from
<1>1. Len(phys) \in Nat
  BY Types
<1>2. /\ phys[j].rec \in 1..Len(recs)
      /\ phys[j].type \in Begins => phys[j].from = 0
      /\ phys[j].type \in Ends => phys[j].from + phys[j].len = recs[phys[j].rec].len
      /\ phys[j].type \in Continues =>
           /\ j > 1 /\ phys[j - 1].type \in Open /\ phys[j - 1].rec = phys[j].rec
           /\ phys[j - 1].from + phys[j - 1].len = phys[j].from
  BY DEF PhysOK
<1> QED BY ONLY <1>1, <1>2, j \in 1..Len(phys)

LEMMA PhysOrder ==
    ASSUME TypeOK, PhysOK, NEW i \in 1..Len(phys), NEW j \in 1..Len(phys), i < j
    PROVE  /\ phys[i].rec <= phys[j].rec
           /\ phys[i].rec = phys[j].rec => phys[i].type \in Open /\ phys[j].type \in Continues
<1>1. i \in 1..(j - 1)
  BY Types
<1> QED BY <1>1 DEF PhysOK

LEMMA SubSeqAt ==
    ASSUME NEW S, NEW s \in Seq(S), NEW a \in Nat, NEW b \in Nat, a <= b, b <= Len(s)
    PROVE  /\ SubSeq(s, a + 1, b) \in Seq(S) /\ Len(SubSeq(s, a + 1, b)) = b - a
           /\ \A p \in 1..(b - a) : SubSeq(s, a + 1, b)[p] = s[a + p]
OBVIOUS

LEMMA SubSeqNone ==
    ASSUME NEW S, NEW s \in Seq(S), NEW a \in Nat, NEW b \in Nat, b <= a
    PROVE  SubSeq(s, a + 1, b) = <<>>
OBVIOUS

LEMMA EmittedFile ==
    ASSUME file \in Seq(Nat \X Nat), NEW z \in Nat, NEW k \in Nat, NEW j \in Nat,
           file' = file \o Zeros(z) \o [p \in 1..k |-> <<j, p>>]
    PROVE  /\ file' \in Seq(Nat \X Nat) /\ Len(file') = Len(file) + z + k
           /\ \A x \in 1..Len(file) : file'[x] = file[x]
           /\ \A x \in 1..Len(file') : Len(file) < x /\ x <= Len(file) + z => file'[x] = Zero
           /\ \A x \in 1..Len(file') :
                 Len(file) + z < x => file'[x] = <<j, x - (Len(file) + z)>>
<1> DEFINE zs == Zeros(z)
           bs == [p \in 1..k |-> <<j, p>>]
           fz == file \o zs
<1>1. /\ zs \in Seq(Nat \X Nat) /\ Len(zs) = z /\ \A x \in 1..z : zs[x] = Zero
  BY DEF Zeros, Zero
<1>2. /\ bs \in Seq(Nat \X Nat) /\ Len(bs) = k /\ \A x \in 1..k : bs[x] = <<j, x>>
  OBVIOUS
<1> HIDE DEF zs, bs
<1>3. /\ fz \in Seq(Nat \X Nat) /\ Len(fz) = Len(file) + z
      /\ \A x \in 1..(Len(file) + z) : fz[x] = IF x <= Len(file) THEN file[x] ELSE zs[x - Len(file)]
  BY <1>1, ConcatAt
<1>4. file' = fz \o bs
  BY DEF zs, bs
<1> HIDE DEF fz
<1>5. /\ fz \o bs \in Seq(Nat \X Nat) /\ Len(fz \o bs) = Len(fz) + k
      /\ \A x \in 1..(Len(fz) + k) : (fz \o bs)[x] = IF x <= Len(fz) THEN fz[x] ELSE bs[x - Len(fz)]
  BY ONLY ZenonT(40), <1>2, <1>3, ConcatAt
<1>6. /\ Len(file) \in Nat /\ Len(file') = Len(file) + z + k
      /\ \A x \in 1..(Len(file) + z + k) :
            file'[x] = IF x <= Len(file) + z THEN fz[x] ELSE bs[x - (Len(file) + z)]
  <2>1. Len(file) \in Nat
    OBVIOUS
  <2>2. Len(fz) = Len(file) + z
    BY <1>3
  <2> QED BY ONLY <2>1, <2>2, <1>4, <1>5, z \in Nat, k \in Nat
<1>7. \A x \in 1..Len(file) : file'[x] = file[x]
  BY <1>3, <1>6
<1>8. \A x \in 1..Len(file') : Len(file) < x /\ x <= Len(file) + z => file'[x] = Zero
  <2> SUFFICES ASSUME NEW x \in 1..Len(file'), Len(file) < x, x <= Len(file) + z
               PROVE  file'[x] = Zero
    OBVIOUS
  <2>1. x \in 1..(Len(file) + z + k) /\ x - Len(file) \in 1..z /\ x \in 1..(Len(file) + z) /\ ~(x <= Len(file))
    BY <1>6
  <2>2. file'[x] = fz[x] /\ fz[x] = zs[x - Len(file)]
    BY ONLY <2>1, <1>3, <1>6
  <2> QED BY <2>1, <2>2, <1>1
<1>9. \A x \in 1..Len(file') : Len(file) + z < x => file'[x] = <<j, x - (Len(file) + z)>>
  BY SMTT(40), <1>2, <1>6
<1> QED BY <1>4, <1>5, <1>6, <1>7, <1>8, <1>9

(* What one turn of the loop does, read off once. *)
Emitted(z, k) ==
    LET j == Len(phys) + 1
    IN  /\ Len(phys') = j /\ \A i \in 1..Len(phys) : phys'[i] = phys[i]
        /\ phys'[j].rec = Current /\ phys'[j].len = FragmentLength
        /\ phys'[j].from = recs[Current].len - left
        /\ phys'[j].type \in Begins <=> Begin
        /\ phys'[j].type \in Continues <=> ~Begin
        /\ phys'[j].type \in Ends <=> End
        /\ phys'[j].type \in Open <=> ~End
        /\ Len(file') = Len(file) + z + k
        /\ \A x \in 1..Len(file) : file'[x] = file[x]
        /\ \A x \in 1..Len(file') : Len(file) < x /\ x <= Len(file) + z => file'[x] = Zero
        /\ \A x \in 1..Len(file') :
              Len(file) + z < x => file'[x] = <<j, x - (Len(file) + z)>>
        /\ Len(recs') = Len(recs)
        /\ \A r \in 1..Len(recs) :
              /\ recs'[r].len = recs[r].len
              /\ recs'[r].start = IF r = Current /\ Begin THEN Len(file) + z ELSE recs[r].start
              /\ recs'[r].end = IF r = Current /\ End /\ k = kHeaderSize + FragmentLength
                                THEN Len(file) + z + k ELSE recs[r].end
        /\ left' = IF k < kHeaderSize + FragmentLength \/ End THEN NULL ELSE left - FragmentLength

LEMMA EmitEffect ==
    ASSUME TypeOK, WriterOK, left # NULL, NEW z \in Nat,
           NEW k \in 0..(kHeaderSize + FragmentLength), EmitPhysicalRecord(z, k)
    PROVE  /\ Emitted(z, k)
           /\ file' \in Seq(Nat \X Nat)
           /\ phys' \in Seq([type : {"kFullType", "kFirstType", "kMiddleType", "kLastType"},
                              rec : 1..MaxRecords, len : 0..kBlockSize, from : 0..MaxLen])
           /\ recs' \in Seq([len : 0..MaxLen, start : Nat, end : Nat])
           /\ left' \in 0..MaxLen \cup {NULL} /\ block_offset' \in 0..kBlockSize
<1> DEFINE j == Len(phys) + 1
           n == kHeaderSize + FragmentLength
           new == [type |-> Type, rec |-> Current, len |-> FragmentLength,
                   from |-> recs[Current].len - left]
           S == [type : {"kFullType", "kFirstType", "kMiddleType", "kLastType"},
                 rec : 1..MaxRecords, len : 0..kBlockSize, from : 0..MaxLen]
           R == [len : 0..MaxLen, start : Nat, end : Nat]
<1>1. /\ left \in Nat /\ Current \in 1..Len(recs) /\ Current \in Nat
      /\ At \in Nat /\ FragmentLength \in Nat /\ FragmentLength <= left
      /\ At + kHeaderSize + FragmentLength <= kBlockSize
  BY FragmentFits
<1>2. recs \in Seq(R) /\ phys \in Seq(S)
  BY DEF TypeOK
<1>2a. /\ left <= recs[Current].len /\ Len(recs) <= MaxRecords /\ Len(recs) \in Nat
       /\ left \in 0..MaxLen
  BY DEF TypeOK, WriterOK
<1>2b. recs[Current] \in R
  <2> HIDE DEF R, S
  <2> QED BY <1>1, <1>2, ElementOfSeq
<1>2c. recs[Current].len \in 0..MaxLen /\ recs[Current].start \in Nat /\ recs[Current].end \in Nat
  BY <1>2b
<1>2d. /\ Current \in 1..MaxRecords /\ recs[Current].len - left \in 0..MaxLen
       /\ FragmentLength \in 0..kBlockSize
  BY <1>1, <1>2a, <1>2c
<1>3. Type \in {"kFullType", "kFirstType", "kMiddleType", "kLastType"}
      /\ (Type \in Begins <=> Begin) /\ (Type \in Continues <=> ~Begin)
      /\ (Type \in Ends <=> End) /\ (Type \in Open <=> ~End)
  BY DEF Type, Begins, Continues, Ends, Open
<1>4. new \in S
  BY <1>2d, <1>3
<1>5. phys' = Append(phys, new)
  BY DEF EmitPhysicalRecord
<1>6. /\ phys' \in Seq(S) /\ Len(phys') = j /\ phys'[j] = new
      /\ \A i \in 1..Len(phys) : phys'[i] = phys[i]
  BY <1>2, <1>4, <1>5, AppendProperties
<1>7. /\ file' \in Seq(Nat \X Nat) /\ Len(file') = Len(file) + z + k
      /\ \A x \in 1..Len(file) : file'[x] = file[x]
      /\ \A x \in 1..Len(file') : Len(file) < x /\ x <= Len(file) + z => file'[x] = Zero
      /\ \A x \in 1..Len(file') :
            Len(file) + z < x => file'[x] = <<j, x - (Len(file) + z)>>
  <2>1. file \in Seq(Nat \X Nat) /\ j \in Nat /\ k \in Nat
    BY <1>1, <1>2 DEF TypeOK
  <2>2. file' = file \o Zeros(z) \o [p \in 1..k |-> <<j, p>>]
    BY DEF EmitPhysicalRecord
  <2> HIDE DEF j
  <2> QED BY ONLY <2>1, <2>2, EmittedFile
<1>8. recs' = [recs EXCEPT ![Current].start = IF Begin THEN Len(file) + z ELSE @,
                           ![Current].end = IF End /\ k = n THEN Len(file) + z + n ELSE @]
  BY DEF EmitPhysicalRecord
<1>9. Len(file) \in Nat
  BY DEF TypeOK
<1>10. /\ recs' \in Seq(R) /\ Len(recs') = Len(recs)
       /\ \A r \in 1..Len(recs) :
              /\ recs'[r].len = recs[r].len
              /\ recs'[r].start = IF r = Current /\ Begin THEN Len(file) + z ELSE recs[r].start
              /\ recs'[r].end = IF r = Current /\ End /\ k = n
                                THEN Len(file) + z + k ELSE recs[r].end
  <2> DEFINE st == IF Begin THEN Len(file) + z ELSE recs[Current].start
             en == IF End /\ k = n THEN Len(file) + z + n ELSE recs[Current].end
             rc == [recs[Current] EXCEPT !.start = st, !.end = en]
  <2>0. Len(file) + z \in Nat /\ Len(file) + z + n \in Nat
    BY <1>1, <1>9
  <2>1. /\ st \in Nat /\ en \in Nat
    BY ONLY <2>0, <1>2c
  <2>2. recs' = [recs EXCEPT ![Current] = rc]
    BY <1>1, <1>2, <1>2b, <1>8
  <2> HIDE DEF st, en
  <2>3. rc \in R /\ rc.len = recs[Current].len /\ rc.start = st /\ rc.end = en
    BY <2>1, <1>2b
  <2> HIDE DEF rc, R
  <2>4. /\ recs' \in Seq(R) /\ Len(recs') = Len(recs)
        /\ \A r \in 1..Len(recs) : recs'[r] = IF r = Current THEN rc ELSE recs[r]
    BY <2>2, <2>3, <1>1, <1>2
  <2> QED BY <2>3, <2>4, <1>1 DEF st, en
<1>11. /\ left' = IF k < n \/ End THEN NULL ELSE left - FragmentLength
       /\ block_offset' = At + n
  BY DEF EmitPhysicalRecord
<1>12. left' \in 0..MaxLen \cup {NULL} /\ block_offset' \in 0..kBlockSize
  BY <1>1, <1>2a, <1>11
<1>13. Emitted(z, k)
  BY <1>3, <1>6, <1>7, <1>10, <1>11 DEF Emitted
<1> QED BY <1>6, <1>7, <1>10, <1>12, <1>13

LEMMA EmitPhysOK ==
    ASSUME FileInv, left # NULL, NEW z \in Nat, NEW k \in 0..(kHeaderSize + FragmentLength),
           Emitted(z, k)
    PROVE  PhysOK'
<1> DEFINE l == Len(phys)
<1>0. TypeOK /\ WriterOK /\ PhysOK
  BY DEF FileInv
<1>1. /\ left \in Nat /\ Current \in 1..Len(recs) /\ l \in Nat /\ Len(recs) \in Nat
      /\ FragmentLength \in Nat
  BY <1>0, FragmentFits, Types
<1>2. /\ Len(phys') = l + 1 /\ Len(recs') = Len(recs)
      /\ \A i \in 1..l : phys'[i] = phys[i]
      /\ \A r \in 1..Len(recs) : recs'[r].len = recs[r].len
  BY DEF Emitted
<1>3. ASSUME NEW i \in 1..l
      PROVE  /\ phys[i].rec \in Nat /\ phys[i].len \in Nat /\ phys[i].from \in Nat
             /\ phys[i].rec \in 1..Len(recs) /\ phys[i].rec <= Current
  <2>1. i \in 1..Len(phys) /\ Current = Len(recs)
    BY DEF Current
  <2>2. phys[i].rec \in 1..Len(recs)
    BY <1>0 DEF PhysOK
  <2> QED BY ONLY SMTT(40), <2>1, <2>2, <1>0, <1>1, Types
<1>4. ASSUME NEW i \in 1..l
      PROVE  /\ phys[i].type \in Begins => phys[i].from = 0
             /\ phys[i].type \in Ends => phys[i].from + phys[i].len = recs[phys[i].rec].len
             /\ phys[i].type \in Continues =>
                  /\ i > 1 /\ phys[i - 1].type \in Open /\ phys[i - 1].rec = phys[i].rec
                  /\ phys[i - 1].from + phys[i - 1].len = phys[i].from
             /\ \A m \in 1..(i - 1) :
                  /\ phys[m].rec <= phys[i].rec
                  /\ phys[m].rec = phys[i].rec => phys[m].type \in Open /\ phys[i].type \in Continues
  BY <1>0 DEF PhysOK
<1>5. ASSUME NEW i \in 1..l
      PROVE  /\ phys'[i].rec \in 1..Len(recs')
             /\ phys'[i].type \in Begins => phys'[i].from = 0
             /\ phys'[i].type \in Ends => phys'[i].from + phys'[i].len = recs'[phys'[i].rec].len
             /\ phys'[i].type \in Continues =>
                  /\ i > 1 /\ phys'[i - 1].type \in Open /\ phys'[i - 1].rec = phys'[i].rec
                  /\ phys'[i - 1].from + phys'[i - 1].len = phys'[i].from
             /\ \A m \in 1..(i - 1) :
                  /\ phys'[m].rec <= phys'[i].rec
                  /\ phys'[m].rec = phys'[i].rec => phys'[m].type \in Open /\ phys'[i].type \in Continues
  <2>1. phys'[i] = phys[i] /\ (i > 1 => phys'[i - 1] = phys[i - 1])
        /\ \A m \in 1..(i - 1) : phys'[m] = phys[m]
    BY SMTT(40), <1>1, <1>2
  <2>2. recs'[phys[i].rec].len = recs[phys[i].rec].len
    BY <1>2, <1>3
  <2>3. phys'[i].rec \in 1..Len(recs')
    BY ONLY <2>1, <1>2, <1>3, i \in 1..l
  <2>4. /\ phys'[i].type \in Begins => phys'[i].from = 0
        /\ phys'[i].type \in Ends => phys'[i].from + phys'[i].len = recs'[phys'[i].rec].len
    BY ONLY <2>1, <2>2, <1>4, i \in 1..l
  <2>5. phys'[i].type \in Continues =>
           /\ i > 1 /\ phys'[i - 1].type \in Open /\ phys'[i - 1].rec = phys'[i].rec
           /\ phys'[i - 1].from + phys'[i - 1].len = phys'[i].from
    BY ONLY <2>1, <1>4, i \in 1..l
  <2>6. ASSUME NEW m \in 1..(i - 1)
        PROVE  /\ phys'[m].rec <= phys'[i].rec
               /\ phys'[m].rec = phys'[i].rec => phys'[m].type \in Open /\ phys'[i].type \in Continues
    BY ONLY <2>1, <1>4, i \in 1..l, m \in 1..(i - 1)
  <2> QED BY ONLY <2>3, <2>4, <2>5, <2>6
<1>6. /\ phys'[l + 1].rec = Current /\ phys'[l + 1].len = FragmentLength
      /\ phys'[l + 1].from = recs[Current].len - left
      /\ phys'[l + 1].type \in Begins <=> Begin
      /\ phys'[l + 1].type \in Continues <=> ~Begin
      /\ phys'[l + 1].type \in Ends <=> End
  BY DEF Emitted
<1>7. /\ left <= recs[Current].len /\ recs[Current].len \in Nat
  BY <1>0, <1>1, Types DEF WriterOK
<1>8. Begin => left = recs[Current].len /\ \A i \in 1..l : phys[i].rec # Current
  BY DEF Begin
<1>9. ~Begin => /\ l > 0 /\ phys[l].rec = Current /\ phys[l].type \in Open
                /\ phys[l].from + phys[l].len = recs[Current].len - left
  BY <1>0 DEF Begin, WriterOK
<1>10. ASSUME NEW m \in 1..l, phys[m].rec = Current
       PROVE  phys[m].type \in Open /\ ~Begin
  <2>1. ~Begin
    BY <1>8, <1>10
  <2>2. CASE m = l
    BY <2>1, <2>2, <1>9
  <2>3. CASE m # l
    <3>1. l \in 1..l /\ m \in 1..(l - 1)
      BY <2>3, <1>1
    <3> QED BY <3>1, <2>1, <1>9, <1>10, <1>4
  <2> QED BY <2>1, <2>2, <2>3
<1>11. /\ phys'[l + 1].rec \in 1..Len(recs')
       /\ phys'[l + 1].type \in Begins => phys'[l + 1].from = 0
       /\ phys'[l + 1].type \in Ends =>
             phys'[l + 1].from + phys'[l + 1].len = recs'[phys'[l + 1].rec].len
  BY <1>1, <1>2, <1>6, <1>7, <1>8 DEF End
<1>12. phys'[l + 1].type \in Continues =>
          /\ l + 1 > 1 /\ phys'[l + 1 - 1].type \in Open /\ phys'[l + 1 - 1].rec = phys'[l + 1].rec
          /\ phys'[l + 1 - 1].from + phys'[l + 1 - 1].len = phys'[l + 1].from
  BY <1>1, <1>2, <1>6, <1>9
<1>13. \A m \in 1..(l + 1 - 1) :
          /\ phys'[m].rec <= phys'[l + 1].rec
          /\ phys'[m].rec = phys'[l + 1].rec =>
                phys'[m].type \in Open /\ phys'[l + 1].type \in Continues
  BY <1>1, <1>2, <1>3, <1>6, <1>10
<1> HIDE DEF l
<1>14. ASSUME NEW i \in 1..(l + 1) PROVE i \in 1..l \/ i = l + 1
  BY <1>1
<1>15. SUFFICES ASSUME NEW i \in 1..(l + 1)
                PROVE  /\ phys'[i].rec \in 1..Len(recs')
                       /\ phys'[i].type \in Begins => phys'[i].from = 0
                       /\ phys'[i].type \in Ends =>
                             phys'[i].from + phys'[i].len = recs'[phys'[i].rec].len
                       /\ phys'[i].type \in Continues =>
                            /\ i > 1 /\ phys'[i - 1].type \in Open /\ phys'[i - 1].rec = phys'[i].rec
                            /\ phys'[i - 1].from + phys'[i - 1].len = phys'[i].from
                       /\ \A m \in 1..(i - 1) :
                            /\ phys'[m].rec <= phys'[i].rec
                            /\ phys'[m].rec = phys'[i].rec =>
                                  phys'[m].type \in Open /\ phys'[i].type \in Continues
  BY <1>2 DEF PhysOK, Begins, Ends, Continues, Open
<1>16. CASE i \in 1..l
  BY ONLY <1>5, <1>16
<1>17. CASE i = l + 1
  <2>1. /\ phys'[i].rec \in 1..Len(recs')
        /\ phys'[i].type \in Begins => phys'[i].from = 0
        /\ phys'[i].type \in Ends => phys'[i].from + phys'[i].len = recs'[phys'[i].rec].len
    BY ONLY <1>11, <1>17
  <2>2. phys'[i].type \in Continues =>
           /\ i > 1 /\ phys'[i - 1].type \in Open /\ phys'[i - 1].rec = phys'[i].rec
           /\ phys'[i - 1].from + phys'[i - 1].len = phys'[i].from
    BY ONLY <1>1, <1>12, <1>17
  <2>3. \A m \in 1..(i - 1) :
           /\ phys'[m].rec <= phys'[i].rec
           /\ phys'[m].rec = phys'[i].rec => phys'[m].type \in Open /\ phys'[i].type \in Continues
    BY ONLY <1>1, <1>13, <1>17
  <2> QED BY ONLY <2>1, <2>2, <2>3
<1> QED BY <1>14, <1>16, <1>17

(* A byte of the longer file. *)
LEMMA EmittedByte ==
    ASSUME FileInv, left # NULL, NEW z \in Nat, NEW k \in 0..(kHeaderSize + FragmentLength),
           Emitted(z, k), NEW x \in 1..Len(file')
    PROVE  /\ x \in Nat /\ Len(file') \in Nat
           /\ \/ x \in 1..Len(file) /\ file'[x] = file[x]
              \/ x > Len(file) /\ file'[x] = Zero
              \/ /\ x > Len(file) + z /\ file'[x][1] = Len(phys) + 1
                 /\ file'[x][2] = x - (Len(file) + z) /\ x - (Len(file) + z) \in 1..k
                 /\ \A p \in 1..file'[x][2] : /\ x - file'[x][2] + p \in 1..Len(file')
                                            /\ file'[x - file'[x][2] + p] = <<Len(phys) + 1, p>>
<1>0. TypeOK /\ WriterOK
  BY DEF FileInv
<1>1. Len(file) \in Nat /\ FragmentLength \in Nat /\ k \in Nat
  BY <1>0, Types, FragmentFits
<1> DEFINE b == Len(file) + z
<1>2. /\ Len(file') = Len(file) + z + k
      /\ \A y \in 1..Len(file) : file'[y] = file[y]
      /\ \A y \in 1..Len(file') : Len(file) < y /\ y <= Len(file) + z => file'[y] = Zero
      /\ \A y \in 1..Len(file') : Len(file) + z < y => file'[y] = <<Len(phys) + 1, y - (Len(file) + z)>>
  BY DEF Emitted
<1>3. x \in Nat /\ Len(file') \in Nat /\ b \in Nat
  BY <1>1, <1>2
<1>4. CASE x <= b
  BY <1>1, <1>2, <1>3, <1>4
<1>5. CASE x > b
  <2>1. file'[x] = <<Len(phys) + 1, x - b>> /\ x - b \in 1..k
    BY <1>1, <1>2, <1>3, <1>5
  <2>2. ASSUME NEW p \in 1..(x - b)
        PROVE  x - (x - b) + p \in 1..Len(file') /\ file'[x - (x - b) + p] = <<Len(phys) + 1, p>>
    <3>1. x - (x - b) + p = b + p /\ b + p \in 1..Len(file') /\ b < b + p /\ (b + p) - b = p
      BY <1>1, <1>2, <1>3, <1>5
    <3>2. file'[b + p] = <<Len(phys) + 1, (b + p) - b>>
      BY ONLY <3>1, <1>2
    <3> QED BY ONLY <3>1, <3>2
  <2>3. file'[x][1] = Len(phys) + 1 /\ file'[x][2] = x - b
    BY ONLY <2>1
  <2> QED BY ONLY <2>1, <2>2, <2>3, <1>3, <1>5
<1> QED BY SMTT(40), <1>3, <1>4, <1>5

LEMMA EmitBytesOK ==
    ASSUME FileInv, left # NULL, NEW z \in Nat, NEW k \in 0..(kHeaderSize + FragmentLength),
           Emitted(z, k), DOMAIN file' = 1..Len(file')
    PROVE  BytesOK' /\ OrderOK' /\ ContinuedOK'
<1>0. TypeOK /\ WriterOK /\ BytesOK /\ OrderOK /\ ContinuedOK /\ PhysOK
  BY DEF FileInv
<1> DEFINE l == Len(phys)
           b == Len(file) + z
<1>1. /\ Len(file) \in Nat /\ l \in Nat /\ FragmentLength \in Nat /\ k \in Nat /\ b \in Nat
      /\ DOMAIN file = 1..Len(file)
  BY <1>0, Types, FragmentFits
<1>2. /\ Len(phys') = l + 1 /\ \A i \in 1..l : phys'[i] = phys[i]
      /\ phys'[l + 1].len = FragmentLength
      /\ Len(file') = b + k
      /\ \A x \in 1..Len(file) : file'[x] = file[x]
  BY DEF Emitted
<1>5. \A x \in 1..Len(file) : file[x] = Zero \/ file[x][1] \in 1..l
  BY <1>0, <1>1 DEF BytesOK
<1>6. \A x \in 1..Len(file) : file[x][1] \in Nat /\ file[x][2] \in Nat
  BY <1>0, Types
<1>7. Zero[1] = 0
  BY DEF Zero
<1>8. ASSUME NEW x \in 1..Len(file')
      PROVE  \/ file'[x] = Zero
             \/ /\ file'[x][1] \in 1..(l + 1) /\ file'[x][2] \in 1..(kHeaderSize + phys'[file'[x][1]].len)
                /\ \A p \in 1..file'[x][2] :
                      x - file'[x][2] + p \in 1..Len(file') /\ file'[x - file'[x][2] + p] = <<file'[x][1], p>>
  <2>1. CASE x \in 1..Len(file) /\ file'[x] = file[x] /\ file[x] # Zero
    <3>1. /\ file[x][1] \in 1..l /\ file[x][2] \in 1..Size(file[x][1])
          /\ \A p \in 1..file[x][2] :
                x - file[x][2] + p \in 1..Len(file) /\ file[x - file[x][2] + p] = <<file[x][1], p>>
      BY <1>0, <1>1, <2>1 DEF BytesOK
    <3>2. Size(file[x][1]) = kHeaderSize + phys'[file[x][1]].len
      BY <1>2, <3>1 DEF Size
    <3>3. 1..l \subseteq 1..(l + 1) /\ 1..Len(file) \subseteq 1..Len(file')
      BY SMTT(40), <1>1, <1>2
    <3>4. \A p \in 1..file[x][2] : file'[x - file[x][2] + p] = <<file[x][1], p>>
      BY <1>2, <3>1
    <3> QED BY ONLY <2>1, <3>1, <3>2, <3>3, <3>4
  <2>2. CASE /\ file'[x][1] = l + 1 /\ file'[x][2] = x - b /\ x - b \in 1..k
             /\ \A p \in 1..file'[x][2] : /\ x - file'[x][2] + p \in 1..Len(file')
                                         /\ file'[x - file'[x][2] + p] = <<l + 1, p>>
    <3>1. x - b <= kHeaderSize + FragmentLength /\ l + 1 \in 1..(l + 1) /\ x - b \in Nat /\ x - b >= 1
      BY <1>1, <2>2
    <3>2. phys'[file'[x][1]].len = FragmentLength
      BY <1>2, <2>2
    <3>3. file'[x][2] \in 1..(kHeaderSize + FragmentLength)
      BY <1>1, <2>2, <3>1
    <3> QED BY ONLY <3>1, <3>2, <3>3, <2>2
  <2> QED BY <2>1, <2>2, EmittedByte
<1>9. BytesOK'
  BY ONLY <1>8, <1>2, DOMAIN file' = 1..Len(file') DEF BytesOK, Size, Zero
<1>10. ASSUME NEW x \in 1..Len(file'), NEW y \in 1..Len(file'), x < y, file'[x][1] > 0, file'[y][1] > 0
       PROVE  /\ file'[x][1] <= file'[y][1]
              /\ file'[x][1] = file'[y][1] => y - x = file'[y][2] - file'[x][2]
  <2>0. x \in Nat /\ y \in Nat /\ file'[x] # Zero /\ file'[y] # Zero
    BY <1>7, <1>10, EmittedByte
  <2>1. CASE y \in 1..Len(file)
    <3>1. x \in 1..Len(file)
      BY <1>1, <1>10, <2>0, <2>1
    <3> QED BY <3>1, <2>1, <1>0, <1>1, <1>2, <1>10 DEF OrderOK
  <2>2. CASE y \notin 1..Len(file)
    <3>1. file'[y][1] = l + 1 /\ file'[y][2] = y - b
      BY <2>0, <2>2, EmittedByte
    <3>2. CASE x \in 1..Len(file)
      BY <3>1, <3>2, <2>0, <1>1, <1>2, <1>5
    <3>3. CASE x \notin 1..Len(file)
      <4>1. file'[x][1] = l + 1 /\ file'[x][2] = x - b
        BY <2>0, <3>3, EmittedByte
      <4> QED BY ONLY <3>1, <4>1, <1>1, <2>0
    <3> QED BY <3>2, <3>3
  <2> QED BY <2>1, <2>2
<1>11. OrderOK'
  BY ONLY <1>10, DOMAIN file' = 1..Len(file') DEF OrderOK
<1>12. ASSUME NEW y \in 1..Len(file'), file'[y][1] > 0, phys'[file'[y][1]].type \in Continues
       PROVE  \E x \in 1..Len(file') :
                 x < y /\ file'[x] = <<file'[y][1] - 1, kHeaderSize + phys'[file'[y][1] - 1].len>>
  <2>0. file'[y] # Zero
    BY <1>7, <1>12
  <2>1. CASE y \in 1..Len(file) /\ file'[y] = file[y]
    <3>1. /\ file[y][1] \in 1..l /\ phys[file[y][1]].type \in Continues /\ file[y][1] > 0
          /\ y \in DOMAIN file
      BY <2>0, <2>1, <1>1, <1>2, <1>5, <1>12
    <3>2. PICK x \in 1..Len(file) : x < y /\ file[x] = <<file[y][1] - 1, Size(file[y][1] - 1)>>
      BY ONLY <3>1, <1>0, <1>1 DEF ContinuedOK
    <3>3. file[y][1] - 1 \in 1..l
      BY <3>1, <1>0, PhysAt
    <3>4. Size(file[y][1] - 1) = kHeaderSize + phys'[file[y][1] - 1].len
      BY <3>3, <1>2 DEF Size
    <3>5. x \in 1..Len(file') /\ file'[x] = file[x]
      BY <1>1, <1>2
    <3> QED BY ONLY <3>2, <3>4, <3>5, <2>1
  <2>2. CASE y > b /\ file'[y][1] = l + 1
    <3>1. ~Begin
      BY <2>2, <1>12 DEF Emitted
    <3>2. l > 0 /\ Len(file) > 0 /\ file[Len(file)] = <<l, Size(l)>>
      BY <3>1, <1>0 DEF Begin, WriterOK
    <3>3. /\ Len(file) \in 1..Len(file) /\ Len(file) \in 1..Len(file') /\ Len(file) < y
          /\ l \in 1..l /\ file'[y][1] - 1 = l
      BY <3>2, <1>1, <1>2, <2>2
    <3>4. file'[Len(file)] = <<l, kHeaderSize + phys'[l].len>>
      BY <3>2, <3>3, <1>2 DEF Size
    <3> QED BY ONLY <3>3, <3>4
  <2> QED BY <2>0, <2>1, <2>2, EmittedByte
<1>13. ContinuedOK'
  BY ONLY <1>12, DOMAIN file' = 1..Len(file') DEF ContinuedOK, Size, Continues
<1> QED BY <1>9, <1>11, <1>13

LEMMA EmitWriterOK ==
    ASSUME FileInv, left # NULL, NEW z \in Nat, NEW k \in 0..(kHeaderSize + FragmentLength),
           Emitted(z, k), pc' = "write"
    PROVE  WriterOK'
<1>0. TypeOK /\ WriterOK
  BY DEF FileInv
<1> DEFINE l == Len(phys)
           n == kHeaderSize + FragmentLength
<1>1. /\ Len(file) \in Nat /\ l \in Nat /\ FragmentLength \in Nat /\ k \in Nat /\ left \in Nat
      /\ Current \in 1..Len(recs) /\ FragmentLength <= left /\ n \in Nat /\ n >= 1
      /\ recs[Current].len \in Nat /\ k <= n /\ Len(recs) \in Nat
  <2>1. /\ left \in Nat /\ Current \in 1..Len(recs) /\ FragmentLength \in Nat /\ FragmentLength <= left
    BY <1>0, FragmentFits
  <2>2. /\ Len(file) \in Nat /\ l \in Nat /\ Len(recs) \in Nat
        /\ \A r \in 1..Len(recs) : recs[r].len \in Nat
    BY <1>0, Types
  <2> QED BY <2>1, <2>2
<1>2. /\ Len(phys') = l + 1 /\ phys'[l + 1].rec = Current /\ phys'[l + 1].len = FragmentLength
      /\ phys'[l + 1].from = recs[Current].len - left
      /\ phys'[l + 1].type \in Open <=> ~End
      /\ left' = IF k < kHeaderSize + FragmentLength \/ End THEN NULL ELSE left - FragmentLength
      /\ Len(recs') = Len(recs) /\ \A r \in 1..Len(recs) : recs'[r].len = recs[r].len
      /\ Len(file') = Len(file) + z + k
  BY DEF Emitted
<1>3. Current' = Current
  BY <1>2 DEF Current
<1>4. /\ Len(recs) <= MaxRecords /\ left <= recs[Current].len
  BY <1>0 DEF WriterOK
<1>5. ASSUME left' # NULL
      PROVE  /\ Current >= 1 /\ left' <= recs'[Current].len
             /\ Len(phys') > 0 /\ phys'[Len(phys')].rec = Current
             /\ phys'[Len(phys')].type \in Open
             /\ phys'[Len(phys')].from + phys'[Len(phys')].len = recs'[Current].len - left'
             /\ Len(file') > 0
             /\ file'[Len(file')] = <<Len(phys'), kHeaderSize + phys'[Len(phys')].len>>
  <2>1. k = n /\ ~End /\ left' = left - FragmentLength
    BY <1>1, <1>2, <1>5
  <2>2. recs'[Current].len = recs[Current].len
    BY <1>1, <1>2
  <2>3. Len(file') \in 1..Len(file') /\ Len(file') > Len(file) + z /\ Len(file') - (Len(file) + z) = n
    BY <1>1, <1>2, <2>1
  <2>4. file'[Len(file')] = <<l + 1, Len(file') - (Len(file) + z)>>
    BY <2>3 DEF Emitted
  <2>5. /\ Current >= 1 /\ left' <= recs'[Current].len /\ Len(file') > 0 /\ Len(phys') > 0
        /\ recs[Current].len - left + FragmentLength = recs[Current].len - left'
    <3> DEFINE m == recs[Current].len
    <3>1. /\ m \in Nat /\ left \in Nat /\ FragmentLength \in Nat /\ left' = left - FragmentLength
          /\ FragmentLength <= left /\ left <= m
      BY <2>1, <1>1, <1>4
    <3> HIDE DEF m
    <3>2. left' <= m /\ m - left + FragmentLength = m - left'
      BY ONLY <3>1
    <3>3. Len(file') > 0 /\ Len(phys') > 0 /\ Current >= 1
      <4>1. /\ Len(file) \in Nat /\ z \in Nat /\ k \in Nat /\ k >= 1 /\ Len(file') = Len(file) + z + k
            /\ l \in Nat /\ Len(phys') = l + 1 /\ Current \in 1..Len(recs)
        BY <2>1, <1>1, <1>2
      <4> HIDE DEF l
      <4> QED BY ONLY <4>1
    <3> QED BY ONLY <3>2, <3>3, <2>2 DEF m
  <2> QED BY ONLY <2>1, <2>2, <2>3, <2>4, <2>5, <1>2
<1> QED BY <1>2, <1>3, <1>4, <1>5 DEF WriterOK, Size, Open

LEMMA EmitRecsOK ==
    ASSUME FileInv, left # NULL, NEW z \in Nat, NEW k \in 0..(kHeaderSize + FragmentLength),
           Emitted(z, k), DOMAIN file' = 1..Len(file'), DOMAIN recs' = 1..Len(recs')
    PROVE  RecsOK'
<1>0. TypeOK /\ WriterOK /\ BytesOK /\ PhysOK /\ RecsOK
  BY DEF FileInv
<1> DEFINE l == Len(phys)
           n == kHeaderSize + FragmentLength
           b == Len(file) + z
<1>1. /\ Len(file) \in Nat /\ l \in Nat /\ FragmentLength \in Nat /\ k \in Nat /\ b \in Nat
      /\ n \in Nat /\ n >= 1 /\ k <= n
      /\ DOMAIN file = 1..Len(file) /\ DOMAIN recs = 1..Len(recs) /\ Current \in 1..Len(recs)
  <2>1. Current \in 1..Len(recs) /\ FragmentLength \in Nat
    BY <1>0, FragmentFits
  <2>2. /\ Len(file) \in Nat /\ l \in Nat
        /\ DOMAIN file = 1..Len(file) /\ DOMAIN recs = 1..Len(recs)
    BY <1>0, Types
  <2> QED BY <2>1, <2>2
<1>2. /\ Len(phys') = l + 1 /\ \A i \in 1..l : phys'[i] = phys[i]
      /\ phys'[l + 1].rec = Current /\ phys'[l + 1].len = FragmentLength
      /\ phys'[l + 1].type \in Begins <=> Begin
      /\ phys'[l + 1].type \in Ends <=> End
      /\ Len(file') = b + k
      /\ \A x \in 1..Len(file) : file'[x] = file[x]
      /\ Len(recs') = Len(recs)
      /\ \A r \in 1..Len(recs) :
            /\ recs'[r].start = IF r = Current /\ Begin THEN b ELSE recs[r].start
            /\ recs'[r].end = IF r = Current /\ End /\ k = n THEN b + k ELSE recs[r].end
  BY DEF Emitted
<1>2a. 1..Len(file) \subseteq 1..Len(file')
  <2>1. Len(file') = Len(file) + z + k
    BY DEF Emitted
  <2> QED BY ONLY <2>1, <1>1, z \in Nat
<1>2b. ~Begin => /\ l \in 1..l /\ Len(file) \in 1..Len(file)
                 /\ file[Len(file)] = <<l, Size(l)>> /\ phys[l].rec = Current
  <2>1. ~Begin => /\ l > 0 /\ Len(file) > 0
                  /\ file[Len(file)] = <<l, Size(l)>> /\ phys[l].rec = Current
    BY <1>0 DEF Begin, WriterOK
  <2>2. l \in Nat /\ Len(file) \in Nat
    BY <1>1
  <2>3. (l > 0 => l \in 1..l) /\ (Len(file) > 0 => Len(file) \in 1..Len(file))
    BY ONLY <2>2
  <2> QED BY ONLY <2>1, <2>3
<1>3. \A x \in 1..Len(file) : file[x] = Zero \/ file[x][1] \in 1..l
  BY <1>0, <1>1 DEF BytesOK
<1>4. Zero[1] = 0
  BY DEF Zero
\* Every fragment of the record that is being written is an open one.
<1>5. ASSUME NEW i \in 1..l, phys[i].rec = Current
      PROVE  phys[i].type \in Open /\ phys[i].type \notin Ends /\ ~Begin
  <2>1. ~Begin
    BY <1>5 DEF Begin
  <2>2a. l > 0 /\ phys[l].rec = Current /\ phys[l].type \in Open
    BY <2>1, <1>0 DEF Begin, WriterOK
  <2>2. l \in 1..l /\ phys[l].rec = Current /\ phys[l].type \in Open
    BY ONLY <2>2a, <1>1
  <2>3. CASE i = l
    BY <2>1, <2>2, <2>3, <1>0, Types
  <2>4. CASE i # l
    <3>1. i < l
      BY <2>4, <1>1
    <3> QED BY <3>1, <2>1, <2>2, <1>0, <1>5, PhysOrder, Types
  <2> QED BY <2>3, <2>4
<1>6. ASSUME NEW x \in 1..Len(file), file[x][1] > 0
      PROVE  LET j == file[x][1]
                 r == phys[j].rec
             IN  /\ j \in 1..l /\ r \in 1..Len(recs) /\ recs[r].start < x
                 /\ recs[r].start + 1 \in 1..Len(file) /\ file[recs[r].start + 1][2] = 1
                 /\ file[x][2] = 1 /\ phys[j].type \in Begins => recs[r].start = x - 1
                 /\ file[x][2] = kHeaderSize + phys[j].len /\ phys[j].type \in Ends => recs[r].end = x
  <2>1. file[x][1] \in 1..l
    BY <1>3, <1>4, <1>6
  <2>2. phys[file[x][1]].rec \in 1..Len(recs)
    BY <2>1, <1>0, PhysAt
  <2> QED BY <2>1, <2>2, <1>0, <1>1, <1>6 DEF RecsOK, Size
<1>7. ASSUME NEW x \in 1..Len(file'), file'[x][1] > 0
      PROVE  LET j == file'[x][1]
                 r == phys'[j].rec
             IN  /\ recs'[r].start < x
                 /\ recs'[r].start + 1 \in 1..Len(file') /\ file'[recs'[r].start + 1][2] = 1
                 /\ file'[x][2] = 1 /\ phys'[j].type \in Begins => recs'[r].start = x - 1
                 /\ file'[x][2] = kHeaderSize + phys'[j].len /\ phys'[j].type \in Ends => recs'[r].end = x
  <2>0. file'[x] # Zero
    BY <1>4, <1>7
  <2>1. CASE x \in 1..Len(file) /\ file'[x] = file[x]
    <3> DEFINE j == file[x][1]
               r == phys[j].rec
    <3>1. /\ j \in 1..l /\ r \in 1..Len(recs) /\ recs[r].start < x
          /\ recs[r].start + 1 \in 1..Len(file) /\ file[recs[r].start + 1][2] = 1
          /\ file[x][2] = 1 /\ phys[j].type \in Begins => recs[r].start = x - 1
          /\ file[x][2] = kHeaderSize + phys[j].len /\ phys[j].type \in Ends => recs[r].end = x
      BY <1>6, <1>7, <2>1
    <3> HIDE DEF j, r
    <3>2. phys'[j] = phys[j]
      BY <1>2, <3>1
    <3>3. r = Current => ~Begin /\ phys[j].type \notin Ends
      BY <1>5, <3>1 DEF r
    <3>4. recs'[r].start = recs[r].start /\ (phys[j].type \in Ends => recs'[r].end = recs[r].end)
      BY <1>2, <3>1, <3>3
    <3>5. recs[r].start + 1 \in 1..Len(file') /\ file'[recs[r].start + 1][2] = 1
      BY ONLY <1>2a, <3>1, <1>2
    <3> QED BY <3>1, <3>2, <3>4, <3>5, <2>1 DEF j, r
  <2>2. CASE x > b /\ file'[x][1] = l + 1 /\ file'[x][2] = x - b /\ x - b \in 1..k
    <3>1. recs'[Current].start < x
      <4>1. CASE Begin
        BY <4>1, <2>2, <1>1, <1>2
      <4>2. CASE ~Begin
        <5>1. l \in 1..l /\ Len(file) \in 1..Len(file) /\ file[Len(file)] = <<l, Size(l)>>
              /\ phys[l].rec = Current
          BY ONLY <4>2, <1>2b
        <5>2. recs[Current].start < Len(file)
          <6>1. file[Len(file)][1] = l /\ l > 0
            BY ONLY <5>1, <1>1
          <6> QED BY ONLY <6>1, <5>1, <1>6
        <5>3. recs'[Current].start = recs[Current].start /\ recs[Current].start \in Nat
          BY <4>2, <1>0, <1>1, <1>2, Types
        <5> QED BY ONLY SMTT(40), <5>2, <5>3, <2>2, <1>1, z \in Nat, x \in 1..Len(file'), <1>2
      <4> QED BY <4>1, <4>2
    <3>2. file'[x][2] = 1 /\ Begin => recs'[Current].start = x - 1
      <4>1. Begin => recs'[Current].start = b
        BY <1>1, <1>2
      <4>2. file'[x][2] = 1 => x - 1 = b
        BY ONLY <2>2, <1>1, <1>2, x \in 1..Len(file')
      <4> QED BY ONLY <4>1, <4>2
    <3>3. file'[x][2] = n /\ End => recs'[Current].end = x
      BY SMTT(40), <2>2, <1>1, <1>2
    <3>4. recs'[Current].start + 1 \in 1..Len(file') /\ file'[recs'[Current].start + 1][2] = 1
      <4>1. CASE Begin
        <5>1. recs'[Current].start = b
          BY <4>1, <1>1, <1>2
        <5>2. b + 1 \in 1..Len(file') /\ b < b + 1 /\ b + 1 - b = 1
          BY <2>2, <1>1, <1>2
        <5>3. file'[b + 1] = <<l + 1, b + 1 - b>>
          BY <5>2 DEF Emitted
        <5> QED BY ONLY <5>1, <5>2, <5>3
      <4>2. CASE ~Begin
        <5>1. l \in 1..l /\ Len(file) \in 1..Len(file) /\ file[Len(file)] = <<l, Size(l)>>
              /\ phys[l].rec = Current
          BY ONLY <4>2, <1>2b
        <5>2. recs[Current].start + 1 \in 1..Len(file) /\ file[recs[Current].start + 1][2] = 1
          <6>1. file[Len(file)][1] = l /\ l > 0
            BY ONLY <5>1, <1>1
          <6> QED BY ONLY <6>1, <5>1, <1>6
        <5>3. recs'[Current].start = recs[Current].start
          BY <4>2, <1>1, <1>2
        <5> QED BY ONLY <5>2, <5>3, <1>2a, <1>2
      <4> QED BY <4>1, <4>2
    <3> QED BY ONLY <3>1, <3>2, <3>3, <3>4, <2>2, <1>2
  <2> QED BY <2>0, <2>1, <2>2, EmittedByte
<1>8. ASSUME NEW r \in 1..Len(recs'), recs'[r].end > 0
      PROVE  LET x == recs'[r].end
             IN  /\ x \in 1..Len(file') /\ file'[x][1] > 0
                 /\ file'[x] = <<file'[x][1], kHeaderSize + phys'[file'[x][1]].len>>
                 /\ phys'[file'[x][1]].rec = r /\ phys'[file'[x][1]].type \in Ends
  <2>0. r \in 1..Len(recs) /\ recs[r].end \in Nat
    BY <1>0, <1>2, Types
  <2>1. CASE r = Current /\ End /\ k = n
    <3>1. recs'[r].end = b + k /\ b + k \in 1..Len(file') /\ b + k > b /\ (b + k) - b = n
      BY <2>0, <2>1, <1>1, <1>2
    <3>2. file'[b + k] = <<l + 1, n>>
      BY <3>1 DEF Emitted
    <3>3. file'[b + k][1] = l + 1 /\ l + 1 > 0
      BY <3>2, <1>1
    <3> QED BY ONLY <3>1, <3>2, <3>3, <2>1, <1>2
  <2>2. CASE ~(r = Current /\ End /\ k = n)
    <3> DEFINE x == recs[r].end
    <3>1. recs'[r].end = x /\ x > 0
      BY <2>0, <2>2, <1>2, <1>8
    <3>2. /\ x \in 1..Len(file) /\ file[x][1] > 0
          /\ file[x] = <<file[x][1], kHeaderSize + phys[file[x][1]].len>>
          /\ phys[file[x][1]].rec = r /\ phys[file[x][1]].type \in Ends
      BY <2>0, <3>1, <1>0, <1>1 DEF RecsOK, Size
    <3> HIDE DEF x
    <3>3. file[x][1] \in 1..l
      BY <1>6, <3>2
    <3>4. /\ x \in 1..Len(file') /\ file'[x] = file[x] /\ phys'[file[x][1]] = phys[file[x][1]]
      BY ONLY <1>2a, <3>2, <3>3, <1>2
    <3> QED BY ONLY <3>1, <3>2, <3>4
  <2> QED BY <2>1, <2>2
<1> QED
  BY ONLY <1>7, <1>8, DOMAIN file' = 1..Len(file'), DOMAIN recs' = 1..Len(recs') DEF RecsOK, Size

(* TypeOK in two halves. *)
WriterTypes ==
    /\ file \in Seq(Nat \X Nat)
    /\ phys \in Seq([type : {"kFullType", "kFirstType", "kMiddleType", "kLastType"},
                     rec : 1..MaxRecords, len : 0..kBlockSize, from : 0..MaxLen])
    /\ recs \in Seq([len : 0..MaxLen, start : Nat, end : Nat])
    /\ left \in 0..MaxLen \cup {NULL} /\ block_offset \in 0..kBlockSize
    /\ reused \in BOOLEAN /\ tears \in 0..MaxTears

ReaderTypes ==
    /\ pc \in {"write", "cut", "call", "read", "done"} /\ fails \in 0..MaxFail
    /\ initial_offset \in InitialOffsets \cup {0} /\ last_record_offset \in Nat
    /\ buffer \in Seq(Nat \X Nat) /\ end_of_buffer_offset \in Nat /\ eof \in BOOLEAN
    /\ resyncing \in BOOLEAN /\ in_fragmented_record \in BOOLEAN /\ prospective \in Nat
    /\ scratch \in Seq(Nat \X Nat) /\ out \in Seq(Seq(Nat \X Nat)) /\ reported \in BOOLEAN

LEMMA TypeHalves == TypeOK <=> WriterTypes /\ ReaderTypes
BY DEF TypeOK, WriterTypes, ReaderTypes

LEMMA TypeHalvesNext == TypeOK' <=> WriterTypes' /\ ReaderTypes'
BY DEF TypeOK, WriterTypes, ReaderTypes

LEMMA EmitStep ==
    ASSUME FileInv, pc = "write", left # NULL, NEW z \in Nat,
           NEW k \in 0..(kHeaderSize + FragmentLength), EmitPhysicalRecord(z, k),
           UNCHANGED <<reused, tears, rvars, pc>>, fails' \in 0..MaxFail
    PROVE  FileInv'
<1>0. TypeOK /\ WriterOK
  BY DEF FileInv
<1>1. Emitted(z, k)
  BY <1>0, EmitEffect
<1>2. WriterTypes'
  BY <1>0, EmitEffect, TypeHalves DEF WriterTypes
<1>3. ReaderTypes'
  BY <1>0, TypeHalves DEF ReaderTypes, rvars
<1>4. TypeOK'
  BY <1>2, <1>3, TypeHalvesNext
<1>5. DOMAIN file' = 1..Len(file') /\ DOMAIN recs' = 1..Len(recs')
  <2>1. file' \in Seq(Nat \X Nat)
    BY <1>2 DEF WriterTypes
  <2>2. recs' \in Seq([len : 0..MaxLen, start : Nat, end : Nat])
    BY <1>2 DEF WriterTypes
  <2>3. DOMAIN file' = 1..Len(file')
    BY ONLY <2>1
  <2>4. DOMAIN recs' = 1..Len(recs')
    BY ONLY <2>2
  <2> QED BY <2>3, <2>4
<1>6. PhysOK'
  BY <1>1, EmitPhysOK
<1>7. BytesOK' /\ OrderOK' /\ ContinuedOK'
  BY <1>1, <1>5, EmitBytesOK
<1>8. WriterOK'
  BY <1>1, EmitWriterOK
<1>9. RecsOK'
  BY <1>1, <1>5, EmitRecsOK
<1> QED BY <1>4, <1>6, <1>7, <1>8, <1>9 DEF FileInv

LEMMA AddRecordStep ==
    ASSUME FileInv, AddRecord
    PROVE  FileInv'
<1>0. TypeOK /\ WriterOK /\ PhysOK /\ BytesOK /\ OrderOK /\ ContinuedOK /\ RecsOK
  BY DEF FileInv
<1>1. PICK len \in 0..MaxLen :
        /\ left' = len /\ recs' = Append(recs, [len |-> len, start |-> 0, end |-> 0])
  BY DEF AddRecord
<1>2. /\ pc = "write" /\ pc' = pc /\ Len(recs) < MaxRecords /\ file' = file /\ phys' = phys
      /\ block_offset' = block_offset /\ reused' = reused /\ tears' = tears /\ fails' = fails
      /\ UNCHANGED rvars
  BY DEF AddRecord
<1> DEFINE R == [len : 0..MaxLen, start : Nat, end : Nat]
           new == [len |-> len, start |-> 0, end |-> 0]
<1>3. recs \in Seq(R)
  BY <1>0, TypeHalves DEF WriterTypes
<1>4. new \in R
  OBVIOUS
<1>5. new.len = len /\ new.start = 0 /\ new.end = 0
  OBVIOUS
<1> HIDE DEF new, R
<1>6. /\ recs' \in Seq(R) /\ Len(recs') = Len(recs) + 1 /\ recs'[Len(recs) + 1] = new
      /\ \A r \in 1..Len(recs) : recs'[r] = recs[r]
      /\ DOMAIN recs' = 1..(Len(recs) + 1)
  BY <1>1, <1>3, <1>4 DEF new
<1>7. WriterTypes'
  BY <1>0, <1>1, <1>2, <1>6, TypeHalves DEF WriterTypes, R
<1>8. ReaderTypes'
  BY <1>0, <1>2, TypeHalves DEF ReaderTypes, rvars
<1>9. TypeOK'
  BY <1>7, <1>8, TypeHalvesNext
<1>10. Len(recs) \in Nat /\ DOMAIN recs = 1..Len(recs) /\ Len(file) \in Nat /\ DOMAIN file = 1..Len(file)
  BY <1>0, Types
<1>11. \A j \in 1..Len(phys) : phys[j].rec \in 1..Len(recs) /\ phys[j].rec # Len(recs) + 1
  BY <1>0, <1>10, PhysAt
<1>12. 1..Len(recs) \subseteq 1..(Len(recs) + 1)
  BY <1>10
<1>13. PhysOK'
  <2> SUFFICES ASSUME NEW j \in 1..Len(phys)
               PROVE  /\ phys[j].rec \in 1..Len(recs')
                      /\ phys[j].type \in Begins => phys[j].from = 0
                      /\ phys[j].type \in Ends => phys[j].from + phys[j].len = recs'[phys[j].rec].len
                      /\ phys[j].type \in Continues =>
                            /\ j > 1 /\ phys[j - 1].type \in Open /\ phys[j - 1].rec = phys[j].rec
                            /\ phys[j - 1].from + phys[j - 1].len = phys[j].from
                      /\ \A i \in 1..(j - 1) :
                            /\ phys[i].rec <= phys[j].rec
                            /\ phys[i].rec = phys[j].rec =>
                                  phys[i].type \in Open /\ phys[j].type \in Continues
    BY SMTT(40), <1>2 DEF PhysOK, Begins, Ends, Continues, Open
  <2>1. phys[j].rec \in 1..Len(recs) /\ recs'[phys[j].rec] = recs[phys[j].rec]
    BY <1>6, <1>11
  <2> QED BY <2>1, <1>0, <1>6, <1>12 DEF PhysOK
<1>14. BytesOK' /\ OrderOK' /\ ContinuedOK'
  BY <1>0, <1>2 DEF BytesOK, OrderOK, ContinuedOK, Size
<1>15. WriterOK'
  <2>1. Current' = Len(recs) + 1 /\ recs'[Current'].len = len /\ left' = len
    BY <1>1, <1>5, <1>6 DEF Current
  <2>2. Current' >= 1 /\ left' <= recs'[Current'].len /\ Len(recs') <= MaxRecords
    BY <2>1, <1>2, <1>6, <1>10
  <2>3. \A j \in 1..Len(phys') : phys'[j].rec # Current'
    BY <2>1, <1>2, <1>11
  <2> QED BY <2>1, <2>2, <2>3, <1>2 DEF WriterOK
<1>16. RecsOK'
  <2>1. ASSUME NEW x \in 1..Len(file), file[x][1] > 0
        PROVE  LET j == file[x][1]
                   r == phys[j].rec
               IN  /\ recs'[r].start < x
                   /\ recs'[r].start + 1 \in DOMAIN file /\ file[recs'[r].start + 1][2] = 1
                   /\ file[x][2] = 1 /\ phys[j].type \in Begins => recs'[r].start = x - 1
                   /\ file[x][2] = Size(j) /\ phys[j].type \in Ends => recs'[r].end = x
    <3>1. file[x][1] \in 1..Len(phys)
      BY <1>0, <1>10, <2>1 DEF BytesOK, Zero
    <3>2. recs'[phys[file[x][1]].rec] = recs[phys[file[x][1]].rec]
      BY <3>1, <1>6, <1>11
    <3>3. LET j == file[x][1]
              r == phys[j].rec
          IN  /\ recs[r].start < x
              /\ recs[r].start + 1 \in DOMAIN file /\ file[recs[r].start + 1][2] = 1
              /\ file[x][2] = 1 /\ phys[j].type \in Begins => recs[r].start = x - 1
              /\ file[x][2] = Size(j) /\ phys[j].type \in Ends => recs[r].end = x
      BY <2>1, <1>0, <1>10 DEF RecsOK
    <3> QED BY ONLY <3>2, <3>3
  <2>2. ASSUME NEW r \in 1..(Len(recs) + 1), recs'[r].end > 0
        PROVE  LET x == recs'[r].end
               IN  /\ x \in 1..Len(file) /\ file[x][1] > 0
                   /\ file[x] = <<file[x][1], Size(file[x][1])>>
                   /\ phys[file[x][1]].rec = r /\ phys[file[x][1]].type \in Ends
    <3>1. r \in 1..Len(recs) /\ recs'[r] = recs[r]
      BY <2>2, <1>5, <1>6, <1>10
    <3> QED BY <3>1, <2>2, <1>0, <1>10 DEF RecsOK
  <2> QED BY ONLY <2>1, <2>2, <1>2, <1>6, <1>10 DEF RecsOK, Size
<1> QED BY <1>9, <1>13, <1>14, <1>15, <1>16 DEF FileInv

LEMMA TearStep ==
    ASSUME FileInv, Tear
    PROVE  FileInv'
<1>0. TypeOK /\ WriterOK /\ PhysOK /\ BytesOK /\ OrderOK /\ ContinuedOK /\ RecsOK
  BY DEF FileInv
<1>1. PICK k \in 0..Len(file) :
        /\ file' = SubSeq(file, 1, k)
        /\ recs' = [r \in DOMAIN recs |->
                      IF recs[r].end > k THEN [recs[r] EXCEPT !.end = 0] ELSE recs[r]]
  BY DEF Tear
<1>2. /\ pc = "write" /\ pc' = "cut" /\ phys' = phys /\ left' = NULL /\ tears < MaxTears
      /\ block_offset' = block_offset /\ reused' = reused /\ tears' = tears + 1 /\ fails' = fails
      /\ UNCHANGED rvars
  BY DEF Tear
<1> DEFINE R == [len : 0..MaxLen, start : Nat, end : Nat]
<1>3. recs \in Seq(R) /\ file \in Seq(Nat \X Nat) /\ tears \in 0..MaxTears
  BY <1>0, TypeHalves DEF WriterTypes
<1>4. Len(recs) \in Nat /\ DOMAIN recs = 1..Len(recs) /\ Len(file) \in Nat /\ DOMAIN file = 1..Len(file)
  BY <1>0, Types
<1>5. /\ file' \in Seq(Nat \X Nat) /\ Len(file') = k /\ DOMAIN file' = 1..k
      /\ \A x \in 1..k : file'[x] = file[x]
  BY ONLY SMTT(40), <1>1, <1>3, <1>4
<1>6. ASSUME NEW r \in 1..Len(recs)
      PROVE  /\ recs'[r] \in R /\ recs'[r].len = recs[r].len /\ recs'[r].start = recs[r].start
             /\ recs'[r].end = IF recs[r].end > k THEN 0 ELSE recs[r].end
  <2>1. recs[r] \in R /\ recs'[r] = IF recs[r].end > k THEN [recs[r] EXCEPT !.end = 0] ELSE recs[r]
    <3> HIDE DEF R
    <3>1. recs[r] \in R
      BY <1>3, ElementOfSeq
    <3> QED BY <3>1, <1>1, <1>4
  <2> QED BY ONLY <2>1
<1> HIDE DEF R
<1>7. recs' \in Seq(R) /\ Len(recs') = Len(recs) /\ DOMAIN recs' = 1..Len(recs)
  <2>1. DOMAIN recs' = 1..Len(recs)
    BY <1>1, <1>4
  <2>2. recs' = [r \in 1..Len(recs) |-> recs'[r]]
    BY <1>1, <1>4
  <2>3. \A r \in 1..Len(recs) : recs'[r] \in R
    BY <1>6
  <2> QED BY ONLY <2>1, <2>2, <2>3, <1>4
<1>8. WriterTypes'
  BY <1>0, <1>2, <1>3, <1>5, <1>7, TypeHalves DEF WriterTypes, R
<1>9. ReaderTypes'
  BY <1>0, <1>2, TypeHalves DEF ReaderTypes, rvars
<1>10. TypeOK'
  BY <1>8, <1>9, TypeHalvesNext
<1>11. k \in Nat /\ 1..k \subseteq 1..Len(file)
  BY <1>4
<1>12. \A j \in 1..Len(phys) : phys[j].rec \in 1..Len(recs)
  BY <1>0, PhysAt
<1>13. PhysOK'
  <2> SUFFICES ASSUME NEW j \in 1..Len(phys)
               PROVE  /\ phys[j].rec \in 1..Len(recs')
                      /\ phys[j].type \in Begins => phys[j].from = 0
                      /\ phys[j].type \in Ends => phys[j].from + phys[j].len = recs'[phys[j].rec].len
                      /\ phys[j].type \in Continues =>
                            /\ j > 1 /\ phys[j - 1].type \in Open /\ phys[j - 1].rec = phys[j].rec
                            /\ phys[j - 1].from + phys[j - 1].len = phys[j].from
                      /\ \A i \in 1..(j - 1) :
                            /\ phys[i].rec <= phys[j].rec
                            /\ phys[i].rec = phys[j].rec =>
                                  phys[i].type \in Open /\ phys[j].type \in Continues
    BY <1>2 DEF PhysOK, Begins, Ends, Continues, Open
  <2>1. phys[j].rec \in 1..Len(recs) /\ recs'[phys[j].rec].len = recs[phys[j].rec].len
    BY <1>6, <1>12
  <2> QED BY <2>1, <1>0, <1>7 DEF PhysOK
<1>14. BytesOK'
  <2>1. ASSUME NEW x \in 1..k
        PROVE  \/ file[x] = Zero
               \/ /\ file[x][1] \in 1..Len(phys) /\ file[x][2] \in 1..Size(file[x][1])
                  /\ \A p \in 1..file[x][2] :
                        x - file[x][2] + p \in 1..k /\ file'[x - file[x][2] + p] = <<file[x][1], p>>
    <3>1. x \in 1..Len(file) /\ x \in Nat /\ x <= k /\ file[x][2] \in Nat
      BY <1>0, <1>11, Types
    <3>2. \/ file[x] = Zero
          \/ /\ file[x][1] \in 1..Len(phys) /\ file[x][2] \in 1..Size(file[x][1])
             /\ \A p \in 1..file[x][2] :
                   x - file[x][2] + p \in 1..Len(file) /\ file[x - file[x][2] + p] = <<file[x][1], p>>
      BY <3>1, <1>0, <1>4 DEF BytesOK
    <3>3. \A p \in 1..file[x][2] : x - file[x][2] + p \in 1..Len(file) => x - file[x][2] + p \in 1..k
      BY ONLY <3>1, <1>4, <1>11
    <3> QED BY ONLY <3>2, <3>3, <1>5
  <2> QED BY ONLY <2>1, <1>2, <1>5 DEF BytesOK, Size, Zero
<1>15. OrderOK'
  BY ONLY <1>0, <1>4, <1>5, <1>11 DEF OrderOK
<1>16. ContinuedOK'
  <2>1. ASSUME NEW y \in 1..k, file[y][1] > 0, phys[file[y][1]].type \in Continues
        PROVE  \E x \in 1..k : x < y /\ file'[x] = <<file[y][1] - 1, Size(file[y][1] - 1)>>
    <3>1. PICK x \in 1..Len(file) : x < y /\ file[x] = <<file[y][1] - 1, Size(file[y][1] - 1)>>
      BY <2>1, <1>0, <1>4, <1>11 DEF ContinuedOK
    <3>2. x \in 1..k
      BY ONLY <3>1, <1>4, <1>11, y \in 1..k
    <3> QED BY <3>1, <3>2, <1>5
  <2>2. ASSUME NEW y \in DOMAIN file', file'[y][1] > 0, phys[file'[y][1]].type \in Continues
        PROVE  \E x \in DOMAIN file' :
                  x < y /\ file'[x] = <<file'[y][1] - 1, Size(file'[y][1] - 1)>>
    <3>1. y \in 1..k /\ file'[y] = file[y]
      BY ONLY <1>5, y \in DOMAIN file'
    <3> QED BY ONLY <2>1, <2>2, <3>1, <1>5
  <2> QED BY ONLY <2>2, <1>2 DEF ContinuedOK, Size, Continues
<1>17. WriterOK'
  BY <1>0, <1>2, <1>7 DEF WriterOK
<1>18. RecsOK'
  <2>1. ASSUME NEW x \in 1..k, file[x][1] > 0
        PROVE  LET j == file[x][1]
                   r == phys[j].rec
               IN  /\ recs'[r].start < x
                   /\ recs'[r].start + 1 \in 1..k /\ file'[recs'[r].start + 1][2] = 1
                   /\ file[x][2] = 1 /\ phys[j].type \in Begins => recs'[r].start = x - 1
                   /\ file[x][2] = Size(j) /\ phys[j].type \in Ends => recs'[r].end = x
    <3>0. x \in 1..Len(file) /\ ~(x > k)
      BY <1>11
    <3>1. file[x][1] \in 1..Len(phys)
      BY <3>0, <1>0, <1>4, <2>1 DEF BytesOK, Zero
    <3> DEFINE r == phys[file[x][1]].rec
    <3>2. r \in 1..Len(recs)
      BY <3>1, <1>12
    <3>3. recs'[r].start = recs[r].start /\ (recs[r].end = x => recs'[r].end = x)
      BY <3>0, <3>2, <1>6
    <3>4. /\ recs[r].start < x /\ recs[r].start + 1 \in 1..Len(file) /\ file[recs[r].start + 1][2] = 1
          /\ file[x][2] = 1 /\ phys[file[x][1]].type \in Begins => recs[r].start = x - 1
          /\ file[x][2] = Size(file[x][1]) /\ phys[file[x][1]].type \in Ends => recs[r].end = x
      BY <3>0, <2>1, <1>0, <1>4 DEF RecsOK
    <3>5. recs[r].start \in Nat
      BY <3>2, <1>0, Types
    <3> HIDE DEF r
    <3>6. recs[r].start + 1 \in 1..k
      BY ONLY <3>4, <3>5, <1>4, <1>11, x \in 1..k
    <3>7. file'[recs[r].start + 1][2] = 1
      BY ONLY <3>4, <3>6, <1>5
    <3> QED BY ONLY <3>3, <3>4, <3>6, <3>7 DEF r
  <2>2. ASSUME NEW r \in 1..Len(recs), recs'[r].end > 0
        PROVE  LET x == recs'[r].end
               IN  /\ x \in 1..k /\ file'[x][1] > 0
                   /\ file'[x] = <<file'[x][1], Size(file'[x][1])>>
                   /\ phys[file'[x][1]].rec = r /\ phys[file'[x][1]].type \in Ends
    <3> DEFINE x == recs[r].end
    <3>1. recs'[r].end = x /\ x > 0 /\ ~(x > k)
      BY <2>2, <1>6
    <3>2. /\ x \in 1..Len(file) /\ file[x][1] > 0
          /\ file[x] = <<file[x][1], Size(file[x][1])>>
          /\ phys[file[x][1]].rec = r /\ phys[file[x][1]].type \in Ends
      BY <3>1, <1>0, <1>4 DEF RecsOK
    <3> HIDE DEF x
    <3>3. x \in 1..k
      BY ONLY <3>1, <3>2, <1>4, <1>11
    <3> QED BY ONLY <3>1, <3>2, <3>3, <1>5
  <2>3. ASSUME NEW x \in 1..k, file'[x][1] > 0
        PROVE  LET j == file'[x][1]
                   r == phys[j].rec
               IN  /\ recs'[r].start < x
                   /\ recs'[r].start + 1 \in 1..k /\ file'[recs'[r].start + 1][2] = 1
                   /\ file'[x][2] = 1 /\ phys[j].type \in Begins => recs'[r].start = x - 1
                   /\ file'[x][2] = Size(j) /\ phys[j].type \in Ends => recs'[r].end = x
    <3>1. file'[x] = file[x]
      BY ONLY <1>5, x \in 1..k
    <3>2. file[x][1] > 0
      BY ONLY <3>1, <2>3
    <3> QED BY ONLY <2>1, <3>1, <3>2, x \in 1..k
  <2> QED BY ONLY <2>3, <2>2, <1>2, <1>5, <1>7 DEF RecsOK, Size
<1> QED BY <1>10, <1>13, <1>14, <1>15, <1>16, <1>17, <1>18 DEF FileInv

(* Whatever leaves the file alone. *)
LEMMA FileFrame ==
    ASSUME FileInv, UNCHANGED <<file, phys, recs, left>>, TypeOK',
           pc' # "write" => left = NULL
    PROVE  FileInv'
<1>1. PhysOK'
  BY DEF FileInv, PhysOK
<1>2. BytesOK' /\ OrderOK' /\ ContinuedOK'
  BY DEF FileInv, BytesOK, OrderOK, ContinuedOK, Size
<1>3. WriterOK'
  BY DEF FileInv, WriterOK, Current, Size
<1>4. RecsOK'
  BY DEF FileInv, RecsOK, Size
<1> QED BY <1>1, <1>2, <1>3, <1>4 DEF FileInv

LEMMA ReuseStep ==
    ASSUME FileInv, Reuse
    PROVE  FileInv'
<1>0. TypeOK /\ WriterOK
  BY DEF FileInv
<1>1. /\ block_offset' = Len(file) % kBlockSize /\ reused' = TRUE /\ pc' = "write"
      /\ UNCHANGED <<file, phys, recs, left, tears, rvars, fails>>
  BY DEF Reuse
<1>2. Len(file) % kBlockSize \in 0..kBlockSize
  BY <1>0, Types
<1>3. WriterTypes'
  BY <1>0, <1>1, <1>2, TypeHalves DEF WriterTypes
<1>4. ReaderTypes'
  BY <1>0, <1>1, TypeHalves DEF ReaderTypes, rvars
<1>5. TypeOK'
  BY <1>3, <1>4, TypeHalvesNext
<1> QED BY <1>1, <1>5, FileFrame

LEMMA WriterSteps ==
    ASSUME FileInv, AddRecord \/ Emit \/ EmitFails \/ TrailerLost \/ Tear \/ Reuse
    PROVE  FileInv'
<1>0. TypeOK /\ WriterOK
  BY DEF FileInv
<1>1. fails \in 0..MaxFail /\ fails \in Nat
  BY <1>0, Types, TypeHalves DEF ReaderTypes
<1>2. left # NULL => Trailer \in Nat /\ FragmentLength \in Nat
  BY <1>0, FragmentFits
<1>3. CASE Emit
  <2>1. /\ pc = "write" /\ left # NULL /\ EmitPhysicalRecord(Trailer, kHeaderSize + FragmentLength)
        /\ UNCHANGED <<reused, tears, rvars, pc>> /\ fails' = fails
    BY <1>3 DEF Emit
  <2>2. kHeaderSize + FragmentLength \in 0..(kHeaderSize + FragmentLength)
    BY <2>1, <1>2
  <2> QED BY <2>1, <2>2, <1>1, <1>2, EmitStep
<1>4. CASE EmitFails
  <2>1. /\ pc = "write" /\ left # NULL /\ fails < MaxFail /\ fails' = fails + 1
        /\ UNCHANGED <<reused, tears, rvars, pc>>
    BY <1>4 DEF EmitFails
  <2>2. PICK k \in 0..(kHeaderSize + FragmentLength - 1) : EmitPhysicalRecord(Trailer, k)
    BY <1>4 DEF EmitFails
  <2>3. k \in 0..(kHeaderSize + FragmentLength) /\ fails' \in 0..MaxFail
    BY <2>1, <1>1, <1>2
  <2> QED BY <2>1, <2>2, <2>3, <1>2, EmitStep
<1>5. CASE TrailerLost
  <2>1. /\ pc = "write" /\ left # NULL /\ fails < MaxFail /\ fails' = fails + 1
        /\ UNCHANGED <<reused, tears, rvars, pc>>
    BY <1>5 DEF TrailerLost
  <2>2. PICK z \in 0..(Trailer - 1) : EmitPhysicalRecord(z, kHeaderSize + FragmentLength)
    BY <1>5 DEF TrailerLost
  <2>3. z \in Nat /\ kHeaderSize + FragmentLength \in 0..(kHeaderSize + FragmentLength)
        /\ fails' \in 0..MaxFail
    BY <2>1, <1>1, <1>2
  <2> QED BY <2>1, <2>2, <2>3, EmitStep
<1> QED BY <1>3, <1>4, <1>5, AddRecordStep, TearStep, ReuseStep

LEMMA FileInit == Init => FileInv
<1> SUFFICES ASSUME Init PROVE FileInv
  OBVIOUS
<1>0. \A S : <<>> \in Seq(S)
  OBVIOUS
<1>1. WriterTypes
  <2>1. 0 \in 0..kBlockSize /\ 0 \in 0..MaxTears /\ FALSE \in BOOLEAN
    OBVIOUS
  <2> QED BY ONLY <1>0, <2>1, Init DEF Init, WriterTypes
<1>2. ReaderTypes
  <2>1. 0 \in Nat /\ 0 \in 0..MaxFail
    OBVIOUS
  <2> QED BY ONLY <1>0, <2>1, Init DEF Init, ReaderTypes
<1>3. TypeOK
  BY <1>1, <1>2, TypeHalves
<1>4. Len(file) = 0 /\ Len(phys) = 0 /\ Len(recs) = 0 /\ DOMAIN file = {} /\ DOMAIN recs = {}
  BY DEF Init
<1>5. PhysOK
  BY <1>4 DEF PhysOK
<1>6. BytesOK /\ OrderOK /\ ContinuedOK /\ RecsOK
  BY <1>4 DEF BytesOK, OrderOK, ContinuedOK, RecsOK
<1>7. WriterOK
  BY <1>4 DEF WriterOK, Init
<1> QED BY <1>3, <1>5, <1>6, <1>7 DEF FileInv

-----------------------------------------------------------------------------
(* The Reader. *)

LEMMA Places ==
    ASSUME TypeOK, BufferBytes
    PROVE  /\ Offset \in Nat /\ Offset <= end_of_buffer_offset
           /\ Offset + Len(buffer) = end_of_buffer_offset /\ BlockStart \in Nat
<1>1. /\ Len(buffer) \in Nat /\ end_of_buffer_offset \in Nat /\ Len(buffer) <= end_of_buffer_offset
      /\ initial_offset \in Nat
  BY Types DEF BufferBytes
<1>2. /\ Offset \in Nat /\ Offset <= end_of_buffer_offset /\ Offset + Len(buffer) = end_of_buffer_offset
  BY <1>1 DEF Offset
<1>3. initial_offset % kBlockSize \in Nat /\ initial_offset % kBlockSize <= initial_offset
  BY <1>1
<1>4. BlockStart \in Nat
  BY <1>1, <1>3 DEF BlockStart
<1> QED BY <1>2, <1>4

(* The physical record at the front of the buffer. *)
LEMMA Consumed ==
    ASSUME TypeOK, BufferBytes, NEW j \in 1..Len(phys), Intact(j)
    PROVE  /\ Size(j) \in Nat /\ Size(j) >= kHeaderSize /\ Size(j) >= 1 /\ Size(j) <= Len(buffer)
           /\ Rest(j) \in Seq(Nat \X Nat) /\ Len(Rest(j)) = Len(buffer) - Size(j)
           /\ \A p \in 1..Len(Rest(j)) : Rest(j)[p] = buffer[Size(j) + p]
           /\ \A p \in 1..Size(j) : Offset + p \in 1..Len(file) /\ file[Offset + p] = <<j, p>>
           /\ Offset + 1 \in 1..Len(file) /\ file[Offset + 1] = <<j, 1>>
           /\ Offset + Size(j) \in 1..Len(file) /\ file[Offset + Size(j)] = <<j, Size(j)>>
<1>1. /\ Size(j) \in Nat /\ Size(j) >= kHeaderSize /\ Size(j) >= 1
      /\ Len(buffer) \in Nat /\ DOMAIN file = 1..Len(file)
  BY Types
<1>2. Size(j) <= Len(buffer) /\ \A p \in 1..Size(j) : buffer[p] = <<j, p>>
  BY DEF Intact
<1>3. buffer \in Seq(Nat \X Nat)
  BY TypeHalves DEF ReaderTypes
<1>4. /\ Rest(j) \in Seq(Nat \X Nat) /\ Len(Rest(j)) = Len(buffer) - Size(j)
      /\ \A p \in 1..Len(Rest(j)) : Rest(j)[p] = buffer[Size(j) + p]
  <2>1. Len(buffer) \in Nat /\ Size(j) \in Nat /\ Size(j) <= Len(buffer) /\ Len(buffer) <= Len(buffer)
    BY <1>1, <1>2
  <2>2. /\ Rest(j) \in Seq(Nat \X Nat) /\ Len(Rest(j)) = Len(buffer) - Size(j)
        /\ \A p \in 1..(Len(buffer) - Size(j)) : Rest(j)[p] = buffer[Size(j) + p]
    BY ONLY ZenonT(40), <2>1, <1>3, SubSeqAt DEF Rest
  <2> QED BY ONLY <2>2
<1>5. 1..Size(j) \subseteq 1..Len(buffer) /\ 1 \in 1..Size(j) /\ Size(j) \in 1..Size(j)
  BY ONLY <1>1, <1>2
<1>6. \A p \in 1..Size(j) : Offset + p \in 1..Len(file) /\ file[Offset + p] = <<j, p>>
  BY ONLY <1>1, <1>2, <1>5, BufferBytes DEF BufferBytes
<1> QED BY ONLY <1>1, <1>2, <1>4, <1>5, <1>6

LEMMA ByteOf ==
    ASSUME TypeOK, BytesOK, NEW x \in 1..Len(file), file[x][1] > 0
    PROVE  /\ file[x][1] \in 1..Len(phys) /\ file[x][2] \in 1..Size(file[x][1])
           /\ \A p \in 1..file[x][2] :
                 x - file[x][2] + p \in 1..Len(file) /\ file[x - file[x][2] + p] = <<file[x][1], p>>
<1>1. DOMAIN file = 1..Len(file)
  BY Types
<1> QED BY <1>1 DEF BytesOK, Zero

(* What comes behind a physical record was emitted later. *)
LEMMA BehindRecord ==
    ASSUME FileInv, NEW q \in 1..Len(file), NEW j \in 1..Len(phys), file[q] = <<j, Size(j)>>,
           NEW x \in 1..Len(file), x > q, file[x][1] > 0
    PROVE  /\ file[x][1] \in 1..Len(phys) /\ file[x][1] > j
           /\ phys[j].rec <= phys[file[x][1]].rec
           /\ phys[j].type \in Ends => phys[j].rec < phys[file[x][1]].rec
<1>0. TypeOK /\ BytesOK /\ OrderOK /\ PhysOK
  BY DEF FileInv
<1>1. /\ DOMAIN file = 1..Len(file) /\ Len(file) \in Nat /\ Len(phys) \in Nat
      /\ Size(j) \in Nat /\ file[x][1] \in Nat /\ file[x][2] \in Nat
  BY <1>0, Types
<1>2. file[x][1] \in 1..Len(phys) /\ file[x][2] \in 1..Size(file[x][1])
  BY <1>0, ByteOf
<1>3. file[q][1] = j /\ file[q][2] = Size(j) /\ j > 0
  BY <1>1
<1>4. j <= file[x][1] /\ (j = file[x][1] => x - q = file[x][2] - Size(j))
  <2>1. q \in DOMAIN file /\ x \in DOMAIN file /\ q < x /\ file[q][1] > 0
    BY <1>1, <1>3
  <2> QED BY ONLY <2>1, <1>0, <1>3, file[x][1] > 0 DEF OrderOK
<1>5. file[x][1] > j
  BY ONLY <1>1, <1>2, <1>4, x > q, q \in 1..Len(file), x \in 1..Len(file), j \in 1..Len(phys)
<1>6. /\ phys[j].rec <= phys[file[x][1]].rec
      /\ phys[j].rec = phys[file[x][1]].rec => phys[j].type \in Open
  BY <1>0, <1>2, <1>5, PhysOrder
<1>7. /\ phys[j].rec \in Nat /\ phys[file[x][1]].rec \in Nat
      /\ phys[j].type \in Ends <=> phys[j].type \notin Open
  BY <1>0, <1>2, Types
<1> QED BY ONLY SMTT(40), <1>2, <1>5, <1>6, <1>7

LEMMA BufferBytesClear ==
    ASSUME end_of_buffer_offset' \in Nat, buffer' = <<>>
    PROVE  BufferBytes' /\ Offset' = end_of_buffer_offset'
<1>1. Len(buffer') = 0
  OBVIOUS
<1>2. Offset' = end_of_buffer_offset' /\ Len(buffer') <= end_of_buffer_offset'
  <2>1. end_of_buffer_offset' \in Nat
    OBVIOUS
  <2>2. Offset' = end_of_buffer_offset' - 0
    BY ONLY <1>1 DEF Offset
  <2>3. \A n \in Nat : n - 0 = n /\ 0 <= n
    OBVIOUS
  <2>4. Offset' = end_of_buffer_offset'
    BY ONLY <2>1, <2>2, <2>3
  <2>5. Len(buffer') <= end_of_buffer_offset'
    BY ONLY <2>1, <2>3, <1>1
  <2> QED BY ONLY <2>4, <2>5
<1> QED BY <1>1, <1>2 DEF BufferBytes

LEMMA BufferBytesKeep ==
    ASSUME BufferBytes, UNCHANGED <<buffer, end_of_buffer_offset, file>>
    PROVE  BufferBytes' /\ Offset' = Offset
BY DEF BufferBytes, Offset

LEMMA BufferBytesConsume ==
    ASSUME TypeOK, BufferBytes, NEW j \in 1..Len(phys), Intact(j), buffer' = Rest(j),
           UNCHANGED <<end_of_buffer_offset, file>>
    PROVE  BufferBytes' /\ Offset' = Offset + Size(j) /\ buffer' \in Seq(Nat \X Nat)
           /\ Len(buffer') = Len(buffer) - Size(j)
<1>1. /\ Size(j) \in Nat /\ Size(j) >= 1 /\ Size(j) <= Len(buffer)
      /\ Rest(j) \in Seq(Nat \X Nat) /\ Len(Rest(j)) = Len(buffer) - Size(j)
      /\ \A p \in 1..Len(Rest(j)) : Rest(j)[p] = buffer[Size(j) + p]
  BY Consumed
<1>2. /\ Len(buffer) \in Nat /\ end_of_buffer_offset \in Nat /\ Len(buffer) <= end_of_buffer_offset
  BY Types DEF BufferBytes
<1>3. Offset' = Offset + Size(j) /\ Offset \in Nat
  BY <1>1, <1>2 DEF Offset
<1>4. ASSUME NEW p \in 1..Len(buffer')
      PROVE  Offset' + p \in DOMAIN file /\ buffer'[p] = file[Offset' + p]
  <2>0. /\ Len(buffer') = Len(buffer) - Size(j) /\ Size(j) \in Nat /\ Size(j) <= Len(buffer)
        /\ p \in 1..Len(buffer')
    BY <1>1
  <2>1. Size(j) + p \in 1..Len(buffer) /\ Offset' + p = Offset + (Size(j) + p)
    BY ONLY <2>0, <1>2, <1>3
  <2>2. buffer'[p] = buffer[Size(j) + p]
    BY <1>1
  <2> QED BY <2>1, <2>2 DEF BufferBytes
<1>5. Len(buffer') <= end_of_buffer_offset
  BY <1>1, <1>2
<1> QED BY <1>1, <1>3, <1>4, <1>5 DEF BufferBytes

(* The next block. *)
LEMMA BlockRead ==
    ASSUME TypeOK, BufferBytes, ReadBlock
    PROVE  /\ BufferBytes' /\ Offset' = end_of_buffer_offset /\ buffer' \in Seq(Nat \X Nat)
           /\ Len(buffer') \in Nat /\ end_of_buffer_offset' = end_of_buffer_offset + Len(buffer')
           /\ end_of_buffer_offset < Len(file) =>
                 /\ end_of_buffer_offset' <= Len(file)
                 /\ Len(buffer') <= kBlockSize /\ Len(buffer') >= 1
                 /\ Len(buffer') < kBlockSize => end_of_buffer_offset' = Len(file)
           /\ end_of_buffer_offset >= Len(file) => Len(buffer') = 0
           /\ eof' = (Len(buffer') < kBlockSize)
<1> DEFINE e == end_of_buffer_offset
           m == Least2(e + kBlockSize, Len(file))
<1>1. e \in Nat /\ Len(file) \in Nat
  BY Types
<1>2. file \in Seq(Nat \X Nat)
  BY TypeHalves DEF WriterTypes
<1>3. m \in Nat /\ m <= Len(file) /\ m <= e + kBlockSize /\ (m = Len(file) \/ m = e + kBlockSize)
  BY <1>1 DEF Least2
<1>4. /\ buffer' = SubSeq(file, e + 1, m) /\ eof' = (Len(buffer') < kBlockSize)
      /\ end_of_buffer_offset' = e + Len(buffer') /\ file' = file
  BY DEF ReadBlock, wvars
<1> HIDE DEF m
<1>5. CASE e < m
  <2>1. /\ buffer' \in Seq(Nat \X Nat) /\ Len(buffer') = m - e
        /\ \A p \in 1..(m - e) : buffer'[p] = file[e + p]
    <3>1. e <= m /\ m <= Len(file)
      BY <1>1, <1>3, <1>5
    <3>2. e \in Nat /\ m \in Nat
      BY <1>1, <1>3
    <3>3. buffer' = SubSeq(file, e + 1, m)
      BY <1>4
    <3> HIDE DEF e
    <3> QED BY ONLY <3>1, <3>2, <3>3, <1>2, SubSeqAt
  <2>2. Len(buffer') \in Nat /\ Len(buffer') <= e + Len(buffer') /\ Len(buffer') = m - e
    BY <2>1, <1>1, <1>3, <1>5
  <2>3. Offset' = e
    <3>1. end_of_buffer_offset' = e + Len(buffer')
      BY <1>4
    <3> QED BY ONLY <3>1, <2>2, <1>1 DEF Offset
  <2>4. \A p \in 1..(m - e) : e + p \in 1..Len(file)
    BY <1>1, <1>3, <1>5
  <2>5. BufferBytes'
    BY <2>1, <2>2, <2>3, <2>4, <1>4, Types DEF BufferBytes
  <2>6. /\ e + Len(buffer') <= Len(file) /\ Len(buffer') <= kBlockSize /\ Len(buffer') >= 1
        /\ Len(buffer') < kBlockSize => e + Len(buffer') = Len(file)
        /\ ~(e >= Len(file))
    BY <2>2, <1>1, <1>3, <1>5
  <2> QED BY <2>1, <2>2, <2>3, <2>5, <2>6, <1>4
<1>6. CASE ~(e < m)
  <2>1. buffer' = <<>>
    BY <1>1, <1>2, <1>3, <1>4, <1>6, SubSeqNone
  <2>2. Len(buffer') = 0
    BY <2>1
  <2>3. end_of_buffer_offset' = e /\ ~(e < Len(file))
    BY <2>2, <1>1, <1>3, <1>4, <1>6
  <2>4. BufferBytes' /\ Offset' = e
    BY <2>1, <2>3, <1>1, BufferBytesClear
  <2>5. buffer' \in Seq(Nat \X Nat)
    BY <2>1
  <2>6. /\ Len(buffer') \in Nat /\ end_of_buffer_offset' = end_of_buffer_offset + Len(buffer')
    BY <2>2, <2>3, <1>1
  <2> QED BY ONLY <2>2, <2>3, <2>4, <2>5, <2>6, <1>4
<1> QED BY <1>5, <1>6

LEMMA FragmentSeq ==
    ASSUME TypeOK, NEW j \in 1..Len(phys)
    PROVE  /\ Fragment(j) \in Seq(Nat \X Nat) /\ Len(Fragment(j)) = phys[j].len
           /\ \A i \in 1..phys[j].len : Fragment(j)[i] = <<phys[j].rec, phys[j].from + i>>
<1>1. phys[j].rec \in Nat /\ phys[j].len \in Nat /\ phys[j].from \in Nat
  BY Types
<1> QED BY ONLY SMTT(40), <1>1 DEF Fragment

LEMMA WriterTypesKeep ==
    ASSUME WriterTypes, UNCHANGED wvars
    PROVE  WriterTypes'
BY DEF WriterTypes, wvars

(* The steps that return no physical record. *)
LEMMA OtherTypes ==
    ASSUME TypeOK, BufferBytes,
           \/ StartReader \/ ReadRecord \/ SkipFails \/ ReadBlock \/ ReadBlockFails \/ ReadEof
           \/ ReadBad \/ ReadEarly \/ Finished
    PROVE  TypeOK' /\ UNCHANGED wvars
<1>0. WriterTypes /\ ReaderTypes
  BY TypeHalves
<1>1. UNCHANGED wvars
  BY DEF StartReader, ReadRecord, SkipFails, ReadBlock, ReadBlockFails, ReadEof, ReadBad,
         ReadEarly, BadRecord, readerFrame, Finished, vars
<1>2. SUFFICES ReaderTypes'
  BY <1>0, <1>1, WriterTypesKeep, TypeHalvesNext
<1>3. \A S : <<>> \in Seq(S)
  OBVIOUS
<1>4. fails \in Nat /\ (fails < MaxFail => fails + 1 \in 0..MaxFail)
  BY SMTT(40), Types
<1>5. BlockStart \in Nat
  BY Places
<1>6. CASE StartReader
  BY <1>0, <1>6 DEF StartReader, ReaderTypes
<1>7. CASE ReadRecord
  BY <1>0, <1>3, <1>5, <1>7 DEF ReadRecord, ReaderTypes
<1>8. CASE SkipFails
  BY <1>0, <1>4, <1>5, <1>8 DEF SkipFails, ReaderTypes
<1>9. CASE ReadBlock
  <2>1. buffer' \in Seq(Nat \X Nat) /\ Len(buffer') \in Nat /\ eof' \in BOOLEAN
        /\ end_of_buffer_offset' = end_of_buffer_offset + Len(buffer')
    BY <1>9, BlockRead
  <2>2. end_of_buffer_offset' \in Nat
    BY SMTT(40), <2>1, Types
  <2> QED BY <2>1, <2>2, <1>0, <1>9 DEF ReadBlock, ReaderTypes
<1>10. CASE ReadBlockFails
  BY <1>0, <1>3, <1>4, <1>10 DEF ReadBlockFails, ReaderTypes
<1>11. CASE ReadEof
  BY <1>0, <1>3, <1>11 DEF ReadEof, ReaderTypes
<1>12. ASSUME NEW rest \in Seq(Nat \X Nat), NEW b, BadRecord(rest, b)
       PROVE  ReaderTypes'
  <2>1. reported' \in BOOLEAN
    BY <1>12 DEF BadRecord, ReportBad
  <2> QED BY <2>1, <1>0, <1>3, <1>12 DEF BadRecord, readerFrame, ReaderTypes
<1>13. CASE ReadBad
  BY <1>3, <1>12, <1>13 DEF ReadBad
<1>14. CASE ReadEarly
  <2>1. PICK j \in 1..Len(phys) : Intact(j) /\ BadRecord(Rest(j), FALSE)
    BY <1>14 DEF ReadEarly
  <2> QED BY <2>1, <1>12, Consumed
<1>15. CASE Finished
  BY <1>0, <1>15 DEF Finished, vars, rvars, ReaderTypes
<1> QED BY <1>6, <1>7, <1>8, <1>9, <1>10, <1>11, <1>13, <1>14, <1>15

(* The steps that return one. *)
LEMMA PhysicalTypes ==
    ASSUME TypeOK, BufferBytes, Resync \/ ReadFull \/ ReadFirst \/ ReadMiddle \/ ReadLast
    PROVE  TypeOK' /\ UNCHANGED wvars
<1>0. WriterTypes /\ ReaderTypes
  BY TypeHalves
<1>1. UNCHANGED wvars
  BY DEF Resync, ReadFull, ReadFirst, ReadMiddle, ReadLast, Physical
<1>2. SUFFICES ReaderTypes'
  BY <1>0, <1>1, WriterTypesKeep, TypeHalvesNext
<1>3. \A S : <<>> \in Seq(S)
  OBVIOUS
<1>4. Offset \in Nat
  BY Places
<1>5. ASSUME NEW j \in 1..Len(phys), NEW type, Physical(j, type)
      PROVE  /\ buffer' \in Seq(Nat \X Nat) /\ Fragment(j) \in Seq(Nat \X Nat)
             /\ scratch \o Fragment(j) \in Seq(Nat \X Nat)
             /\ UNCHANGED <<initial_offset, end_of_buffer_offset, eof, fails>>
  <2>1. Fragment(j) \in Seq(Nat \X Nat) /\ scratch \in Seq(Nat \X Nat)
    BY <1>0, FragmentSeq DEF ReaderTypes
  <2>2. scratch \o Fragment(j) \in Seq(Nat \X Nat)
    BY <2>1, ConcatAt
  <2>3. Intact(j) /\ buffer' = Rest(j)
    BY <1>5 DEF Physical
  <2>4. UNCHANGED <<initial_offset, end_of_buffer_offset, eof, fails>>
    BY <1>5 DEF Physical
  <2> QED BY <2>1, <2>2, <2>3, <2>4, Consumed
<1>6. ASSUME NEW record \in Seq(Nat \X Nat), NEW o \in Nat, Return(record, o)
      PROVE  out' \in Seq(Seq(Nat \X Nat)) /\ last_record_offset' \in Nat /\ pc' = "call"
  <2>1. out \in Seq(Seq(Nat \X Nat))
    BY <1>0 DEF ReaderTypes
  <2> DEFINE T == Seq(Nat \X Nat)
  <2>2. out \in Seq(T) /\ record \in T
    BY <2>1
  <2> HIDE DEF T
  <2>3. Append(out, record) \in Seq(T)
    BY <2>2, AppendProperties
  <2>4. Append(out, record) \in Seq(Seq(Nat \X Nat))
    BY <2>3 DEF T
  <2> QED BY <2>4, <1>6 DEF Return
<1>7. CASE Resync
  <2>1. PICK j \in 1..Len(phys) :
          \/ Physical(j, "kMiddleType") /\ UNCHANGED resyncing
          \/ Physical(j, "kLastType") /\ resyncing' = FALSE
    BY <1>7 DEF Resync
  <2>2. /\ buffer' \in Seq(Nat \X Nat) /\ UNCHANGED <<initial_offset, end_of_buffer_offset, eof, fails>>
    BY <2>1, <1>5
  <2>3. UNCHANGED <<last_record_offset, in_fragmented_record, prospective, scratch, out, reported, pc>>
    BY <1>7 DEF Resync
  <2> QED BY <2>1, <2>2, <2>3, <1>0 DEF ReaderTypes
<1>8. CASE ReadFull
  <2>1. PICK j \in 1..Len(phys) :
          /\ Physical(j, "kFullType")
          /\ prospective' = Offset /\ Return(Fragment(j), Offset)
          /\ IF in_fragmented_record /\ scratch # <<>>
             THEN reported' = Report(Len(scratch), Rest(j)) /\ UNCHANGED in_fragmented_record
             ELSE UNCHANGED reported /\ in_fragmented_record' = FALSE
    BY <1>8 DEF ReadFull
  <2>2. /\ buffer' \in Seq(Nat \X Nat) /\ UNCHANGED <<initial_offset, end_of_buffer_offset, eof, fails>>
        /\ Fragment(j) \in Seq(Nat \X Nat)
    BY <2>1, <1>5
  <2>3. /\ out' \in Seq(Seq(Nat \X Nat)) /\ last_record_offset' \in Nat /\ pc' = "call"
    BY <2>1, <2>2, <1>4, <1>6
  <2>4. reported' \in BOOLEAN /\ in_fragmented_record' \in BOOLEAN
    BY <2>1, <1>0 DEF Report, ReaderTypes
  <2>5. scratch' = <<>> /\ resyncing' = FALSE
    BY <1>8 DEF ReadFull
  <2> QED BY <2>1, <2>2, <2>3, <2>4, <2>5, <1>0, <1>3, <1>4 DEF ReaderTypes
<1>9. CASE ReadFirst
  <2>1. PICK j \in 1..Len(phys) :
          /\ Physical(j, "kFirstType")
          /\ prospective' = Offset /\ scratch' = Fragment(j)
          /\ reported' = IF in_fragmented_record /\ scratch # <<>>
                         THEN Report(Len(scratch), Rest(j)) ELSE reported
    BY <1>9 DEF ReadFirst
  <2>2. /\ buffer' \in Seq(Nat \X Nat) /\ UNCHANGED <<initial_offset, end_of_buffer_offset, eof, fails>>
        /\ Fragment(j) \in Seq(Nat \X Nat)
    BY <2>1, <1>5
  <2>3. reported' \in BOOLEAN
    BY <2>1, <1>0 DEF Report, ReaderTypes
  <2>4. /\ in_fragmented_record' = TRUE /\ resyncing' = FALSE /\ UNCHANGED <<last_record_offset, out, pc>>
    BY <1>9 DEF ReadFirst
  <2> QED BY <2>1, <2>2, <2>3, <2>4, <1>0, <1>4 DEF ReaderTypes
<1>10. CASE ReadMiddle
  <2>1. PICK j \in 1..Len(phys) :
          /\ Physical(j, "kMiddleType")
          /\ IF in_fragmented_record
             THEN scratch' = scratch \o Fragment(j) /\ UNCHANGED reported
             ELSE reported' = Report(phys[j].len, Rest(j)) /\ UNCHANGED scratch
    BY <1>10 DEF ReadMiddle
  <2>2. /\ buffer' \in Seq(Nat \X Nat) /\ UNCHANGED <<initial_offset, end_of_buffer_offset, eof, fails>>
        /\ scratch \o Fragment(j) \in Seq(Nat \X Nat)
    BY <2>1, <1>5
  <2>3. reported' \in BOOLEAN /\ scratch' \in Seq(Nat \X Nat)
    BY <2>1, <2>2, <1>0 DEF Report, ReaderTypes
  <2>4. UNCHANGED <<last_record_offset, in_fragmented_record, prospective, out, pc, resyncing>>
    BY <1>10 DEF ReadMiddle
  <2> QED BY <2>2, <2>3, <2>4, <1>0 DEF ReaderTypes
<1>11. CASE ReadLast
  <2>1. PICK j \in 1..Len(phys) :
          /\ Physical(j, "kLastType")
          /\ IF in_fragmented_record
             THEN /\ scratch' = scratch \o Fragment(j)
                  /\ Return(scratch', prospective) /\ UNCHANGED reported
             ELSE /\ reported' = Report(phys[j].len, Rest(j))
                  /\ UNCHANGED <<scratch, out, last_record_offset, pc>>
    BY <1>11 DEF ReadLast
  <2>2. /\ buffer' \in Seq(Nat \X Nat) /\ UNCHANGED <<initial_offset, end_of_buffer_offset, eof, fails>>
        /\ scratch \o Fragment(j) \in Seq(Nat \X Nat)
    BY <2>1, <1>5
  <2>3. reported' \in BOOLEAN /\ scratch' \in Seq(Nat \X Nat)
    BY <2>1, <2>2, <1>0 DEF Report, ReaderTypes
  <2>4. prospective \in Nat
    BY <1>0 DEF ReaderTypes
  <2>5. /\ out' \in Seq(Seq(Nat \X Nat)) /\ last_record_offset' \in Nat
        /\ pc' \in {"write", "cut", "call", "read", "done"}
    <3>1. CASE in_fragmented_record
      BY <3>1, <2>1, <2>3, <2>4, <1>6
    <3>2. CASE ~in_fragmented_record
      BY <3>2, <2>1, <1>0 DEF ReaderTypes
    <3> QED BY <3>1, <3>2
  <2>6. UNCHANGED <<in_fragmented_record, prospective, resyncing>>
    BY <1>11 DEF ReadLast
  <2> QED BY <2>2, <2>3, <2>5, <2>6, <1>0 DEF ReaderTypes
<1> QED BY <1>7, <1>8, <1>9, <1>10, <1>11

(* The Reader moves on without a fragment. *)
LEMMA TrackOn ==
    ASSUME TypeOK, NEW h, NEW f, Track(f, h), UNCHANGED <<file, phys, recs, initial_offset, out>>,
           Reading, Offset \in Nat, Offset' \in Nat, Offset <= Offset',
           ~(pc' = "read" /\ in_fragmented_record')
    PROVE  Track(f, h)'
<1>1. Returned(f)'
  BY DEF Track, Returned, Content
<1>2. Survivors' = Survivors
  BY DEF Survivors
<1>3. \A n \in DOMAIN out' : f[n] \in Survivors'
  BY <1>2 DEF Track
<1>4. ASSUME NEW n \in DOMAIN out, NEW x \in DOMAIN file, x > Offset', file[x][1] > 0
      PROVE  phys[file[x][1]].rec > f[n]
  <2>1. DOMAIN file = 1..Len(file) /\ Len(file) \in Nat
    BY Types
  <2>2. x > Offset
    BY ONLY <2>1, <1>4, x \in DOMAIN file, Offset \in Nat, Offset' \in Nat, Offset <= Offset'
  <2>3. Ahead(f, h)
    BY DEF Track
  <2> QED BY ONLY <2>2, <2>3, <1>4 DEF Ahead
<1>5. Ahead(f, h)'
  BY <1>4 DEF Ahead
<1> QED BY <1>1, <1>3, <1>5 DEF Track

(* Nothing was returned. *)
LEMMA TrackNothing ==
    ASSUME NEW h, NEW f, out' = <<>>, ~(pc' = "read" /\ in_fragmented_record')
    PROVE  Track(f, h)'
<1>1. DOMAIN out' = {}
  OBVIOUS
<1>2. Returned(f)'
  BY <1>1 DEF Returned
<1>3. Ahead(f, h)'
  BY <1>1 DEF Ahead
<1> QED BY <1>1, <1>2, <1>3 DEF Track

(* The next block is read in the middle of a record. *)
LEMMA TrackBlock ==
    ASSUME FileInv, BufferBytes, NEW h, NEW f, Track(f, h), ReadBlock, in_fragmented_record
    PROVE  Track(f, h)'
<1>0. TypeOK
  BY DEF FileInv
<1>1. /\ pc = "read" /\ pc' = "read" /\ Len(buffer) < kHeaderSize /\ ~eof
      /\ UNCHANGED <<file, phys, recs, initial_offset, out, scratch, in_fragmented_record>>
  BY DEF ReadBlock, wvars
<1>2. /\ Offset \in Nat /\ Offset <= end_of_buffer_offset /\ Offset + Len(buffer) = end_of_buffer_offset
      /\ Offset' = end_of_buffer_offset /\ eof' = (Len(buffer') < kBlockSize) /\ Len(buffer') \in Nat
      /\ end_of_buffer_offset \in Nat /\ Len(buffer) \in Nat
  BY <1>0, Types, Places, BlockRead
<1>3. Returned(f)' /\ \A n \in DOMAIN out' : f[n] \in Survivors'
  BY <1>1 DEF Track, Returned, Content, Survivors
<1>4. Fragmented(h) /\ Ahead(f, h)
  BY <1>1 DEF Track, Reading
<1>5. Fragmented(h)'
  <2>1. PICK q \in DOMAIN file :
          /\ file[q] = <<h, Size(h)>> /\ q <= Offset /\ Offset - q < kHeaderSize
          /\ Offset = q \/ eof \/ Len(buffer) >= kHeaderSize
    BY <1>4 DEF Fragmented
  <2>2. q = Offset
    BY <2>1, <1>1, <1>2
  <2>3. q <= Offset' /\ Offset' - q < kHeaderSize
    BY <2>2, <1>1, <1>2
  <2>4. eof' \/ Len(buffer') >= kHeaderSize
    <3>1. Len(buffer') < kBlockSize \/ Len(buffer') >= kHeaderSize
      BY <1>2
    <3>2. eof' = (Len(buffer') < kBlockSize)
      BY <1>2
    <3> QED BY ONLY <3>1, <3>2
  <2>5. file[q] = <<h, Size(h)>>
    BY <2>1
  <2>6. \E x \in DOMAIN file' :
          /\ file'[x] = <<h, Size(h)'>> /\ x <= Offset' /\ Offset' - x < kHeaderSize
          /\ Offset' = x \/ eof' \/ Len(buffer') >= kHeaderSize
    <3>1. Size(h)' = Size(h)
      BY <1>1 DEF Size
    <3> QED BY ONLY <3>1, <2>3, <2>4, <2>5, <1>1, q \in DOMAIN file
  <2> QED BY ONLY <2>6, <1>1, <1>4 DEF Fragmented, Open
<1>6. ASSUME NEW n \in DOMAIN out, NEW x \in DOMAIN file, x > Offset', file[x][1] > 0
      PROVE  phys[file[x][1]].rec > f[n]
  <2>1. DOMAIN file = 1..Len(file) /\ Len(file) \in Nat
    BY <1>0, Types
  <2>2. x > Offset
    BY ONLY <2>1, <1>2, <1>6, x \in DOMAIN file
  <2> QED BY ONLY <2>2, <1>4, <1>6 DEF Ahead
<1>7. Ahead(f, h)'
  BY <1>1, <1>4, <1>6 DEF Ahead
<1> QED BY <1>3, <1>5, <1>7 DEF Track

(* The first fragment of a record. *)
LEMMA TrackFirst ==
    ASSUME FileInv, BufferBytes, NEW h, NEW f, Track(f, h), Reading, NEW j \in 1..Len(phys),
           Physical(j, "kFirstType"), scratch' = Fragment(j), UNCHANGED <<out, pc>>,
           DOMAIN f = DOMAIN out
    PROVE  Track(f, j)'
<1>0. TypeOK /\ BytesOK /\ PhysOK /\ RecsOK
  BY DEF FileInv
<1>1. /\ Intact(j) /\ Offset >= initial_offset /\ phys[j].type = "kFirstType" /\ buffer' = Rest(j)
      /\ UNCHANGED <<file, phys, recs, initial_offset, end_of_buffer_offset, eof>>
  BY DEF Physical, wvars
<1>2. /\ Offset' = Offset + Size(j) /\ Offset \in Nat /\ Size(j) \in Nat /\ Size(j) >= 1
      /\ Offset + 1 \in 1..Len(file) /\ file[Offset + 1] = <<j, 1>>
      /\ Offset + Size(j) \in 1..Len(file) /\ file[Offset + Size(j)] = <<j, Size(j)>>
      /\ DOMAIN file = 1..Len(file)
  BY <1>0, <1>1, Types, Places, Consumed, BufferBytesConsume
<1>3. Returned(f)' /\ \A n \in DOMAIN out' : f[n] \in Survivors'
  BY <1>1 DEF Track, Returned, Content, Survivors
<1>4. Ahead(f, h)
  BY DEF Track
<1>5. ASSUME NEW n \in DOMAIN out
      PROVE  /\ phys[j].rec > f[n]
             /\ \A x \in DOMAIN file : x > Offset' /\ file[x][1] > 0 => phys[file[x][1]].rec > f[n]
  <2>1a. Offset + 1 > Offset
    BY <1>2
  <2>1. Offset + 1 > Offset /\ file[Offset + 1][1] = j /\ j > 0
    BY <2>1a, <1>2
  <2>2. phys[j].rec > f[n]
    BY ONLY <2>1, <1>2, <1>4, n \in DOMAIN out DEF Ahead
  <2>3. \A x \in 1..Len(file) : x > Offset' => x > Offset
    BY <1>2
  <2> QED BY ONLY <2>2, <2>3, <1>2, <1>4, n \in DOMAIN out DEF Ahead
<1>6. Fragmented(j)'
  <2>1. phys[j].type \in Open /\ phys[j].type \in Begins
    BY <1>1 DEF Open, Begins
  <2>2. phys[j].from = 0 /\ phys[j].len \in Nat /\ phys[j].rec \in Nat
    BY <2>1, <1>0, PhysAt, Types
  <2>3. scratch' = [i \in 1..(phys[j].from + phys[j].len) |-> <<phys[j].rec, i>>]
    BY <2>2 DEF Fragment
  <2>4. recs[phys[j].rec].start = Offset
    <3>1. Offset + 1 \in DOMAIN file /\ file[Offset + 1][1] = j /\ file[Offset + 1][2] = 1 /\ j > 0
      BY <1>0, <1>2, Types
    <3> DEFINE x == Offset + 1
    <3>2. x \in DOMAIN file /\ file[x][1] = j /\ file[x][2] = 1 /\ j > 0
      BY <3>1
    <3> HIDE DEF x
    <3>3. recs[phys[j].rec].start = x - 1
      BY ONLY <3>2, <2>1, <1>0 DEF RecsOK
    <3> QED BY <3>3, <1>2 DEF x
  <2>5. Size(j)' = Size(j)
    BY <1>1 DEF Size
  <2>6. \E q \in DOMAIN file' :
          /\ file'[q] = <<j, Size(j)'>> /\ q <= Offset' /\ Offset' - q < kHeaderSize
          /\ Offset' = q \/ eof' \/ Len(buffer') >= kHeaderSize
    <3>1. Offset' \in DOMAIN file' /\ file'[Offset'] = <<j, Size(j)'>> /\ Offset' \in Nat
      BY <1>1, <1>2, <2>5
    <3>2. Offset' <= Offset' /\ Offset' - Offset' < kHeaderSize
      BY <3>1
    <3> QED BY <3>1, <3>2
  <2> QED BY ONLY <2>1, <2>3, <2>4, <2>6, <1>1, j \in 1..Len(phys) DEF Fragmented, Open
<1>7. Ahead(f, j)'
  BY <1>1, <1>5 DEF Ahead
<1> QED BY <1>3, <1>6, <1>7 DEF Track

(* A fragment that continues what is in scratch is the next one.           *)
LEMMA NextFragment ==
    ASSUME FileInv, BufferBytes, NEW h, Fragmented(h), NEW j \in 1..Len(phys), Intact(j),
           phys[j].type \in Continues
    PROVE  j = h + 1 /\ phys[j].rec = phys[h].rec /\ phys[h].from + phys[h].len = phys[j].from
<1>0. TypeOK /\ BytesOK /\ OrderOK /\ ContinuedOK /\ PhysOK
  BY DEF FileInv
<1>1. /\ Offset \in Nat /\ Offset + 1 \in 1..Len(file) /\ file[Offset + 1] = <<j, 1>>
      /\ DOMAIN file = 1..Len(file) /\ Len(file) \in Nat /\ Len(phys) \in Nat
  BY <1>0, Types, Places, Consumed
<1>2. h \in 1..Len(phys)
  BY DEF Fragmented
<1>3. PICK q \in 1..Len(file) : file[q] = <<h, Size(h)>> /\ q <= Offset /\ Offset - q < kHeaderSize
  BY <1>1 DEF Fragmented
<1>4. file[Offset + 1][1] = j /\ file[Offset + 1][1] > 0 /\ Offset + 1 > q
  BY <1>1, <1>3
<1>5. j > h
  BY ONLY <1>1, <1>2, <1>3, <1>4, FileInv, BehindRecord
<1>6. j - 1 \in 1..Len(phys) /\ phys[j - 1].rec = phys[j].rec
      /\ phys[j - 1].from + phys[j - 1].len = phys[j].from
  BY <1>0, PhysAt
<1>7. PICK x \in 1..Len(file) : x < Offset + 1 /\ file[x] = <<j - 1, Size(j - 1)>>
  BY <1>0, <1>1, <1>4 DEF ContinuedOK
<1>8. Size(j - 1) \in Nat /\ Size(j - 1) >= kHeaderSize /\ Size(j - 1) >= 1
  BY <1>0, <1>6, Types
<1>9. ASSUME j - 1 # h PROVE FALSE
  <2>1. j - 1 > h
    BY <1>2, <1>5, <1>6, <1>9
  <2>2. file[x][1] = j - 1 /\ file[x][1] > 0 /\ file[x][2] = Size(j - 1)
    BY <1>6, <1>7
  <2> DEFINE y == x - Size(j - 1) + 1
  <2>3. y \in 1..Len(file) /\ file[y] = <<j - 1, 1>>
    <3>1. 1 \in 1..file[x][2]
      BY <2>2, <1>8
    <3> QED BY <3>1, <2>2, <1>0, <1>6, ByteOf
  <2> HIDE DEF y
  <2>4. file[y][1] = j - 1 /\ file[y][1] > 0 /\ file[q][1] = h /\ file[q][1] > 0
    BY <2>3, <1>2, <1>3, <1>6
  <2>5. y > q
    <3>1. CASE y = q
      BY ONLY <3>1, <2>1, <2>4, <1>2, <1>6
    <3>2. CASE y < q
      <4>1. file[y][1] <= file[q][1]
        BY ONLY <3>2, <2>3, <2>4, <1>0, <1>1, q \in 1..Len(file) DEF OrderOK
      <4> QED BY ONLY <4>1, <2>1, <2>4, <1>2, <1>6, <1>1
    <3> QED BY <3>1, <3>2, <2>3, <1>1
  <2>6. x = y + Size(j - 1) - 1
    BY <1>8 DEF y
  <2>7. /\ y \in Nat /\ q \in Nat /\ x \in Nat /\ Offset \in Nat /\ Size(j - 1) \in Nat
        /\ x < Offset + 1 /\ Offset - q < kHeaderSize /\ Size(j - 1) >= kHeaderSize
    BY ONLY <2>3, <1>1, <1>3, <1>7, <1>8, q \in 1..Len(file), x \in 1..Len(file)
  <2> QED BY ONLY <2>5, <2>6, <2>7,
             LogAssumption
<1>10. j = h + 1
  BY <1>2, <1>6, <1>9
<1> QED BY <1>2, <1>6, <1>10, <1>1

LEMMA JoinFragments ==
    ASSUME NEW r \in Nat, NEW a \in Nat, NEW b \in Nat, NEW s, NEW t,
           s = [i \in 1..a |-> <<r, i>>], t = [i \in 1..b |-> <<r, a + i>>]
    PROVE  s \o t = [i \in 1..(a + b) |-> <<r, i>>]
<1>1. s \in Seq(Nat \X Nat) /\ t \in Seq(Nat \X Nat) /\ Len(s) = a /\ Len(t) = b
  OBVIOUS
<1>2. /\ s \o t \in Seq(Nat \X Nat) /\ Len(s \o t) = a + b
      /\ \A x \in 1..(a + b) : (s \o t)[x] = IF x <= a THEN s[x] ELSE t[x - a]
  BY <1>1, ConcatAt
<1>3. \A x \in 1..(a + b) : (s \o t)[x] = <<r, x>>
  <2> SUFFICES ASSUME NEW x \in 1..(a + b) PROVE (s \o t)[x] = <<r, x>>
    OBVIOUS
  <2>1. CASE x <= a
    BY <1>2, <2>1
  <2>2. CASE ~(x <= a)
    <3>1. x - a \in 1..b /\ a + (x - a) = x
      BY <2>2
    <3>2. t[x - a] = <<r, x>>
      BY <3>1
    <3> QED BY ONLY <3>2, <2>2, <1>2, x \in 1..(a + b)
  <2> QED BY <2>1, <2>2
<1> DEFINE u == s \o t
           v == [i \in 1..(a + b) |-> <<r, i>>]
<1>4. v \in Seq(Nat \X Nat) /\ Len(v) = a + b /\ \A x \in 1..(a + b) : v[x] = <<r, x>>
  OBVIOUS
<1>5. u \in Seq(Nat \X Nat) /\ Len(u) = a + b /\ \A x \in 1..(a + b) : u[x] = <<r, x>>
  BY <1>2, <1>3
<1> HIDE DEF u, v
<1>6. u = v
  BY <1>4, <1>5, SeqEqual
<1> QED BY <1>6 DEF u, v

LEMMA JoinedScratch ==
    ASSUME FileInv, BufferBytes, NEW h, Fragmented(h), NEW j \in 1..Len(phys), Intact(j),
           phys[j].type \in Continues
    PROVE  scratch \o Fragment(j) = [i \in 1..(phys[j].from + phys[j].len) |-> <<phys[j].rec, i>>]
<1>0. TypeOK
  BY DEF FileInv
<1>1. /\ phys[j].rec = phys[h].rec /\ phys[h].from + phys[h].len = phys[j].from
      /\ phys[j].rec \in Nat /\ phys[j].from \in Nat /\ phys[j].len \in Nat
  BY <1>0, NextFragment, Types
<1>2. scratch = [i \in 1..phys[j].from |-> <<phys[j].rec, i>>]
  BY <1>1 DEF Fragmented
<1>3. Fragment(j) = [i \in 1..phys[j].len |-> <<phys[j].rec, phys[j].from + i>>]
  BY DEF Fragment
<1> DEFINE r == phys[j].rec
           a == phys[j].from
           b == phys[j].len
           t == Fragment(j)
<1>4. /\ r \in Nat /\ a \in Nat /\ b \in Nat
      /\ scratch = [i \in 1..a |-> <<r, i>>] /\ t = [i \in 1..b |-> <<r, a + i>>]
  BY <1>1, <1>2, <1>3
<1> HIDE DEF r, a, b, t
<1>5. scratch \o t = [i \in 1..(a + b) |-> <<r, i>>]
  BY ONLY <1>4, JoinFragments
<1> QED BY <1>5 DEF r, a, b, t

(* A fragment in the middle of the record in scratch. *)
LEMMA TrackMiddle ==
    ASSUME FileInv, BufferBytes, NEW h, NEW f, Track(f, h), pc = "read", in_fragmented_record,
           NEW j \in 1..Len(phys), Physical(j, "kMiddleType"), scratch' = scratch \o Fragment(j),
           UNCHANGED <<out, pc>>
    PROVE  Track(f, j)'
<1>0. TypeOK /\ BytesOK /\ PhysOK
  BY DEF FileInv
<1>1. /\ Intact(j) /\ phys[j].type = "kMiddleType" /\ buffer' = Rest(j)
      /\ UNCHANGED <<file, phys, recs, initial_offset, end_of_buffer_offset, eof>>
  BY DEF Physical, wvars
<1>2. /\ Offset' = Offset + Size(j) /\ Offset \in Nat /\ Size(j) \in Nat /\ Size(j) >= 1
      /\ Offset + Size(j) \in 1..Len(file) /\ file[Offset + Size(j)] = <<j, Size(j)>>
      /\ DOMAIN file = 1..Len(file)
  BY <1>0, <1>1, Types, Places, Consumed, BufferBytesConsume
<1>3. Returned(f)' /\ \A n \in DOMAIN out' : f[n] \in Survivors'
  BY <1>1 DEF Track, Returned, Content, Survivors
<1>4. Ahead(f, h) /\ Fragmented(h)
  BY DEF Track, Reading
<1>5. phys[j].type \in Continues /\ phys[j].type \in Open
  BY <1>1 DEF Continues, Open
<1>6. phys[j].rec = phys[h].rec
  BY <1>1, <1>4, <1>5, NextFragment
<1>7. ASSUME NEW n \in DOMAIN out
      PROVE  /\ phys[j].rec > f[n]
             /\ \A x \in DOMAIN file : x > Offset' /\ file[x][1] > 0 => phys[file[x][1]].rec > f[n]
  <2>1. \A x \in 1..Len(file) : x > Offset' => x > Offset
    BY <1>2
  <2> QED BY <2>1, <1>2, <1>4, <1>6 DEF Ahead
<1>8. Fragmented(j)'
  <2>1. scratch' = [i \in 1..(phys[j].from + phys[j].len) |-> <<phys[j].rec, i>>]
    BY <1>1, <1>4, <1>5, JoinedScratch
  <2>2. recs[phys[j].rec].start >= initial_offset
    BY <1>4, <1>6 DEF Fragmented
  <2>3. Size(j)' = Size(j)
    BY <1>1 DEF Size
  <2>4. \E q \in DOMAIN file' :
          /\ file'[q] = <<j, Size(j)'>> /\ q <= Offset' /\ Offset' - q < kHeaderSize
          /\ Offset' = q \/ eof' \/ Len(buffer') >= kHeaderSize
    <3>1. Offset' \in DOMAIN file' /\ file'[Offset'] = <<j, Size(j)'>> /\ Offset' \in Nat
      BY <1>1, <1>2, <2>3
    <3>2. Offset' <= Offset' /\ Offset' - Offset' < kHeaderSize
      BY <3>1
    <3> QED BY <3>1, <3>2
  <2> QED BY ONLY <2>1, <2>2, <2>4, <1>1, <1>5, j \in 1..Len(phys) DEF Fragmented, Open
<1>9. Ahead(f, j)'
  BY <1>1, <1>7 DEF Ahead
<1> QED BY <1>3, <1>8, <1>9 DEF Track

(* f and one record more. *)
Longer(f, r) == [n \in 1..(Len(out) + 1) |-> IF n <= Len(out) THEN f[n] ELSE r]

(* A whole record is returned. *)
LEMMA TrackReturn ==
    ASSUME FileInv, BufferBytes, NEW h, NEW f \in [DOMAIN out -> DOMAIN recs], Track(f, h), Reading,
           NEW j \in 1..Len(phys), Intact(j), phys[j].type \in Ends, buffer' = Rest(j), pc' = "call",
           UNCHANGED <<file, phys, recs, initial_offset, end_of_buffer_offset>>,
           out' = Append(out, Content(phys[j].rec)), recs[phys[j].rec].start >= initial_offset,
           \A n \in DOMAIN out : phys[j].rec > f[n],
           NEW g, g = Longer(f, phys[j].rec), NEW i, TypeOK'
    PROVE  g \in [DOMAIN out' -> DOMAIN recs'] /\ Track(g, i)'
<1>0. TypeOK /\ BytesOK /\ PhysOK /\ RecsOK
  BY DEF FileInv
<1> DEFINE r == phys[j].rec
           x == Offset + Size(j)
           l == Len(out)
<1>1a. Offset \in Nat /\ Size(j) \in Nat /\ x \in 1..Len(file) /\ file[x] = <<j, Size(j)>>
  BY <1>0, Places, Consumed
<1>1b. Offset' = x
  BY <1>0, BufferBytesConsume
<1>1c. DOMAIN file = 1..Len(file)
  BY <1>0, Types
<1>1. /\ Offset' = x /\ x \in 1..Len(file) /\ file[x] = <<j, Size(j)>> /\ x \in Nat
      /\ DOMAIN file = 1..Len(file) /\ Offset \in Nat /\ Size(j) \in Nat
  BY <1>1a, <1>1b, <1>1c
<1>2. r \in 1..Len(recs) /\ DOMAIN recs = 1..Len(recs) /\ r \in Nat /\ Len(recs) \in Nat
  BY <1>0, PhysAt, Types
<1>3. l \in Nat /\ DOMAIN out = 1..l
  BY <1>0, Types
<1>4. out' = Append(out, Content(r)) /\ out \in Seq(Seq(Nat \X Nat))
  BY <1>0, TypeHalves DEF ReaderTypes
<1>5. DOMAIN out' = 1..Len(out')
  <2>1. out' \in Seq(Seq(Nat \X Nat))
    BY TypeHalvesNext DEF ReaderTypes
  <2> QED BY ONLY <2>1
<1>6. Len(out') = l + 1 /\ out'[l + 1] = Content(r) /\ \A n \in 1..l : out'[n] = out[n]
  <2>1. out \in Seq(Seq(Nat \X Nat) \cup {Content(r)})
    BY ONLY <1>4
  <2>2. Content(r) \in Seq(Nat \X Nat) \cup {Content(r)}
    OBVIOUS
  <2> DEFINE T == Seq(Nat \X Nat) \cup {Content(r)}
  <2>3. out \in Seq(T) /\ Content(r) \in T
    BY <2>1, <2>2
  <2> HIDE DEF T
  <2> QED BY ONLY <2>3, <1>4, AppendProperties
<1>7. /\ DOMAIN g = 1..(l + 1) /\ g[l + 1] = r /\ \A n \in 1..l : g[n] = f[n]
      /\ \A n \in 1..l : f[n] \in 1..Len(recs) /\ f[n] < r
  <2>1. \A n \in 1..l : f[n] \in 1..Len(recs) /\ r > f[n]
    BY <1>2, <1>3
  <2>2. \A n \in 1..l : f[n] \in 1..Len(recs) /\ f[n] < r
    BY ONLY <2>1, <1>2
  <2>3. g = [n \in 1..(l + 1) |-> IF n <= l THEN f[n] ELSE r]
    BY DEF Longer
  <2>4. /\ DOMAIN g = 1..(l + 1) /\ g[l + 1] = r /\ \A n \in 1..l : g[n] = f[n]
    BY ONLY <2>3, <1>3
  <2> QED BY <2>2, <2>4
<1>8. g \in [DOMAIN out' -> DOMAIN recs']
  BY <1>2, <1>3, <1>5, <1>6, <1>7 DEF Longer
<1>9. \A n \in 1..(l + 1) : n \in 1..l \/ n = l + 1
  BY <1>3
<1>10. \A n \in 1..l : out[n] = Content(f[n])
  BY <1>3 DEF Track, Returned
<1>11. \A m, n \in 1..l : m < n => f[m] < f[n]
  BY <1>3 DEF Track, Returned
<1>12. Returned(g)'
  <2>1. \A n \in 1..(l + 1) : out'[n] = Content(g[n])
    BY ONLY <1>6, <1>7, <1>9, <1>10
  <2>2. \A n \in 1..(l + 1) : Content(g[n])' = Content(g[n])
    BY DEF Content
  <2>3. ASSUME NEW m \in 1..(l + 1), NEW n \in 1..(l + 1), m < n
        PROVE  g[m] < g[n]
    <3>1. m \in 1..l
      BY <2>3, <1>3
    <3> QED BY ONLY <3>1, <2>3, <1>7, <1>9, <1>11, n \in 1..(l + 1)
  <2>4. DOMAIN out' = 1..(l + 1)
    BY <1>5, <1>6
  <2> QED BY ONLY <2>1, <2>2, <2>3, <2>4 DEF Returned
<1>13. r \in Survivors'
  <2>1. x \in DOMAIN file /\ file[x][1] = j /\ j > 0 /\ file[x][2] = Size(j)
    BY <1>1
  <2> HIDE DEF x
  <2>2. recs[r].end = x
    BY ONLY <2>1, <1>0, phys[j].type \in Ends DEF RecsOK
  <2>3. recs[r].end > 0
    BY <2>2, <1>1
  <2> QED BY <2>3, <1>2 DEF Survivors
<1>14. \A n \in DOMAIN out' : g[n] \in Survivors'
  <2>1. \A n \in 1..l : f[n] \in Survivors'
    BY <1>3 DEF Track, Survivors
  <2> QED BY <2>1, <1>5, <1>6, <1>7, <1>9, <1>13
<1>15. ASSUME NEW n \in DOMAIN out', NEW y \in DOMAIN file, y > Offset', file[y][1] > 0
       PROVE  phys[file[y][1]].rec > g[n]
  <2>1. /\ file[y][1] \in 1..Len(phys) /\ r < phys[file[y][1]].rec
    BY ONLY <1>1, <1>15, FileInv, BehindRecord, j \in 1..Len(phys), phys[j].type \in Ends,
            y \in DOMAIN file
  <2>2. phys[file[y][1]].rec \in Nat
    BY <2>1, <1>0, Types
  <2>3. g[n] \in Nat /\ g[n] <= r
    <3>1. n \in 1..l \/ n = l + 1
      BY <1>5, <1>6, <1>9
    <3>2. CASE n \in 1..l
      <4>1. g[n] = f[n] /\ f[n] \in 1..Len(recs) /\ f[n] < r
        BY <3>2, <1>7
      <4> QED BY ONLY <4>1, <1>2
    <3>3. CASE n = l + 1
      BY <3>3, <1>2, <1>7
    <3> QED BY <3>1, <3>2, <3>3
  <2> QED BY ONLY <2>1, <2>2, <2>3, <1>2
<1>16. Ahead(g, i)'
  BY <1>15 DEF Ahead
<1>17. Track(g, i)'
  BY <1>12, <1>14, <1>16 DEF Track
<1> QED BY <1>8, <1>17

Write == AddRecord \/ Emit \/ EmitFails \/ TrailerLost \/ Tear \/ Reuse

LEMMA NothingRead ==
    ASSUME TypeOK, TypeOK', out' = <<>>, ~(pc' = "read" /\ in_fragmented_record')
    PROVE  ReaderOK'
<1> DEFINE f == [n \in {} |-> 0]
<1>1. DOMAIN out' = {} /\ f \in [{} -> DOMAIN recs']
  OBVIOUS
<1>2. PICK g : g \in [DOMAIN out' -> DOMAIN recs']
  BY <1>1
<1>3. Track(g, 0)'
  BY TrackNothing
<1>4. Len(phys') \in Nat
  <2>1. phys' \in Seq([type : {"kFullType", "kFirstType", "kMiddleType", "kLastType"},
                     rec : 1..MaxRecords, len : 0..kBlockSize, from : 0..MaxLen])
    BY TypeHalvesNext DEF WriterTypes
  <2> QED BY ONLY <2>1
<1>5. 0 \in 0..Len(phys')
  BY <1>4
<1> QED BY <1>2, <1>3, <1>5 DEF ReaderOK

LEMMA WriteSafe ==
    ASSUME LogInv, Write
    PROVE  LogInv'
<1>0. FileInv /\ TypeOK /\ BufferBytes /\ BufferPlace
  BY DEF LogInv, FileInv, BufferOK
<1>1. FileInv'
  BY <1>0, WriterSteps DEF Write
<1>2. /\ pc \in {"write", "cut"} /\ pc' \in {"write", "cut"}
      /\ UNCHANGED rvars
  BY DEF Write, AddRecord, Emit, EmitFails, TrailerLost, Tear, Reuse
<1>3. /\ out = <<>> /\ end_of_buffer_offset = 0 /\ ~in_fragmented_record
  BY <1>0, <1>2 DEF BufferPlace
<1>4. buffer = <<>>
  <2>1. Len(buffer) \in Nat /\ Len(buffer) <= 0
    BY <1>0, <1>3, Types DEF BufferBytes
  <2>2. buffer \in Seq(Nat \X Nat) /\ Len(buffer) = 0
    BY <1>0, <2>1, TypeHalves DEF ReaderTypes
  <2> QED BY ONLY <2>2
<1>5. /\ out' = <<>> /\ end_of_buffer_offset' = 0 /\ buffer' = <<>>
      /\ ~in_fragmented_record'
  BY <1>2, <1>3, <1>4 DEF rvars
<1>6. BufferBytes'
  BY <1>5, BufferBytesClear
<1>7. BufferPlace'
  BY <1>0, <1>2, <1>5 DEF BufferPlace, rvars
<1>8. TypeOK'
  BY <1>1 DEF FileInv
<1>9. ReaderOK'
  BY <1>0, <1>5, <1>8, NothingRead
<1> QED BY <1>1, <1>6, <1>7, <1>9 DEF LogInv, BufferOK

LEMMA LogInit == Init => LogInv
<1> SUFFICES ASSUME Init PROVE LogInv
  OBVIOUS
<1>1. FileInv
  BY FileInit
<1>2. DOMAIN out = {} /\ Len(buffer) = 0 /\ Len(phys) = 0
  BY DEF Init
<1>3. BufferBytes /\ BufferPlace
  BY <1>2 DEF Init, BufferBytes, BufferPlace
<1>4. PICK g : g \in [DOMAIN out -> DOMAIN recs]
  <2>1. [n \in {} |-> 0] \in [DOMAIN out -> DOMAIN recs]
    BY <1>2
  <2> QED BY <2>1
<1>5. Track(g, 0)
  BY <1>2 DEF Init, Track, Returned, Reading
<1>6. 0 \in 0..Len(phys)
  BY <1>2
<1> QED BY <1>1, <1>3, <1>4, <1>5, <1>6 DEF LogInv, BufferOK, ReaderOK

LEMMA NothingBuffered ==
    ASSUME TypeOK, BufferBytes, end_of_buffer_offset = 0
    PROVE  buffer = <<>>
<1>1. Len(buffer) \in Nat /\ Len(buffer) <= 0
  BY Types DEF BufferBytes
<1>2. buffer \in Seq(Nat \X Nat) /\ Len(buffer) = 0
  BY <1>1, TypeHalves DEF ReaderTypes
<1> QED BY ONLY <1>2

(* The buffer and the file, step by step. *)
LEMMA OtherBuffer ==
    ASSUME FileInv, BufferOK,
           \/ StartReader \/ ReadRecord \/ SkipFails \/ ReadBlock \/ ReadBlockFails \/ ReadEof
           \/ ReadBad \/ ReadEarly \/ Finished
    PROVE  FileInv' /\ BufferOK'
<1>0. TypeOK /\ WriterOK /\ BufferBytes /\ BufferPlace
  BY DEF FileInv, BufferOK
<1>1. TypeOK' /\ UNCHANGED wvars
  BY <1>0, OtherTypes
<1>2. pc' # "write" => left = NULL
  BY <1>0 DEF WriterOK, StartReader, ReadRecord, SkipFails, ReadBlock, ReadBlockFails, ReadEof,
              ReadBad, ReadEarly, Finished, HeaderRead, vars
<1>3. FileInv'
  BY <1>1, <1>2, FileFrame DEF wvars
<1>4. end_of_buffer_offset' \in Nat /\ file' = file
  BY <1>1, TypeHalvesNext DEF ReaderTypes, wvars
<1>5. CASE StartReader
  <2>1. BufferBytes'
    BY <1>0, <1>4, <1>5, BufferBytesKeep DEF StartReader
  <2>2. BufferPlace'
    BY <1>0, <1>5 DEF BufferPlace, StartReader
  <2> QED BY <1>3, <2>1, <2>2 DEF BufferOK
<1>6. CASE ReadRecord
  <2>1. CASE last_record_offset < initial_offset
    <3>1. buffer' = <<>>
      BY <1>0, <1>6, <2>1, NothingBuffered DEF BufferPlace, ReadRecord
    <3>2. BufferBytes'
      BY <3>1, <1>4, BufferBytesClear
    <3>3. BufferPlace'
      BY <1>6 DEF BufferPlace, ReadRecord
    <3> QED BY <1>3, <3>2, <3>3 DEF BufferOK
  <2>2. CASE ~(last_record_offset < initial_offset)
    <3>1. BufferBytes'
      BY <1>0, <1>4, <1>6, <2>2, BufferBytesKeep DEF ReadRecord
    <3>2. BufferPlace'
      BY <1>6 DEF BufferPlace, ReadRecord
    <3> QED BY <1>3, <3>1, <3>2 DEF BufferOK
  <2> QED BY <2>1, <2>2
<1>7. CASE SkipFails
  <2>1. buffer' = <<>>
    BY <1>0, <1>7, NothingBuffered DEF BufferPlace, SkipFails
  <2>2. BufferBytes'
    BY <2>1, <1>4, BufferBytesClear
  <2>3. BufferPlace'
    BY <1>0, <1>7 DEF BufferPlace, SkipFails
  <2> QED BY <1>3, <2>2, <2>3 DEF BufferOK
<1>8. CASE ReadBlock
  <2>1. BufferBytes'
    BY <1>0, <1>8, BlockRead
  <2>2. BufferPlace'
    BY <1>0, <1>8 DEF BufferPlace, ReadBlock
  <2> QED BY <1>3, <2>1, <2>2 DEF BufferOK
<1>9. CASE ReadBlockFails
  <2>1. BufferBytes'
    BY <1>4, <1>9, BufferBytesClear DEF ReadBlockFails
  <2>2. BufferPlace'
    BY <1>0, <1>9 DEF BufferPlace, ReadBlockFails
  <2> QED BY <1>3, <2>1, <2>2 DEF BufferOK
<1>10. CASE ReadEof
  <2>1. BufferBytes'
    BY <1>4, <1>10, BufferBytesClear DEF ReadEof
  <2>2. BufferPlace'
    BY <1>0, <1>10 DEF BufferPlace, ReadEof
  <2> QED BY <1>3, <2>1, <2>2 DEF BufferOK
<1>11. ASSUME NEW rest, NEW b, BadRecord(rest, b), HeaderRead
       PROVE  BufferPlace' /\ buffer' = rest /\ UNCHANGED end_of_buffer_offset
  BY <1>0, <1>11 DEF BadRecord, readerFrame, BufferPlace, HeaderRead
<1>12. CASE ReadBad
  <2>1. BufferPlace' /\ buffer' = <<>>
    BY <1>11, <1>12 DEF ReadBad
  <2> QED BY <1>3, <1>4, <2>1, BufferBytesClear DEF BufferOK
<1>13. CASE ReadEarly
  <2>1. PICK j \in 1..Len(phys) : Intact(j) /\ BadRecord(Rest(j), FALSE)
    BY <1>13 DEF ReadEarly
  <2>2. BufferPlace' /\ buffer' = Rest(j) /\ UNCHANGED end_of_buffer_offset
    BY <2>1, <1>11, <1>13 DEF ReadEarly
  <2> QED BY <1>0, <1>3, <1>4, <2>1, <2>2, BufferBytesConsume DEF BufferOK
<1>14. CASE Finished
  <2>1. BufferBytes'
    BY <1>0, <1>4, <1>14, BufferBytesKeep DEF Finished, vars, rvars
  <2>2. BufferPlace'
    BY <1>0, <1>14 DEF BufferPlace, Finished, vars, rvars
  <2> QED BY <1>3, <2>1, <2>2 DEF BufferOK
<1> QED BY <1>5, <1>6, <1>7, <1>8, <1>9, <1>10, <1>12, <1>13, <1>14

LEMMA PhysicalBuffer ==
    ASSUME FileInv, BufferOK, Resync \/ ReadFull \/ ReadFirst \/ ReadMiddle \/ ReadLast
    PROVE  FileInv' /\ BufferOK'
<1>0. TypeOK /\ WriterOK /\ BufferBytes /\ BufferPlace
  BY DEF FileInv, BufferOK
<1>1. TypeOK' /\ UNCHANGED wvars
  BY <1>0, PhysicalTypes
<1>2. PICK j \in 1..Len(phys), type \in {"kFullType", "kFirstType", "kMiddleType", "kLastType"} :
        Physical(j, type)
  BY DEF Resync, ReadFull, ReadFirst, ReadMiddle, ReadLast
<1>3. /\ pc = "read" /\ Intact(j) /\ buffer' = Rest(j) /\ Offset >= initial_offset
      /\ UNCHANGED <<initial_offset, end_of_buffer_offset, file>>
  BY <1>2 DEF Physical, HeaderRead, wvars
<1>4. FileInv'
  BY <1>0, <1>1, <1>3, FileFrame DEF wvars, WriterOK
<1>5. BufferBytes'
  BY <1>0, <1>3, BufferBytesConsume
<1>6. Offset \in Nat /\ initial_offset \in Nat /\ prospective \in Nat
  BY <1>0, Places, Types
<1>7. BufferPlace'
  <2>1. CASE Resync
    BY <1>0, <1>3, <2>1 DEF BufferPlace, Resync
  <2>2. CASE ReadFull
    <3>1. last_record_offset' = Offset /\ pc' = "call" /\ resyncing' = FALSE
      BY <2>2 DEF ReadFull, Return
    <3> QED BY <3>1, <1>3, <1>6 DEF BufferPlace
  <2>3. CASE ReadFirst
    <3>1. prospective' = Offset /\ pc' = pc /\ resyncing' = FALSE
      BY <2>3 DEF ReadFirst
    <3> QED BY <3>1, <1>3, <1>6 DEF BufferPlace
  <2>4. CASE ReadMiddle
    BY <1>0, <1>3, <2>4 DEF BufferPlace, ReadMiddle
  <2>5. CASE ReadLast
    <3>1. UNCHANGED <<in_fragmented_record, prospective, resyncing>> /\ ~resyncing
      BY <2>5 DEF ReadLast
    <3>2. CASE in_fragmented_record
      <4>1. last_record_offset' = prospective /\ pc' = "call" /\ prospective >= initial_offset
        BY <3>2, <2>5, <1>0, <1>3 DEF ReadLast, Return, BufferPlace
      <4> QED BY <4>1, <3>1, <1>3, <1>6 DEF BufferPlace
    <3>3. CASE ~in_fragmented_record
      <4>1. pc' = "read"
        BY <3>3, <2>5, <1>3 DEF ReadLast
      <4> QED BY <4>1, <3>1, <3>3 DEF BufferPlace
    <3> QED BY <3>2, <3>3
  <2> QED BY <2>1, <2>2, <2>3, <2>4, <2>5
<1> QED BY <1>4, <1>5, <1>7 DEF BufferOK

(* The steps that neither return a record nor add to one. *)
Pass == \/ ReadRecord \/ SkipFails \/ ReadBlock \/ ReadBlockFails \/ ReadEof \/ ReadBad
        \/ ReadEarly \/ Resync \/ (ReadMiddle /\ ~in_fragmented_record)
        \/ (ReadLast /\ ~in_fragmented_record)

LEMMA PassTrack ==
    ASSUME FileInv, BufferOK, NEW h, NEW f, Track(f, h), Pass
    PROVE  Track(f, h)' /\ UNCHANGED <<out, file, phys, recs, initial_offset>>
<1>0. TypeOK /\ BufferBytes /\ BufferPlace
  BY DEF FileInv, BufferOK
<1>1. /\ Reading /\ UNCHANGED <<out, file, phys, recs, initial_offset>>
  BY DEF Pass, Reading, ReadRecord, SkipFails, ReadBlock, ReadBlockFails, ReadEof, ReadBad,
         ReadEarly, Resync, ReadMiddle, ReadLast, BadRecord, readerFrame, wvars, Physical, HeaderRead
<1>2. Offset \in Nat /\ Offset <= end_of_buffer_offset /\ end_of_buffer_offset \in Nat
  BY <1>0, Places, Types
<1>3. ASSUME buffer' = <<>>, UNCHANGED end_of_buffer_offset, ~(pc' = "read" /\ in_fragmented_record')
      PROVE  Track(f, h)'
  <2>1. Offset' = end_of_buffer_offset
    BY <1>2, <1>3, BufferBytesClear
  <2> QED BY <2>1, <1>0, <1>1, <1>2, <1>3, TrackOn
<1>4. ASSUME NEW j \in 1..Len(phys), Intact(j), buffer' = Rest(j), UNCHANGED end_of_buffer_offset,
             ~(pc' = "read" /\ in_fragmented_record')
      PROVE  Track(f, h)'
  <2>1. Offset' = Offset + Size(j) /\ Size(j) \in Nat
    BY <1>0, <1>1, <1>4, BufferBytesConsume, Consumed
  <2>2. Offset' \in Nat /\ Offset <= Offset'
    BY <2>1, <1>2
  <2> QED BY <2>2, <1>0, <1>1, <1>2, <1>4, TrackOn
<1>5. ASSUME NEW j \in 1..Len(phys), NEW type, Physical(j, type), ~(pc' = "read" /\ in_fragmented_record')
      PROVE  Track(f, h)'
  BY <1>4, <1>5 DEF Physical
<1>6. CASE ReadRecord
  <2>1. ~(pc' = "read" /\ in_fragmented_record')
    BY <1>6 DEF ReadRecord
  <2>2. CASE last_record_offset < initial_offset
    <3>1. out' = <<>>
      BY <1>0, <1>1, <1>6, <2>2 DEF ReadRecord, BufferPlace
    <3> QED BY <3>1, <2>1, <1>1, TrackNothing
  <2>3. CASE ~(last_record_offset < initial_offset)
    <3>1. Offset' = Offset
      BY <1>6, <2>3 DEF ReadRecord, Offset
    <3> QED BY <3>1, <2>1, <1>0, <1>1, <1>2, TrackOn
  <2> QED BY <2>2, <2>3
<1>7. CASE SkipFails
  <2>1. out' = <<>> /\ pc' = "done"
    BY <1>0, <1>1, <1>7 DEF SkipFails, BufferPlace
  <2> QED BY <2>1, <1>1, TrackNothing
<1>8. CASE ReadBlock
  <2>1. CASE in_fragmented_record
    BY <2>1, <1>0, <1>1, <1>8, TrackBlock
  <2>2. CASE ~in_fragmented_record
    <3>1. Offset' = end_of_buffer_offset /\ in_fragmented_record' = in_fragmented_record
      BY <1>0, <1>8, BlockRead DEF ReadBlock
    <3> QED BY <3>1, <2>2, <1>0, <1>1, <1>2, TrackOn
  <2> QED BY <2>1, <2>2
<1>9. CASE ReadBlockFails
  BY <1>1, <1>3, <1>9 DEF ReadBlockFails
<1>10. CASE ReadEof
  BY <1>1, <1>3, <1>10 DEF ReadEof
<1>11. CASE ReadBad
  <2>1. buffer' = <<>> /\ UNCHANGED end_of_buffer_offset /\ in_fragmented_record' = FALSE
    BY <1>11 DEF ReadBad, BadRecord, readerFrame
  <2> QED BY <2>1, <1>1, <1>3
<1>12. CASE ReadEarly
  <2>1. PICK j \in 1..Len(phys) : Intact(j) /\ BadRecord(Rest(j), FALSE)
    BY <1>12 DEF ReadEarly
  <2>2. buffer' = Rest(j) /\ UNCHANGED end_of_buffer_offset /\ in_fragmented_record' = FALSE
    BY <2>1 DEF BadRecord, readerFrame
  <2> QED BY <2>1, <2>2, <1>1, <1>4
<1>13. CASE Resync
  <2>1. ~in_fragmented_record'
    BY <1>0, <1>13 DEF Resync, BufferPlace
  <2>2. \E j \in 1..Len(phys) : \E type : Physical(j, type)
    BY <1>13 DEF Resync
  <2> QED BY <2>1, <2>2, <1>1, <1>5
<1>14. CASE (ReadMiddle \/ ReadLast) /\ ~in_fragmented_record
  <2>1. ~in_fragmented_record'
    BY <1>14 DEF ReadMiddle, ReadLast
  <2>2. \E j \in 1..Len(phys) : \E type : Physical(j, type)
    BY <1>14 DEF ReadMiddle, ReadLast
  <2> QED BY <2>1, <2>2, <1>1, <1>5
<1> QED BY <1>1, <1>6, <1>7, <1>8, <1>9, <1>10, <1>11, <1>12, <1>13, <1>14 DEF Pass

(* A record in one piece. *)
LEMMA FullTrack ==
    ASSUME FileInv, BufferOK, NEW h, NEW f \in [DOMAIN out -> DOMAIN recs], Track(f, h),
           NEW j \in 1..Len(phys), Physical(j, "kFullType"), Return(Fragment(j), Offset),
           NEW g, g = Longer(f, phys[j].rec), NEW i, TypeOK'
    PROVE  g \in [DOMAIN out' -> DOMAIN recs'] /\ Track(g, i)'
<1>0. TypeOK /\ BufferBytes /\ PhysOK /\ RecsOK
  BY DEF FileInv, BufferOK
<1>1. /\ pc = "read" /\ Intact(j) /\ Offset >= initial_offset /\ phys[j].type = "kFullType" /\ buffer' = Rest(j)
      /\ UNCHANGED <<file, phys, recs, initial_offset, end_of_buffer_offset>>
  BY DEF Physical, wvars, HeaderRead
<1>2. phys[j].type \in Begins /\ phys[j].type \in Ends
  BY <1>1 DEF Begins, Ends
<1>3. /\ phys[j].from = 0 /\ phys[j].from + phys[j].len = recs[phys[j].rec].len
      /\ phys[j].len \in Nat
  BY <1>0, <1>2, PhysAt, Types
<1>4. Fragment(j) = Content(phys[j].rec)
  BY <1>3 DEF Fragment, Content
<1>5. /\ Offset \in Nat /\ Offset + 1 \in DOMAIN file /\ file[Offset + 1] = <<j, 1>>
  BY <1>0, <1>1, Places, Consumed, Types
<1>6. recs[phys[j].rec].start = Offset
  <2> DEFINE x == Offset + 1
  <2>1. x \in DOMAIN file /\ file[x][1] = j /\ file[x][2] = 1 /\ j > 0
    BY <1>5
  <2> HIDE DEF x
  <2>2. recs[phys[j].rec].start = x - 1
    BY ONLY <2>1, <1>2, <1>0 DEF RecsOK
  <2> QED BY <2>2, <1>5 DEF x
<1>7. \A n \in DOMAIN out : phys[j].rec > f[n]
  <2>1. Ahead(f, h)
    BY <1>1 DEF Track, Reading
  <2>2. Offset + 1 > Offset
    BY <1>5
  <2>3. file[Offset + 1][1] = j /\ j > 0
    BY <1>5
  <2> QED BY ONLY <2>1, <2>2, <2>3, <1>5 DEF Ahead
<1>8. out' = Append(out, Content(phys[j].rec)) /\ pc' = "call"
  BY <1>4 DEF Return
<1> QED BY <1>0, <1>1, <1>2, <1>6, <1>7, <1>8, TrackReturn DEF Reading

(* The last piece of one. *)
LEMMA LastTrack ==
    ASSUME FileInv, BufferOK, NEW h, NEW f \in [DOMAIN out -> DOMAIN recs], Track(f, h),
           in_fragmented_record, NEW j \in 1..Len(phys), Physical(j, "kLastType"),
           NEW o, Return(scratch \o Fragment(j), o),
           NEW g, g = Longer(f, phys[j].rec), NEW i, TypeOK'
    PROVE  g \in [DOMAIN out' -> DOMAIN recs'] /\ Track(g, i)'
<1>0. TypeOK /\ BufferBytes /\ PhysOK
  BY DEF FileInv, BufferOK
<1>1. /\ pc = "read" /\ Intact(j) /\ phys[j].type = "kLastType" /\ buffer' = Rest(j)
      /\ UNCHANGED <<file, phys, recs, initial_offset, end_of_buffer_offset>>
  BY DEF Physical, wvars, HeaderRead
<1>2. phys[j].type \in Continues /\ phys[j].type \in Ends
  BY <1>1 DEF Continues, Ends
<1>3. Fragmented(h) /\ Ahead(f, h)
  BY <1>1 DEF Track, Reading
<1>4. phys[j].rec = phys[h].rec
  BY <1>0, <1>1, <1>2, <1>3, NextFragment
<1>5. phys[j].from + phys[j].len = recs[phys[j].rec].len
  BY <1>0, <1>2, PhysAt
<1>6. scratch \o Fragment(j) = Content(phys[j].rec)
  BY <1>0, <1>1, <1>2, <1>3, <1>5, JoinedScratch DEF Content
<1>7. recs[phys[j].rec].start >= initial_offset
  BY <1>3, <1>4 DEF Fragmented
<1>8. \A n \in DOMAIN out : phys[j].rec > f[n]
  BY <1>1, <1>3, <1>4 DEF Ahead
<1>9. out' = Append(out, Content(phys[j].rec)) /\ pc' = "call"
  BY <1>6 DEF Return
<1> QED BY <1>0, <1>1, <1>2, <1>7, <1>8, <1>9, TrackReturn DEF Reading

LEMMA ReadSafe ==
    ASSUME LogInv, StartReader \/ Read \/ SkipFails \/ ReadBlockFails \/ Finished
    PROVE  LogInv'
<1>0. FileInv /\ BufferOK /\ TypeOK /\ BufferBytes /\ BufferPlace
  BY DEF LogInv, FileInv, BufferOK
<1>1. FileInv' /\ BufferOK' /\ UNCHANGED wvars
  BY <1>0, OtherBuffer, PhysicalBuffer, OtherTypes, PhysicalTypes DEF Read
<1>2. TypeOK'
  BY <1>1 DEF FileInv
<1>3. PICK h \in 0..Len(phys), f \in [DOMAIN out -> DOMAIN recs] : Track(f, h)
  BY DEF LogInv, ReaderOK
<1>4. UNCHANGED <<file, phys, recs>> /\ Len(phys) \in Nat
  BY <1>0, <1>1, Types DEF wvars
<1>5. SUFFICES ReaderOK'
  BY <1>1 DEF LogInv
<1>6. CASE StartReader
  <2>1. out' = <<>> /\ pc' = "call"
    BY <1>0, <1>6 DEF StartReader, BufferPlace
  <2> QED BY <2>1, <1>0, <1>2, NothingRead
<1>7. CASE Pass
  <2>1. Track(f, h)' /\ out' = out
    BY <1>0, <1>3, <1>7, PassTrack
  <2> QED BY <2>1, <1>3, <1>4 DEF ReaderOK
<1>8. CASE ReadFull
  <2>1. PICK j \in 1..Len(phys) : Physical(j, "kFullType") /\ Return(Fragment(j), Offset)
    BY <1>8 DEF ReadFull
  <2>2. PICK g : g = Longer(f, phys[j].rec)
    OBVIOUS
  <2>3. g \in [DOMAIN out' -> DOMAIN recs'] /\ Track(g, h)'
    BY <2>1, <2>2, <1>0, <1>2, <1>3, FullTrack
  <2> QED BY <2>3, <1>3, <1>4 DEF ReaderOK
<1>9. CASE ReadFirst
  <2>1. PICK j \in 1..Len(phys) : Physical(j, "kFirstType") /\ scratch' = Fragment(j)
    BY <1>9 DEF ReadFirst
  <2>2. UNCHANGED <<out, pc>> /\ Reading
    BY <1>9, <2>1 DEF ReadFirst, Physical, HeaderRead, Reading
  <2>3. Track(f, j)'
    BY <2>1, <2>2, <1>0, <1>3, TrackFirst
  <2>4. j \in 0..Len(phys')
    BY <1>4
  <2> QED BY <2>2, <2>3, <2>4, <1>3, <1>4 DEF ReaderOK
<1>10. CASE ReadMiddle /\ in_fragmented_record
  <2>1. PICK j \in 1..Len(phys) : Physical(j, "kMiddleType") /\ scratch' = scratch \o Fragment(j)
    BY <1>10 DEF ReadMiddle
  <2>2. UNCHANGED <<out, pc>> /\ pc = "read"
    BY <1>10, <2>1 DEF ReadMiddle, Physical, HeaderRead
  <2>3. Track(f, j)'
    BY <2>1, <2>2, <1>0, <1>3, <1>10, TrackMiddle
  <2>4. j \in 0..Len(phys')
    BY <1>4
  <2> QED BY <2>2, <2>3, <2>4, <1>3, <1>4 DEF ReaderOK
<1>11. CASE ReadLast /\ in_fragmented_record
  <2>1. PICK j \in 1..Len(phys) :
          Physical(j, "kLastType") /\ Return(scratch \o Fragment(j), prospective)
    BY <1>11 DEF ReadLast
  <2>2. PICK g : g = Longer(f, phys[j].rec)
    OBVIOUS
  <2>3. g \in [DOMAIN out' -> DOMAIN recs'] /\ Track(g, h)'
    BY <2>1, <2>2, <1>0, <1>2, <1>3, <1>11, LastTrack
  <2> QED BY <2>3, <1>3, <1>4 DEF ReaderOK
<1>12. CASE Finished
  <2>1. pc = "done" /\ UNCHANGED vars
    BY <1>12 DEF Finished
  <2>2. Track(f, h)'
    BY <2>1, <1>3 DEF Track, Returned, Content, Survivors, Reading, vars, wvars, rvars
  <2> QED BY <2>1, <2>2, <1>3 DEF ReaderOK, vars, wvars, rvars
<1> QED BY <1>6, <1>7, <1>8, <1>9, <1>10, <1>11, <1>12 DEF Read, Pass

LEMMA LogStep ==
    ASSUME LogInv, [Next]_vars
    PROVE  LogInv'
<1>1. CASE Next
  BY <1>1, WriteSafe, ReadSafe DEF Next, Write
<1>2. CASE UNCHANGED vars
  <2>1. FileInv /\ TypeOK /\ BufferBytes /\ BufferPlace
    BY DEF LogInv, FileInv, BufferOK
  <2>2. WriterTypes' /\ ReaderTypes'
    BY <2>1, <1>2, TypeHalves DEF WriterTypes, ReaderTypes, vars, wvars, rvars
  <2>3. TypeOK'
    BY <2>2, TypeHalvesNext
  <2>4. FileInv'
    BY <2>1, <2>3, <1>2, FileFrame DEF vars, wvars, FileInv, WriterOK
  <2>5. BufferBytes' /\ BufferPlace'
    BY <2>1, <1>2, BufferBytesKeep DEF BufferPlace, vars, wvars, rvars
  <2>6. PICK h \in 0..Len(phys), f \in [DOMAIN out -> DOMAIN recs] : Track(f, h)
    BY DEF LogInv, ReaderOK
  <2>7. Track(f, h)'
    BY <2>6, <1>2 DEF Track, Returned, Content, Survivors, Reading, Ahead, Fragmented, Offset, Size,
                      vars, wvars, rvars
  <2>8. ReaderOK'
    BY <2>6, <2>7, <1>2 DEF ReaderOK, vars, wvars, rvars
  <2> QED BY <2>4, <2>5, <2>8 DEF LogInv, BufferOK
<1> QED BY <1>1, <1>2

(* The invariant of every log file, also of one that failing writes, crashes *)
(* and reused logs have left (log_writer.cpp, log_reader.cpp).               *)
THEOREM LogInvariant == Spec => []LogInv
<1>1. Init => LogInv
  BY LogInit
<1>2. LogInv /\ [Next]_vars => LogInv'
  BY LogStep
<1> QED BY <1>1, <1>2, PTL DEF Spec

(* Whatever file operations fail, log::Reader::ReadRecord returns only      *)
(* records that were given to log::Writer::AddRecord, each whole, none      *)
(* twice, in the order they were added.                                     *)
THEOREM LogNothingInvented == Spec => []NothingInvented
<1>1. LogInv => NothingInvented
  BY DEF LogInv, ReaderOK, Track, NothingInvented
<1> QED BY <1>1, LogInvariant, PTL

-----------------------------------------------------------------------------
(* Every step of the Reader lessens what is before it. *)

Remaining(e) == IF e < Len(file) THEN Len(file) - e ELSE 0

LEMMA Fewer ==
    ASSUME TypeOK, TypeOK', UNCHANGED <<file, end_of_buffer_offset, eof>>,
           pc = "read", Len(buffer') < Len(buffer)
    PROVE  Unread' < Unread
<1>1. Len(file) \in Nat /\ end_of_buffer_offset \in Nat /\ Len(buffer) \in Nat
  BY Types
<1>2. Len(buffer') \in Nat
  <2>1. buffer' \in Seq(Nat \X Nat)
    BY TypeHalvesNext DEF ReaderTypes
  <2> QED BY ONLY <2>1
<1> DEFINE a == IF end_of_buffer_offset < Len(file) THEN Len(file) - end_of_buffer_offset ELSE 0
           b == IF eof THEN 0 ELSE 1
           c == IF pc' = "call" THEN 1 ELSE 0
<1>3. a \in Nat /\ b \in Nat /\ c \in {0, 1}
  BY <1>1
<1>4. Unread = 3 * a + 2 * Len(buffer) + b + 0 /\ Unread' = 3 * a + 2 * Len(buffer') + b + c
  BY DEF Unread
<1> HIDE DEF a, b, c
<1> QED BY <1>1, <1>2, <1>3, <1>4

LEMMA ReaderLessens ==
    ASSUME LogInv, [Next]_vars, vars' # vars, pc = "call" \/ pc = "read"
    PROVE  pc' = "done" \/ Unread' < Unread
<1>0. TypeOK /\ BufferBytes /\ BufferPlace
  BY DEF LogInv, FileInv, BufferOK
<1>1. TypeOK'
  BY LogStep DEF LogInv, FileInv
<1>2. /\ Len(file) \in Nat /\ end_of_buffer_offset \in Nat /\ Len(buffer) \in Nat
  BY <1>0, Types
<1>3. ASSUME pc = "read", NEW j \in 1..Len(phys), Intact(j), buffer' = Rest(j),
             UNCHANGED <<file, end_of_buffer_offset, eof>>
      PROVE  Unread' < Unread
  <2>1. Len(buffer') = Len(buffer) - Size(j) /\ Size(j) \in Nat /\ Size(j) >= 1
    BY <1>0, <1>3, Consumed
  <2>2. Len(buffer') < Len(buffer)
    BY <2>1, <1>2
  <2> QED BY <2>2, <1>0, <1>1, <1>3, Fewer
<1>4. CASE Resync \/ ReadFull \/ ReadFirst \/ ReadMiddle \/ ReadLast
  <2>1. PICK j, type : j \in 1..Len(phys) /\ Physical(j, type)
    BY <1>4 DEF Resync, ReadFull, ReadFirst, ReadMiddle, ReadLast
  <2> QED BY <2>1, <1>3 DEF Physical, HeaderRead, wvars
<1>5. CASE ReadEarly
  BY <1>3, <1>5 DEF ReadEarly, BadRecord, readerFrame, HeaderRead, wvars
<1>6. CASE ReadBad
  <2>1. /\ pc = "read" /\ Len(buffer) >= kHeaderSize /\ buffer' = <<>>
        /\ UNCHANGED <<file, end_of_buffer_offset, eof>>
    BY <1>6 DEF ReadBad, BadRecord, readerFrame, HeaderRead, wvars
  <2>2. Len(buffer') = 0
    BY <2>1
  <2>3. Len(buffer') < Len(buffer)
    BY ONLY <2>1, <2>2, <1>2, LogAssumption
  <2> QED BY <2>1, <2>3, <1>0, <1>1, Fewer
<1>7. CASE ReadEof \/ SkipFails \/ ReadBlockFails
  BY <1>7 DEF ReadEof, SkipFails, ReadBlockFails
<1>8. CASE ReadRecord
  <2> DEFINE a == Remaining(end_of_buffer_offset)
             d == Remaining(end_of_buffer_offset')
             b == IF eof THEN 0 ELSE 1
  <2>1. /\ pc = "call" /\ pc' = "read" /\ UNCHANGED <<file, buffer, eof>>
        /\ end_of_buffer_offset' = IF last_record_offset < initial_offset
                                   THEN BlockStart ELSE end_of_buffer_offset
    BY <1>8 DEF ReadRecord, wvars
  <2>2. end_of_buffer_offset <= end_of_buffer_offset' /\ end_of_buffer_offset' \in Nat
    BY <2>1, <1>0, <1>2, Places DEF BufferPlace
  <2>3. a \in Nat /\ d \in Nat /\ d <= a /\ b \in Nat
    BY <2>2, <1>2 DEF Remaining
  <2>4. Unread = 3 * a + 2 * Len(buffer) + b + 1 /\ Unread' = 3 * d + 2 * Len(buffer) + b + 0
    BY <2>1 DEF Unread, Remaining
  <2> HIDE DEF a, b, d
  <2> QED BY <2>3, <2>4, <1>2
<1>9. CASE ReadBlock
  <2> DEFINE a == Remaining(end_of_buffer_offset)
             d == Remaining(end_of_buffer_offset')
             b == IF eof' THEN 0 ELSE 1
             n == Len(buffer')
  <2>1. /\ pc = "read" /\ pc' = "read" /\ file' = file /\ ~eof
    BY <1>9 DEF ReadBlock, wvars
  <2>2. /\ n \in Nat /\ end_of_buffer_offset' = end_of_buffer_offset + n
        /\ end_of_buffer_offset < Len(file) => end_of_buffer_offset' <= Len(file) /\ n >= 1
        /\ end_of_buffer_offset >= Len(file) => n = 0
        /\ eof' = (n < kBlockSize)
    BY <1>0, <1>9, BlockRead
  <2>3. Unread = 3 * a + 2 * Len(buffer) + 1 + 0 /\ Unread' = 3 * d + 2 * n + b + 0
    BY <2>1 DEF Unread, Remaining
  <2> HIDE DEF n
  <2>4. CASE end_of_buffer_offset < Len(file)
    <3>1. a \in Nat /\ d = a - n /\ n >= 1 /\ d \in Nat /\ b <= 1 /\ b \in Nat
      BY <2>2, <2>4, <1>2 DEF Remaining
    <3> HIDE DEF a, b, d
    <3> QED BY <3>1, <2>2, <2>3, <1>2
  <2>5. CASE ~(end_of_buffer_offset < Len(file))
    <3>1. n = 0
      BY <2>2, <2>5, <1>2
    <3>2a. n < kBlockSize
      BY ONLY <3>1, LogAssumption
    <3>2b. eof' = (n < kBlockSize)
      BY <2>2
    <3>2. eof'
      BY ONLY <3>2a, <3>2b
    <3>3. a = 0 /\ d = 0 /\ b = 0
      BY <3>1, <3>2, <2>2, <2>5, <1>2 DEF Remaining
    <3> HIDE DEF a, b, d
    <3> QED BY <3>1, <3>3, <2>3, <1>2
  <2> QED BY <2>4, <2>5
<1>10. CASE AddRecord \/ Emit \/ EmitFails \/ TrailerLost \/ Tear \/ Reuse \/ StartReader \/ Finished
  BY <1>10 DEF AddRecord, Emit, EmitFails, TrailerLost, Tear, Reuse, StartReader, Finished
<1> QED BY <1>4, <1>5, <1>6, <1>7, <1>8, <1>9, <1>10 DEF Next, Read

(* The loops of log::Reader::ReadRecord end: every step lessens what is     *)
(* before the Reader, or is the last.                                       *)
THEOREM LogReaderAdvances == Spec => ReaderAdvances
<1>1. LogInv /\ [Next]_vars => [(pc = "call" \/ pc = "read") => (pc' = "done" \/ Unread' < Unread)]_vars
  BY ReaderLessens
<1> QED BY <1>1, LogInvariant, PTL DEF Spec, ReaderAdvances
=============================================================================
