---------------------------- MODULE LogReadProofs ----------------------------
(***************************************************************************)
(* The log format without failing file operations and without reused logs: *)
(* of a file that at most a crash has cut the Reader returns every record  *)
(* that is whole and starts at or after initial_offset, for every block    *)
(* size, header size, record length and initial offset.                    *)
(*                                                                         *)
(* The invariant is a picture of the file, of where in a block the Writer  *)
(* and the Reader stand, and of what the Reader owes for the part of the   *)
(* file behind it.                                                         *)
(***************************************************************************)
EXTENDS LogFormatProofs

Clean == fails = 0 /\ ~reused

(* The place of an offset in its block. *)
InBlock(x) == x % kBlockSize

(* Byte x is the last one of a physical record. *)
LastByte(x) == file[x][1] > 0 /\ file[x][2] = Size(file[x][1])

(* Every block begins with a physical record. *)
BlocksBegin == \A x \in DOMAIN file : InBlock(x - 1) = 0 => file[x][2] = 1

(* A physical record crosses no block, its bytes follow each other, and    *)
(* less than a header of zeros is between it and the one before.           *)
RecordsFit ==
    \A x \in DOMAIN file : file[x][2] = 1 =>
        LET j == file[x][1]
        IN  /\ InBlock(x - 1) + Size(j) <= kBlockSize
            /\ \A p \in 1..Size(j) : x + p - 1 \in DOMAIN file => file[x + p - 1] = <<j, p>>
            /\ j > 1 => \E y \in DOMAIN file :
                           y < x /\ x - y <= kHeaderSize /\ file[y] = <<j - 1, Size(j - 1)>>

(* The next one follows at once where there is room for a header. *)
NoGap ==
    \A x \in DOMAIN file :
        LastByte(x) /\ x + 1 \in DOMAIN file /\ InBlock(x) + kHeaderSize <= kBlockSize
            => file[x + 1][2] = 1

(* Every record but the last is complete. *)
ChainOK ==
    \A j \in 1..(Len(phys) - 1) : phys[j].type \in Open => phys[j + 1].type \in Continues

(* The Writer knows where in a block the file ends, and ends it with a     *)
(* whole physical record.                                                  *)
WriterAt ==
    pc = "write" =>
        /\ InBlock(Len(file)) = InBlock(block_offset)
        /\ Len(phys) = 0 => Len(file) = 0
        /\ Len(phys) > 0 => Len(file) > 0 /\ file[Len(file)] = <<Len(phys), Size(Len(phys))>>
        /\ left = NULL => Len(phys) = 0 \/ phys[Len(phys)].type \in Ends
        /\ left # NULL /\ Len(phys) > 0 /\ phys[Len(phys)].type \in Open =>
              phys[Len(phys)].rec = Current

Layout == BlocksBegin /\ RecordsFit /\ NoGap /\ ChainOK

(* The Reader stands between physical records, in the block in its buffer. *)
BlockOK ==
    /\ InBlock(Offset) = 0 \/ (Offset \in DOMAIN file /\ LastByte(Offset))
    /\ InBlock(Offset) + Len(buffer) <= kBlockSize
    /\ ~eof => InBlock(end_of_buffer_offset) = 0
    /\ eof => end_of_buffer_offset >= Len(file)

(* All survivors that end before this point were returned, and one that    *)
(* has been read in part is in scratch.                                    *)
Complete(f, h) ==
    /\ \A r \in Survivors : recs[r].end <= Offset \/ pc = "done" => \E n \in DOMAIN out : f[n] = r
    /\ Reading =>
          \A x \in DOMAIN file :
             /\ x <= Offset /\ Offset - x < kHeaderSize
             /\ LastByte(x) /\ phys[file[x][1]].type \in Open
             /\ recs[phys[file[x][1]].rec].start >= initial_offset
             => pc = "read" /\ in_fragmented_record /\ h = file[x][1]

AllOK ==
    \E h \in 0..Len(phys), f \in [DOMAIN out -> DOMAIN recs] : Track(f, h) /\ Complete(f, h)

CleanInv ==
    Clean => /\ Layout /\ WriterAt
             /\ pc # "done" => BlockOK
             /\ AllOK /\ TornTailIgnored

-----------------------------------------------------------------------------
(* Places in a block. *)

USE LogAssumption

LEMMA BlockPositive == kBlockSize \in Nat \ {0} /\ kHeaderSize \in Nat /\ kHeaderSize >= 1
OBVIOUS

LEMMA InBlockRange ==
    ASSUME NEW x \in Nat
    PROVE  InBlock(x) \in Nat /\ InBlock(x) < kBlockSize /\ InBlock(x) <= x
BY ONLY BlockPositive, x \in Nat DEF InBlock

LEMMA InBlockQuotient ==
    ASSUME NEW x \in Nat
    PROVE  \E q \in Nat : x = kBlockSize * q + InBlock(x)
<1>1. x = kBlockSize * (x \div kBlockSize) + (x % kBlockSize) /\ x \div kBlockSize \in Nat
  BY ONLY BlockPositive, x \in Nat
<1> QED BY ONLY <1>1 DEF InBlock

LEMMA InBlockUnique ==
    ASSUME NEW q \in Nat, NEW r \in Nat, r < kBlockSize
    PROVE  InBlock(kBlockSize * q + r) = r
BY ONLY BlockPositive, q \in Nat, r \in Nat, r < kBlockSize DEF InBlock

LEMMA InBlockMultiple ==
    ASSUME NEW q \in Nat
    PROVE  InBlock(kBlockSize * q) = 0
BY ONLY BlockPositive, q \in Nat DEF InBlock

LEMMA InBlockAdd ==
    ASSUME NEW x \in Nat, NEW n \in Nat, InBlock(x) + n < kBlockSize
    PROVE  InBlock(x + n) = InBlock(x) + n
<1>1. PICK q \in Nat : x = kBlockSize * q + InBlock(x)
  BY InBlockQuotient
<1>2. InBlock(x) \in Nat
  BY InBlockRange
<1> DEFINE r == InBlock(x) + n
<1>3. x + n = kBlockSize * q + r /\ r \in Nat /\ r < kBlockSize
  BY <1>1, <1>2, BlockPositive
<1> HIDE DEF r
<1>4. InBlock(x + n) = r
  BY <1>3, InBlockUnique
<1> QED BY <1>4 DEF r

LEMMA InBlockFull ==
    ASSUME NEW x \in Nat, NEW n \in Nat, InBlock(x) + n = kBlockSize
    PROVE  InBlock(x + n) = 0
<1>1. PICK q \in Nat : x = kBlockSize * q + InBlock(x)
  BY InBlockQuotient
<1>2. InBlock(x) \in Nat
  BY InBlockRange
<1> DEFINE m == q + 1
<1>3. x + n = kBlockSize * m /\ m \in Nat
  BY <1>1, <1>2, BlockPositive
<1> HIDE DEF m
<1> QED BY <1>3, InBlockMultiple

LEMMA InBlockStart ==
    ASSUME NEW x \in Nat
    PROVE  InBlock(x - InBlock(x)) = 0 /\ x - InBlock(x) \in Nat
<1>1. PICK q \in Nat : x = kBlockSize * q + InBlock(x)
  BY InBlockQuotient
<1>2. InBlock(x) \in Nat /\ InBlock(x) <= x
  BY InBlockRange
<1>3. x - InBlock(x) = kBlockSize * q /\ x - InBlock(x) \in Nat
  BY <1>1, <1>2, BlockPositive
<1>4. InBlock(kBlockSize * q) = 0
  BY InBlockMultiple
<1> QED BY ONLY <1>3, <1>4

LEMMA InBlockSmall ==
    /\ InBlock(0) = 0 /\ InBlock(kBlockSize) = 0
    /\ \A x \in Nat : x < kBlockSize => InBlock(x) = x
<1>1. 0 = kBlockSize * 0 + 0 /\ kBlockSize = kBlockSize * 1 + 0 /\ 0 < kBlockSize
  BY BlockPositive
<1>2. ASSUME NEW x \in Nat, x < kBlockSize PROVE InBlock(x) = x
  <2>1. x = kBlockSize * 0 + x
    BY BlockPositive
  <2> QED BY <2>1, <1>2, InBlockUnique
<1> QED BY <1>1, <1>2, InBlockUnique

-----------------------------------------------------------------------------
(* Places in the file. *)

LEMMA LastByteIs ==
    ASSUME TypeOK, BytesOK, NEW x \in 1..Len(file), LastByte(x)
    PROVE  /\ file[x][1] \in 1..Len(phys) /\ file[x] = <<file[x][1], Size(file[x][1])>>
           /\ Size(file[x][1]) \in Nat /\ Size(file[x][1]) >= kHeaderSize /\ Size(file[x][1]) >= 1
           /\ \A p \in 1..Size(file[x][1]) :
                 /\ x - Size(file[x][1]) + p \in 1..Len(file)
                 /\ file[x - Size(file[x][1]) + p] = <<file[x][1], p>>
<1>1. file[x][1] > 0 /\ file[x][2] = Size(file[x][1])
  BY DEF LastByte
<1>2. /\ file[x][1] \in 1..Len(phys)
      /\ \A p \in 1..file[x][2] :
            x - file[x][2] + p \in 1..Len(file) /\ file[x - file[x][2] + p] = <<file[x][1], p>>
  BY <1>1, ByteOf
<1>3. file[x] = <<file[x][1], file[x][2]>>
  BY Types
<1>4. /\ Size(file[x][1]) \in Nat /\ Size(file[x][1]) >= kHeaderSize /\ Size(file[x][1]) >= 1
  BY <1>2, Types
<1> QED BY ONLY <1>1, <1>2, <1>3, <1>4

LEMMA IsLastByte ==
    ASSUME NEW x, NEW j \in Nat, j > 0, file[x] = <<j, Size(j)>>
    PROVE  LastByte(x) /\ file[x][1] = j
<1>1. file[x][1] = j /\ file[x][2] = Size(j)
  OBVIOUS
<1> QED BY ONLY <1>1, j > 0 DEF LastByte

(* Between two last bytes lies a header at least. *)
LEMMA LastBytesApart ==
    ASSUME TypeOK, BytesOK, NEW q \in 1..Len(file), LastByte(q), NEW y \in 1..Len(file), LastByte(y), q < y
    PROVE  y - q >= kHeaderSize
<1> DEFINE i == file[y][1]
           s == Size(file[y][1])
<1>1. /\ s \in Nat /\ s >= kHeaderSize /\ Len(file) \in Nat
      /\ \A p \in 1..s : file[y - s + p] = <<i, p>>
  BY LastByteIs, Types
<1>2. file[q][2] = Size(file[q][1])
  BY DEF LastByte
<1> HIDE DEF s, i
<1>3. CASE y - q >= s
  BY ONLY <1>1, <1>3, q \in 1..Len(file), y \in 1..Len(file), BlockPositive
<1>4. CASE ~(y - q >= s)
  <2> DEFINE p == s - (y - q)
  <2>1. p \in 1..s /\ y - s + p = q /\ p < s
    BY ONLY <1>1, <1>4, q \in 1..Len(file), y \in 1..Len(file), q < y
  <2> HIDE DEF p
  <2>2. file[q] = <<i, p>>
    BY ONLY <2>1, <1>1
  <2>3. file[q][1] = i /\ file[q][2] = p
    BY ONLY <2>2
  <2>4. p = s
    BY ONLY <2>3, <1>2 DEF s, i
  <2> QED BY ONLY <2>1, <2>4, <1>1
<1> QED BY <1>3, <1>4

(* Where the Reader stands no physical record goes on. *)
LEMMA NoStraddle ==
    ASSUME TypeOK, BytesOK, BufferBytes, BlocksBegin, BlockOK,
           NEW y \in 1..Len(file), LastByte(y), y > Offset
    PROVE  y >= Offset + kHeaderSize
<1> DEFINE i == file[y][1]
           s == Size(file[y][1])
<1>1. /\ s \in Nat /\ s >= kHeaderSize /\ Len(file) \in Nat
      /\ \A p \in 1..s : y - s + p \in 1..Len(file) /\ file[y - s + p] = <<i, p>>
  BY LastByteIs, Types
<1>2. Offset \in Nat /\ DOMAIN file = 1..Len(file)
  BY Places, Types
<1> HIDE DEF s, i
<1>3. CASE y - s >= Offset
  BY ONLY <1>1, <1>2, <1>3, y \in 1..Len(file), BlockPositive
<1>4. CASE ~(y - s >= Offset) /\ InBlock(Offset) = 0
  <2> DEFINE p == Offset + 1 - (y - s)
             x == Offset + 1
  <2>1. p \in 1..s /\ y - s + p = x /\ p > 1 /\ x - 1 = Offset
    BY ONLY <1>1, <1>2, <1>4, y \in 1..Len(file), y > Offset
  <2> HIDE DEF p, x
  <2>2. x \in 1..Len(file) /\ file[x] = <<i, p>>
    BY ONLY <2>1, <1>1
  <2>3. file[x][2] = p
    BY ONLY <2>2
  <2>4. InBlock(x - 1) = 0
    BY ONLY <2>1, <1>4
  <2>5. file[x][2] = 1
    BY ONLY <2>2, <2>4, <1>2, BlocksBegin DEF BlocksBegin
  <2> QED BY ONLY <2>1, <2>3, <2>5, <1>1
<1>5. CASE ~(y - s >= Offset) /\ InBlock(Offset) # 0
  <2>1. Offset \in 1..Len(file) /\ LastByte(Offset)
    BY <1>2, <1>5 DEF BlockOK
  <2> QED BY <2>1, LastBytesApart, <1>2
<1> QED BY <1>3, <1>4, <1>5

(* A physical record at the front of the buffer is one that was written. *)
LEMMA Front ==
    ASSUME TypeOK, BytesOK, BufferBytes, BlocksBegin, RecordsFit, NoGap, BlockOK, HeaderRead
    PROVE  \E j \in 1..Len(phys) :
              /\ HeaderOf(j) /\ file[Offset + 1] = <<j, 1>> /\ Offset + 1 \in 1..Len(file)
              /\ InBlock(Offset) + Size(j) <= kBlockSize
              /\ \A p \in 1..Size(j) : Offset + p \in 1..Len(file) => file[Offset + p] = <<j, p>>
              /\ j > 1 => \E y \in 1..Len(file) :
                             y <= Offset /\ Offset - y < kHeaderSize /\ file[y] = <<j - 1, Size(j - 1)>>
              /\ Intact(j) \/ (eof /\ Size(j) > Len(buffer))
<1>1. /\ Offset \in Nat /\ DOMAIN file = 1..Len(file) /\ Len(file) \in Nat /\ Len(buffer) \in Nat
      /\ Len(buffer) >= kHeaderSize /\ end_of_buffer_offset = Offset + Len(buffer)
      /\ InBlock(Offset) \in Nat /\ InBlock(Offset) < kBlockSize
  BY Places, Types, InBlockRange DEF HeaderRead
<1>2. \A p \in 1..Len(buffer) : Offset + p \in 1..Len(file) /\ buffer[p] = file[Offset + p]
  BY ONLY <1>1, BufferBytes DEF BufferBytes
<1>3. InBlock(Offset) + Len(buffer) <= kBlockSize
  BY DEF BlockOK
<1> DEFINE x == Offset + 1
<1>4. /\ 1 \in 1..Len(buffer) /\ x - 1 = Offset /\ x \in Nat
      /\ InBlock(Offset) + kHeaderSize <= kBlockSize
  BY ONLY <1>1, <1>3, BlockPositive
<1>5. x \in 1..Len(file)
  BY ONLY <1>2, <1>4
<1>6. file[x][2] = 1
  <2>1. CASE InBlock(Offset) = 0
    <3>1. InBlock(x - 1) = 0
      BY ONLY <2>1, <1>4
    <3> HIDE DEF x
    <3> QED BY ONLY <3>1, <1>1, <1>5, BlocksBegin DEF BlocksBegin
  <2>2. CASE InBlock(Offset) # 0
    <3>1. Offset \in DOMAIN file /\ LastByte(Offset)
      BY <2>2 DEF BlockOK
    <3> QED BY ONLY <3>1, <1>1, <1>4, <1>5, NoGap DEF NoGap
  <2> QED BY <2>1, <2>2
<1> HIDE DEF x
<1> DEFINE j == file[x][1]
<1>7. file[x] = <<j, 1>> /\ j \in Nat /\ j > 0
  <2>1. file[x][1] \in Nat /\ file[x] = <<file[x][1], file[x][2]>>
    BY <1>5, Types
  <2>2. file[x] # Zero
    <3>1. Zero[2] = 0
      BY DEF Zero
    <3> QED BY ONLY <3>1, <1>6
  <2>3. file[x][1] \in 1..Len(phys)
    BY ONLY <2>2, <1>1, <1>5, BytesOK DEF BytesOK
  <2>4. Len(phys) \in Nat
    BY Types
  <2> QED BY ONLY <2>1, <2>3, <2>4, <1>6
<1>8. j \in 1..Len(phys)
  BY <1>5, <1>7, ByteOf
<1>9. Size(j) \in Nat /\ Size(j) >= kHeaderSize
  BY <1>8, Types
<1>10. /\ InBlock(x - 1) + Size(j) <= kBlockSize
       /\ \A p \in 1..Size(j) : x + p - 1 \in 1..Len(file) => file[x + p - 1] = <<j, p>>
       /\ j > 1 => \E y \in 1..Len(file) :
                      y < x /\ x - y <= kHeaderSize /\ file[y] = <<j - 1, Size(j - 1)>>
  BY ONLY <1>1, <1>5, <1>6, RecordsFit DEF RecordsFit
<1> HIDE DEF j
<1>11. InBlock(Offset) + Size(j) <= kBlockSize
  BY ONLY <1>4, <1>10
<1>12. ASSUME NEW p \in 1..Size(j), Offset + p \in 1..Len(file)
       PROVE  file[Offset + p] = <<j, p>>
  <2>1. x + p - 1 = Offset + p
    BY ONLY <1>1, <1>9, p \in 1..Size(j) DEF x
  <2> QED BY ONLY <2>1, <1>10, <1>12, p \in 1..Size(j)
<1>13. ASSUME j > 1
       PROVE  \E y \in 1..Len(file) :
                 y <= Offset /\ Offset - y < kHeaderSize /\ file[y] = <<j - 1, Size(j - 1)>>
  <2>1. PICK y \in 1..Len(file) : y < x /\ x - y <= kHeaderSize /\ file[y] = <<j - 1, Size(j - 1)>>
    BY ONLY <1>10, <1>13
  <2>2. y <= Offset /\ Offset - y < kHeaderSize
    BY ONLY <2>1, <1>1, BlockPositive DEF x
  <2> QED BY ONLY <2>1, <2>2
<1>14. ASSUME NEW p \in 1..Size(j), p <= Len(buffer)
       PROVE  buffer[p] = <<j, p>>
  <2>1. p \in 1..Len(buffer)
    BY ONLY <1>1, <1>9, <1>14, p \in 1..Size(j)
  <2> QED BY ONLY <2>1, <1>2, <1>12, p \in 1..Size(j)
<1>15. HeaderOf(j)
  <2>1. ASSUME NEW p \in 1..kHeaderSize PROVE p \in 1..Size(j) /\ p <= Len(buffer)
    BY ONLY <1>1, <1>9, p \in 1..kHeaderSize, BlockPositive
  <2> QED BY <2>1, <1>14 DEF HeaderOf
<1>16. Intact(j) \/ (eof /\ Size(j) > Len(buffer))
  <2>1. CASE Size(j) <= Len(buffer)
    <3>1. \A p \in 1..Size(j) : p <= Len(buffer)
      BY ONLY <2>1, <1>1, <1>9
    <3> QED BY <3>1, <2>1, <1>14 DEF Intact
  <2>2. CASE ~(Size(j) <= Len(buffer))
    <3>1. Size(j) > Len(buffer) /\ InBlock(Offset) + Len(buffer) < kBlockSize
      BY ONLY <2>2, <1>1, <1>9, <1>11, BlockPositive
    <3>2. InBlock(end_of_buffer_offset) = InBlock(Offset) + Len(buffer)
      BY ONLY <3>1, <1>1, InBlockAdd
    <3>3. InBlock(end_of_buffer_offset) # 0
      BY ONLY <3>2, <1>1, BlockPositive
    <3> QED BY <3>1, <3>3 DEF BlockOK
  <2> QED BY <2>1, <2>2
<1>17. file[Offset + 1] = <<j, 1>> /\ Offset + 1 \in 1..Len(file)
  BY ONLY <1>5, <1>7 DEF x, j
<1> QED BY ONLY <1>8, <1>11, <1>12, <1>13, <1>15, <1>16, <1>17

LEMMA HeaderUnique ==
    ASSUME NEW i \in Nat, NEW j \in Nat, HeaderOf(i), HeaderOf(j)
    PROVE  i = j
<1>1. 1 \in 1..kHeaderSize
  BY ONLY BlockPositive
<1>2. buffer[1] = <<i, 1>> /\ buffer[1] = <<j, 1>>
  BY ONLY <1>1, HeaderOf(i), HeaderOf(j) DEF HeaderOf
<1> QED BY ONLY <1>2

LEMMA IntactHeader ==
    ASSUME TypeOK, NEW j \in 1..Len(phys), Intact(j)
    PROVE  HeaderOf(j)
<1>1. Size(j) \in Nat /\ Size(j) >= kHeaderSize
  BY Types
<1>2. \A p \in 1..kHeaderSize : p \in 1..Size(j)
  BY ONLY <1>1, BlockPositive
<1> QED BY ONLY <1>2, Intact(j) DEF Intact, HeaderOf

(* No physical record is bad. *)
LEMMA NothingBad ==
    ASSUME TypeOK, BytesOK, BufferBytes, BlocksBegin, RecordsFit, NoGap, BlockOK, HeaderRead
    PROVE  ~Garbled /\ ~ZeroHeader /\ ~BadChecksum /\ (TooLong => eof)
<1>1. PICK j \in 1..Len(phys) : HeaderOf(j) /\ (Intact(j) \/ (eof /\ Size(j) > Len(buffer)))
  BY Front
<1>2. ~Garbled
  BY <1>1 DEF Garbled
<1>3. ~ZeroHeader
  <2>1. 1 \in 1..kHeaderSize
    BY ONLY BlockPositive
  <2>2. buffer[1] = <<j, 1>>
    BY ONLY <2>1, <1>1 DEF HeaderOf
  <2>3. buffer[1][2] = 1 /\ Zero[2] = 0
    BY ONLY <2>2 DEF Zero
  <2> QED BY ONLY <2>1, <2>3 DEF ZeroHeader
<1>4. ASSUME NEW i \in 1..Len(phys), HeaderOf(i) PROVE i = j
  BY <1>1, <1>4, HeaderUnique, Types
<1>5. Size(j) \in Nat /\ Len(buffer) \in Nat
  BY Types
<1>6. ~BadChecksum
  <2> SUFFICES ASSUME NEW i \in 1..Len(phys), HeaderOf(i), Size(i) <= Len(buffer), ~Intact(i)
               PROVE  FALSE
    BY DEF BadChecksum
  <2>1. i = j
    BY <1>4
  <2> QED BY ONLY <2>1, <1>1, <1>5, Size(i) <= Len(buffer), ~Intact(i)
<1>7. TooLong => eof
  <2> SUFFICES ASSUME NEW i \in 1..Len(phys), HeaderOf(i), Size(i) > Len(buffer)
               PROVE  eof
    BY DEF TooLong
  <2>1. i = j
    BY <1>4
  <2>2. ~Intact(j)
    BY ONLY <2>1, <1>5, Size(i) > Len(buffer) DEF Intact
  <2> QED BY ONLY <2>2, <1>1
<1> QED BY <1>2, <1>3, <1>6, <1>7

(* A whole physical record in front of the Reader, and the one before. *)
LEMMA FrontIntact ==
    ASSUME TypeOK, BytesOK, BufferBytes, BlocksBegin, RecordsFit, NoGap, BlockOK, HeaderRead,
           NEW j \in 1..Len(phys), Intact(j)
    PROVE  /\ InBlock(Offset) + Size(j) <= kBlockSize
           /\ j > 1 => \E y \in 1..Len(file) :
                          y <= Offset /\ Offset - y < kHeaderSize /\ file[y] = <<j - 1, Size(j - 1)>>
<1>1. PICK i \in 1..Len(phys) :
         /\ HeaderOf(i) /\ InBlock(Offset) + Size(i) <= kBlockSize
         /\ i > 1 => \E y \in 1..Len(file) :
                        y <= Offset /\ Offset - y < kHeaderSize /\ file[y] = <<i - 1, Size(i - 1)>>
  BY Front
<1>2. i = j
  BY <1>1, IntactHeader, HeaderUnique, Types
<1> QED BY ONLY <1>1, <1>2

(* The Reader stays between physical records. *)
LEMMA BlockConsume ==
    ASSUME TypeOK, BytesOK, BufferBytes, BlocksBegin, RecordsFit, NoGap, BlockOK, HeaderRead,
           NEW j \in 1..Len(phys), Intact(j), buffer' = Rest(j),
           UNCHANGED <<file, phys, end_of_buffer_offset, eof>>
    PROVE  BlockOK'
<1>1. /\ Offset' = Offset + Size(j) /\ Len(buffer') = Len(buffer) - Size(j)
  BY BufferBytesConsume
<1>2. /\ Size(j) \in Nat /\ Size(j) <= Len(buffer) /\ Offset + Size(j) \in 1..Len(file)
      /\ file[Offset + Size(j)] = <<j, Size(j)>>
  BY Consumed
<1>3. /\ Offset \in Nat /\ Len(buffer) \in Nat /\ InBlock(Offset) \in Nat
      /\ DOMAIN file = 1..Len(file) /\ j \in Nat /\ j > 0
  <2>1. Offset \in Nat /\ Len(buffer) \in Nat /\ DOMAIN file = 1..Len(file) /\ Len(phys) \in Nat
    BY Places, Types
  <2>2. InBlock(Offset) \in Nat
    BY ONLY <2>1, InBlockRange
  <2> QED BY ONLY <2>1, <2>2, j \in 1..Len(phys)
<1>4. InBlock(Offset) + Len(buffer) <= kBlockSize /\ InBlock(Offset) + Size(j) <= kBlockSize
  BY FrontIntact DEF BlockOK
<1>5. (~eof => InBlock(end_of_buffer_offset) = 0) /\ (eof => end_of_buffer_offset >= Len(file))
  BY DEF BlockOK
<1>6. (Offset \in DOMAIN file /\ LastByte(Offset))'
  <2>1. LastByte(Offset + Size(j))
    BY ONLY <1>2, <1>3, IsLastByte
  <2> QED BY ONLY <2>1, <1>1, <1>2, <1>3, UNCHANGED <<file, phys>> DEF LastByte, Size
<1>7. InBlock(Offset') + Len(buffer') <= kBlockSize
  <2>1. CASE InBlock(Offset) + Size(j) < kBlockSize
    <3>1. InBlock(Offset + Size(j)) = InBlock(Offset) + Size(j)
      BY ONLY <2>1, <1>2, <1>3, InBlockAdd
    <3> QED BY ONLY <3>1, <1>1, <1>2, <1>3, <1>4
  <2>2. CASE InBlock(Offset) + Size(j) = kBlockSize
    <3>1. InBlock(Offset + Size(j)) = 0
      BY ONLY <2>2, <1>2, <1>3, InBlockFull
    <3> QED BY ONLY SMTT(40), <3>1, <2>2, <1>1, <1>2, <1>3, <1>4, BlockPositive
  <2> QED BY ONLY SMTT(40), <2>1, <2>2, <1>2, <1>3, <1>4, BlockPositive
<1> QED BY ONLY <1>5, <1>6, <1>7, UNCHANGED <<file, phys, end_of_buffer_offset, eof>> DEF BlockOK, InBlock

LEMMA BlockNext ==
    ASSUME TypeOK, BufferBytes, BlockOK, ReadBlock
    PROVE  BlockOK'
<1>1. /\ Offset' = end_of_buffer_offset /\ Len(buffer') \in Nat
      /\ end_of_buffer_offset' = end_of_buffer_offset + Len(buffer')
      /\ end_of_buffer_offset < Len(file) =>
            /\ end_of_buffer_offset' <= Len(file) /\ Len(buffer') <= kBlockSize
            /\ Len(buffer') < kBlockSize => end_of_buffer_offset' = Len(file)
      /\ end_of_buffer_offset >= Len(file) => Len(buffer') = 0
  BY BlockRead
<1>2. eof' = (Len(buffer') < kBlockSize)
  BY BlockRead
<1>3. ~eof /\ file' = file
  BY DEF ReadBlock, wvars
<1>4. InBlock(end_of_buffer_offset) = 0
  BY <1>3 DEF BlockOK
<1>5. end_of_buffer_offset \in Nat /\ Len(file) \in Nat
  BY Types
<1>6. Len(buffer') <= kBlockSize
  BY ONLY <1>1, <1>5, BlockPositive
<1>7. InBlock(Offset') + Len(buffer') <= kBlockSize
  BY ONLY <1>1, <1>4, <1>6, BlockPositive
<1>8. ~eof' => InBlock(end_of_buffer_offset') = 0
  <2>1. ASSUME ~eof' PROVE Len(buffer') = kBlockSize
    <3>1. ~(Len(buffer') < kBlockSize)
      BY ONLY <2>1, <1>2
    <3> QED BY ONLY <3>1, <1>1, <1>6, BlockPositive
  <2>2. ASSUME Len(buffer') = kBlockSize PROVE InBlock(end_of_buffer_offset') = 0
    <3>1. InBlock(end_of_buffer_offset) + Len(buffer') = kBlockSize
      BY ONLY <2>2, <1>4, BlockPositive
    <3>2. InBlock(end_of_buffer_offset + Len(buffer')) = 0
      BY ONLY <3>1, <1>1, <1>5, InBlockFull
    <3> QED BY ONLY <3>2, <1>1
  <2> QED BY ONLY <2>1, <2>2
<1>9. eof' => end_of_buffer_offset' >= Len(file)
  <2>1. ASSUME Len(buffer') < kBlockSize PROVE end_of_buffer_offset' >= Len(file)
    BY ONLY <2>1, <1>1, <1>5
  <2> QED BY ONLY <2>1, <1>2
<1>10. InBlock(Offset') = 0
  BY ONLY <1>1, <1>4
<1> QED BY ONLY <1>3, <1>7, <1>8, <1>9, <1>10 DEF BlockOK, InBlock, Offset

(* Nothing that begins before the block of initial_offset starts at or     *)
(* after initial_offset.                                                   *)
LEMMA NoStart ==
    ASSUME FileInv, RecordsFit, NEW x \in 1..Len(file), file[x][1] > 0, x <= BlockStart
    PROVE  recs[phys[file[x][1]].rec].start < initial_offset
<1>0. TypeOK /\ BytesOK /\ RecsOK /\ PhysOK
  BY DEF FileInv
<1> DEFINE b == recs[phys[file[x][1]].rec].start
           c == InBlock(initial_offset)
<1>1. /\ DOMAIN file = 1..Len(file) /\ Len(file) \in Nat /\ initial_offset \in Nat
      /\ c \in Nat /\ c < kBlockSize /\ c <= initial_offset
  BY <1>0, Types, InBlockRange
<1>2. b < x /\ b + 1 \in 1..Len(file) /\ file[b + 1][2] = 1
  BY <1>0, <1>1 DEF RecsOK
<1>3. b \in Nat
  <2>1. phys[file[x][1]].rec \in 1..Len(recs)
    BY <1>0, ByteOf, PhysAt
  <2> QED BY <2>1, <1>0, Types
<1> HIDE DEF b, c
<1>4. InBlock(b) + kHeaderSize <= kBlockSize
  <2> DEFINE s == b + 1
             j == file[s][1]
  <2>1. s \in 1..Len(file) /\ file[s][2] = 1 /\ s - 1 = b
    BY ONLY <1>2, <1>3
  <2> HIDE DEF s
  <2>2. InBlock(s - 1) + Size(j) <= kBlockSize
    BY ONLY <2>1, <1>1, RecordsFit DEF RecordsFit
  <2>3. file[s] # Zero
    <3>1. Zero[2] = 0
      BY DEF Zero
    <3> QED BY ONLY <3>1, <2>1
  <2>4. j \in 1..Len(phys)
    BY ONLY <2>1, <2>3, <1>0, <1>1 DEF BytesOK
  <2>5. Size(j) \in Nat /\ Size(j) >= kHeaderSize
    BY <2>4, <1>0, Types
  <2>6. InBlock(b) \in Nat
    BY <1>3, InBlockRange
  <2> HIDE DEF j
  <2>7. InBlock(b) + Size(j) <= kBlockSize
    BY ONLY <2>1, <2>2
  <2> QED BY ONLY <2>5, <2>6, <2>7, BlockPositive
<1>5. BlockStart = initial_offset - c + (IF c > kBlockSize - (kHeaderSize - 1) THEN kBlockSize ELSE 0)
  BY DEF BlockStart, c, InBlock
<1>6. SUFFICES ASSUME b >= initial_offset PROVE FALSE
  BY <1>1, <1>3 DEF b
<1>7. b < initial_offset - c + kBlockSize /\ c > kBlockSize - (kHeaderSize - 1)
  BY ONLY <1>1, <1>2, <1>3, <1>5, <1>6, x <= BlockStart, x \in 1..Len(file), BlockPositive
<1> DEFINE a == initial_offset - c
           w == b - (initial_offset - c)
<1>8. a \in Nat /\ InBlock(a) = 0
  BY <1>1, InBlockStart DEF c
<1>9. w \in Nat /\ w < kBlockSize /\ w >= c /\ a + w = b
  BY ONLY <1>1, <1>3, <1>6, <1>7, BlockPositive
<1> HIDE DEF a, w
<1>10. InBlock(a) + w < kBlockSize
  BY ONLY <1>8, <1>9, BlockPositive
<1>11. InBlock(a + w) = w
  BY ONLY <1>8, <1>9, <1>10, InBlockAdd, BlockPositive
<1>12. InBlock(b) = w
  BY ONLY <1>9, <1>11
<1> QED BY ONLY <1>1, <1>4, <1>7, <1>9, <1>12, BlockPositive

-----------------------------------------------------------------------------
(* What the Reader owes. *)

LEMMA SurvivorEnds ==
    ASSUME FileInv, NEW r \in Survivors
    PROVE  /\ r \in 1..Len(recs) /\ recs[r].end \in 1..Len(file) /\ recs[r].end \in Nat
           /\ LastByte(recs[r].end) /\ recs[r].start >= initial_offset
           /\ phys[file[recs[r].end][1]].rec = r /\ phys[file[recs[r].end][1]].type \in Ends
<1>0. TypeOK /\ BytesOK /\ RecsOK
  BY DEF FileInv
<1>1. r \in DOMAIN recs /\ recs[r].end > 0 /\ recs[r].start >= initial_offset
  BY DEF Survivors
<1>2. DOMAIN recs = 1..Len(recs) /\ DOMAIN file = 1..Len(file)
  BY <1>0, Types
<1>3. recs[r].end \in Nat
  BY <1>0, <1>1, <1>2, Types
<1> DEFINE x == recs[r].end
<1>4. /\ x \in DOMAIN file /\ file[x][1] > 0
      /\ file[x] = <<file[x][1], Size(file[x][1])>>
      /\ phys[file[x][1]].rec = r /\ phys[file[x][1]].type \in Ends
  BY <1>0, <1>1 DEF RecsOK
<1> HIDE DEF x
<1>5. LastByte(x)
  BY <1>4 DEF LastByte
<1> QED BY <1>1, <1>2, <1>3, <1>4, <1>5 DEF x

(* The Reader takes a physical record. *)
LEMMA CompleteConsume ==
    ASSUME FileInv, BufferBytes, NEW f, NEW h, Complete(f, h), NEW j \in 1..Len(phys), Intact(j),
           buffer' = Rest(j), UNCHANGED <<file, phys, recs, initial_offset, end_of_buffer_offset>>,
           pc # "done", pc' # "done", NEW g, NEW i,
           \A n \in DOMAIN out : n \in DOMAIN out' /\ g[n] = f[n],
           recs[phys[j].rec].start >= initial_offset /\ phys[j].type \in Ends =>
              \E n \in DOMAIN out' : g[n] = phys[j].rec,
           recs[phys[j].rec].start >= initial_offset /\ phys[j].type \in Open =>
              pc' = "read" /\ in_fragmented_record' /\ i = j
    PROVE  Complete(g, i)'
<1>0. TypeOK /\ BytesOK
  BY DEF FileInv
<1>1. Offset' = Offset + Size(j) /\ Offset \in Nat /\ Size(j) \in Nat /\ Size(j) >= kHeaderSize
  BY <1>0, BufferBytesConsume, Consumed, Places
<1>2. /\ \A p \in 1..Size(j) : Offset + p \in 1..Len(file) /\ file[Offset + p] = <<j, p>>
      /\ Offset + Size(j) \in 1..Len(file) /\ file[Offset + Size(j)] = <<j, Size(j)>>
  BY <1>0, Consumed
<1>3. DOMAIN file = 1..Len(file) /\ Len(file) \in Nat /\ j \in Nat /\ j > 0
  <2>1. DOMAIN file = 1..Len(file) /\ Len(file) \in Nat /\ Len(phys) \in Nat
    BY <1>0, Types
  <2> QED BY ONLY <2>1, j \in 1..Len(phys)
<1>4. LastByte(Offset + Size(j))
  BY ONLY <1>2, <1>3, IsLastByte
<1> DEFINE o == Offset + Size(j)
<1>4a. o \in 1..Len(file) /\ LastByte(o) /\ o \in Nat /\ file[o][1] = j /\ Offset' = o
  BY ONLY <1>1, <1>2, <1>4
<1>5. ASSUME NEW x \in 1..Len(file), LastByte(x), x > Offset, x <= o
      PROVE  x = o
  <2> DEFINE p == x - Offset
  <2>1. p \in 1..Size(j) /\ Offset + p = x
    BY ONLY <1>1, <1>3, <1>5, x \in 1..Len(file)
  <2> HIDE DEF p
  <2>2. file[x] = <<j, p>>
    BY ONLY <2>1, <1>2
  <2>3. file[x][1] = j /\ file[x][2] = p
    BY ONLY <2>2
  <2>4. p = Size(j)
    BY ONLY <2>3, LastByte(x) DEF LastByte
  <2> QED BY ONLY <2>1, <2>4
<1>6. ASSUME NEW x \in 1..Len(file), LastByte(x), x <= o, o - x < kHeaderSize
      PROVE  x = o
  <2>1. x \in Nat
    BY <1>3
  <2>2. CASE x < o
    <3>1. o - x >= kHeaderSize
      BY <2>2, <1>0, <1>4a, <1>6, LastBytesApart
    <3> HIDE DEF o
    <3> QED BY ONLY <3>1, <2>1, <1>4a, <1>6, BlockPositive
  <2> HIDE DEF o
  <2> QED BY ONLY <2>1, <2>2, <1>4a, <1>6
<1> HIDE DEF o
<1>7. Survivors' = Survivors
  BY DEF Survivors
<1>8. ASSUME NEW r \in Survivors, recs[r].end <= o
      PROVE  \E n \in DOMAIN out' : g[n] = r
  <2>1. /\ recs[r].end \in 1..Len(file) /\ recs[r].end \in Nat
        /\ LastByte(recs[r].end) /\ recs[r].start >= initial_offset
        /\ phys[file[recs[r].end][1]].rec = r /\ phys[file[recs[r].end][1]].type \in Ends
    BY SurvivorEnds
  <2>2. CASE recs[r].end <= Offset
    <3>1. PICK n \in DOMAIN out : f[n] = r
      BY <2>2 DEF Complete
    <3> QED BY <3>1
  <2>3. CASE ~(recs[r].end <= Offset)
    <3>1. recs[r].end > Offset
      BY ONLY <2>1, <2>3, <1>1
    <3>2. recs[r].end = o
      BY ONLY <3>1, <2>1, <1>5, <1>8
    <3>3. phys[j].rec = r /\ phys[j].type \in Ends
      BY ONLY <3>2, <2>1, <1>4a
    <3> QED BY <3>3, <2>1
  <2> QED BY <2>2, <2>3
<1>9. ASSUME NEW x \in 1..Len(file), x <= o, o - x < kHeaderSize, LastByte(x),
             phys[file[x][1]].type \in Open, recs[phys[file[x][1]].rec].start >= initial_offset
      PROVE  pc' = "read" /\ in_fragmented_record' /\ i = file[x][1]
  <2>1. x = o
    BY ONLY <1>6, <1>9, x \in 1..Len(file)
  <2>2. file[x][1] = j
    BY ONLY <2>1, <1>4a
  <2> QED BY <2>2, <1>9
<1>10. \A x : LastByte(x)' <=> LastByte(x)
  BY DEF LastByte, Size
<1>11. /\ \A r \in Survivors' : recs'[r].end <= Offset' \/ pc' = "done" => \E n \in DOMAIN out' : g[n] = r
  BY ONLY <1>4a, <1>7, <1>8, pc' # "done", recs' = recs
<1>12. \A x \in DOMAIN file' :
             /\ x <= Offset' /\ Offset' - x < kHeaderSize
             /\ LastByte(x)' /\ phys'[file'[x][1]].type \in Open
             /\ recs'[phys'[file'[x][1]].rec].start >= initial_offset'
             => pc' = "read" /\ in_fragmented_record' /\ i = file'[x][1]
  BY ONLY <1>3, <1>4a, <1>9, <1>10, UNCHANGED <<file, phys, recs, initial_offset>>
<1> QED BY ONLY <1>11, <1>12 DEF Complete, Open, Reading

LEMMA Closer ==
    ASSUME NEW x \in Nat, NEW a \in Nat, NEW b \in Nat, a <= b, b - x < kHeaderSize
    PROVE  a - x < kHeaderSize
BY ONLY x \in Nat, a \in Nat, b \in Nat, a <= b, b - x < kHeaderSize, BlockPositive

(* A block is read: what is left of the one before is a trailer. *)
LEMMA CompleteBlock ==
    ASSUME FileInv, BufferBytes, BlocksBegin, BlockOK, NEW f, NEW h, Complete(f, h), ReadBlock
    PROVE  Complete(f, h)'
<1>0. TypeOK /\ BytesOK
  BY DEF FileInv
<1>1. /\ Offset' = end_of_buffer_offset /\ Len(buffer) < kHeaderSize /\ pc = "read"
      /\ UNCHANGED <<file, phys, recs, initial_offset, pc, in_fragmented_record, out>>
  BY <1>0, BlockRead DEF ReadBlock, wvars
<1>2. /\ Offset \in Nat /\ Offset' \in Nat /\ Len(buffer) \in Nat /\ Offset + Len(buffer) = Offset'
      /\ DOMAIN file = 1..Len(file) /\ Len(file) \in Nat
  BY <1>0, <1>1, Places, Types
<1>3. ASSUME NEW x \in 1..Len(file), LastByte(x), x <= Offset'
      PROVE  x <= Offset
  <2>1. CASE x > Offset
    <3>1. x >= Offset + kHeaderSize
      BY <2>1, <1>0, <1>3, NoStraddle
    <3> QED BY ONLY <3>1, <1>1, <1>2, <1>3, x \in 1..Len(file), BlockPositive
  <2> QED BY ONLY <2>1, <1>2, x \in 1..Len(file)
<1>4. ASSUME NEW r \in Survivors, recs[r].end <= Offset'
      PROVE  \E n \in DOMAIN out : f[n] = r
  <2>1. recs[r].end \in 1..Len(file) /\ LastByte(recs[r].end)
    BY SurvivorEnds
  <2>2. recs[r].end <= Offset
    BY ONLY <2>1, <1>3, <1>4
  <2> QED BY <2>2 DEF Complete
<1>5. ASSUME NEW x \in 1..Len(file), x <= Offset', Offset' - x < kHeaderSize, LastByte(x),
             phys[file[x][1]].type \in Open, recs[phys[file[x][1]].rec].start >= initial_offset
      PROVE  pc = "read" /\ in_fragmented_record /\ h = file[x][1]
  <2>1. x <= Offset
    BY ONLY <1>3, <1>5, x \in 1..Len(file)
  <2>2. Offset - x < kHeaderSize
    <3>1. x \in Nat /\ Offset \in Nat /\ Offset' \in Nat /\ Offset <= Offset'
      BY ONLY <1>2, x \in 1..Len(file)
    <3>2. Offset' - x < kHeaderSize
      BY <1>5
    <3> QED BY ONLY <3>1, <3>2, Closer
  <2>3. Reading
    BY <1>1 DEF Reading
  <2> QED BY ONLY <2>1, <2>2, <2>3, <1>2, <1>5, x \in 1..Len(file), Complete(f, h) DEF Complete
<1>6. Survivors' = Survivors /\ \A x : LastByte(x)' <=> LastByte(x)
  BY <1>1 DEF Survivors, LastByte, Size
<1>7. \A r \in Survivors' : recs'[r].end <= Offset' \/ pc' = "done" => \E n \in DOMAIN out' : f[n] = r
  BY ONLY <1>1, <1>4, <1>6
<1>8. \A x \in DOMAIN file' :
             /\ x <= Offset' /\ Offset' - x < kHeaderSize
             /\ LastByte(x)' /\ phys'[file'[x][1]].type \in Open
             /\ recs'[phys'[file'[x][1]].rec].start >= initial_offset'
             => pc' = "read" /\ in_fragmented_record' /\ h = file'[x][1]
  BY ONLY <1>1, <1>2, <1>5, <1>6
<1> QED BY ONLY <1>7, <1>8 DEF Complete, Open, Reading

(* The end of the file: nothing whole is left. *)
LEMMA CompleteEof ==
    ASSUME FileInv, BufferBytes, BlocksBegin, RecordsFit, NoGap, BlockOK,
           NEW f, NEW h, Complete(f, h), ReadEof
    PROVE  Complete(f, h)'
<1>0. TypeOK /\ BytesOK
  BY DEF FileInv
<1>1. /\ pc' = "done" /\ UNCHANGED <<file, phys, recs, initial_offset, out>>
      /\ eof /\ (Len(buffer) < kHeaderSize \/ (HeaderRead /\ (TooLong \/ Garbled)))
  BY DEF ReadEof, wvars
<1>2. /\ Offset \in Nat /\ Len(buffer) \in Nat /\ Offset + Len(buffer) = end_of_buffer_offset
      /\ DOMAIN file = 1..Len(file) /\ Len(file) \in Nat /\ end_of_buffer_offset >= Len(file)
  BY <1>0, <1>1, Places, Types DEF BlockOK
<1>3. ASSUME NEW x \in 1..Len(file), LastByte(x)
      PROVE  x <= Offset
  <2>1. SUFFICES ASSUME x > Offset PROVE FALSE
    BY <1>2
  <2>2. x >= Offset + kHeaderSize
    BY <2>1, <1>0, <1>3, NoStraddle
  <2>3. ~(Len(buffer) < kHeaderSize)
    BY ONLY <2>2, <1>2, x \in 1..Len(file), BlockPositive
  <2>4. HeaderRead /\ (TooLong \/ Garbled)
    BY ONLY <2>3, <1>1
  <2>5. ~Garbled
    BY <2>4, <1>0, NothingBad
  <2>6. PICK i \in 1..Len(phys) : HeaderOf(i) /\ Size(i) > Len(buffer)
    BY <2>4, <2>5 DEF TooLong
  <2>7. PICK j \in 1..Len(phys) :
           HeaderOf(j) /\ \A p \in 1..Size(j) : Offset + p \in 1..Len(file) => file[Offset + p] = <<j, p>>
    BY <2>4, <1>0, Front
  <2>8. i = j
    BY <2>6, <2>7, <1>0, HeaderUnique, Types
  <2>9. Size(j) \in Nat
    BY <1>0, Types
  <2> DEFINE p == x - Offset
  <2>10. p \in 1..Size(j) /\ Offset + p = x /\ p < Size(j)
    BY ONLY <2>1, <2>6, <2>8, <2>9, <1>2, x \in 1..Len(file)
  <2> HIDE DEF p
  <2>11. file[x] = <<j, p>>
    BY ONLY <2>7, <2>10, x \in 1..Len(file)
  <2>12. file[x][1] = j /\ file[x][2] = p
    BY ONLY <2>11
  <2>13. p = Size(j)
    BY ONLY <2>12, <1>3 DEF LastByte
  <2> QED BY ONLY <2>9, <2>10, <2>13
<1>4. ASSUME NEW r \in Survivors
      PROVE  \E n \in DOMAIN out : f[n] = r
  <2>1. recs[r].end \in 1..Len(file) /\ LastByte(recs[r].end)
    BY SurvivorEnds
  <2>2. recs[r].end <= Offset
    BY ONLY <2>1, <1>3
  <2> QED BY <2>2 DEF Complete
<1>5. Survivors' = Survivors
  BY <1>1 DEF Survivors
<1> QED BY ONLY <1>1, <1>4, <1>5 DEF Complete, Reading

(* The Reader turns to the next record, after SkipToInitialBlock or not. *)
LEMMA CompleteCall ==
    ASSUME FileInv, BufferBytes, BufferPlace, RecordsFit, NEW f, NEW h, Complete(f, h), ReadRecord
    PROVE  Complete(f, h)'
<1>0. TypeOK /\ BytesOK
  BY DEF FileInv
<1>1. /\ pc = "call" /\ pc' = "read"
      /\ UNCHANGED <<file, phys, recs, initial_offset, out, buffer>>
      /\ end_of_buffer_offset' = IF last_record_offset < initial_offset
                                 THEN BlockStart ELSE end_of_buffer_offset
  BY DEF ReadRecord, wvars
<1>2. Survivors' = Survivors /\ \A x : LastByte(x)' <=> LastByte(x)
  BY <1>1 DEF Survivors, LastByte, Size
<1>3. DOMAIN file = 1..Len(file) /\ BlockStart \in Nat
  BY <1>0, Types, Places
<1>4. CASE last_record_offset < initial_offset
  <2>1. buffer = <<>>
    BY <1>0, <1>1, <1>4, NothingBuffered DEF BufferPlace
  <2>2. Offset' = BlockStart
    <3>1. Len(buffer') = 0 /\ end_of_buffer_offset' = BlockStart
      BY <2>1, <1>1, <1>4
    <3> QED BY ONLY <3>1, <1>3 DEF Offset
  <2>3. ASSUME NEW x \in 1..Len(file), LastByte(x), x <= BlockStart
        PROVE  ~(recs[phys[file[x][1]].rec].start >= initial_offset)
    <3>1. file[x][1] > 0
      BY <2>3 DEF LastByte
    <3>2. recs[phys[file[x][1]].rec].start < initial_offset
      BY <3>1, <2>3, NoStart
    <3>3. phys[file[x][1]].rec \in 1..Len(recs)
      BY <3>1, <1>0, ByteOf, PhysAt DEF FileInv
    <3>4. recs[phys[file[x][1]].rec].start \in Nat /\ initial_offset \in Nat
      BY <3>3, <1>0, Types
    <3> QED BY ONLY <3>2, <3>4
  <2>4. ASSUME NEW r \in Survivors PROVE ~(recs[r].end <= BlockStart)
    <3>1. /\ recs[r].end \in 1..Len(file) /\ LastByte(recs[r].end) /\ recs[r].start >= initial_offset
          /\ phys[file[recs[r].end][1]].rec = r
      BY SurvivorEnds
    <3> QED BY ONLY <3>1, <2>3
  <2> QED BY ONLY <2>2, <2>3, <2>4, <1>1, <1>2, <1>3 DEF Complete, Open, Reading
<1>5. CASE ~(last_record_offset < initial_offset)
  <2>1. Offset' = Offset
    BY ONLY <1>1, <1>5 DEF Offset
  <2>2. ASSUME NEW r \in Survivors, recs[r].end <= Offset
        PROVE  \E n \in DOMAIN out : f[n] = r
    BY <2>2 DEF Complete
  <2>3. ASSUME NEW x \in DOMAIN file, x <= Offset, Offset - x < kHeaderSize, LastByte(x),
               phys[file[x][1]].type \in Open, recs[phys[file[x][1]].rec].start >= initial_offset
        PROVE  FALSE
    BY <2>3, <1>1 DEF Complete, Reading
  <2> QED BY ONLY <2>1, <2>2, <2>3, <1>1, <1>2 DEF Complete, Open, Reading
<1> QED BY <1>4, <1>5

(* A fragment that continues a record is read when the one before it was. *)
LEMMA Continued ==
    ASSUME FileInv, BufferBytes, BlocksBegin, RecordsFit, NoGap, BlockOK, HeaderRead,
           NEW f, NEW h, Complete(f, h), NEW j \in 1..Len(phys), Intact(j),
           phys[j].type \in Continues, recs[phys[j].rec].start >= initial_offset
    PROVE  in_fragmented_record
<1>0. TypeOK /\ BytesOK /\ PhysOK
  BY DEF FileInv
<1>1. j - 1 \in 1..Len(phys) /\ phys[j - 1].type \in Open /\ phys[j - 1].rec = phys[j].rec
  BY <1>0, PhysAt
<1>2. Len(phys) \in Nat /\ DOMAIN file = 1..Len(file)
  BY <1>0, Types
<1>3. j > 1 /\ j - 1 \in Nat /\ j - 1 > 0
  BY ONLY <1>1, <1>2, j \in 1..Len(phys)
<1>4. PICK y \in 1..Len(file) : y <= Offset /\ Offset - y < kHeaderSize /\ file[y] = <<j - 1, Size(j - 1)>>
  BY <1>0, <1>3, FrontIntact
<1>5. LastByte(y) /\ file[y][1] = j - 1
  BY ONLY <1>3, <1>4, IsLastByte
<1>6. Reading
  BY DEF HeaderRead, Reading
<1>7. phys[file[y][1]].type \in Open /\ recs[phys[file[y][1]].rec].start >= initial_offset
  BY <1>1, <1>5
<1> QED BY ONLY <1>2, <1>4, <1>5, <1>6, <1>7, y \in 1..Len(file), Complete(f, h) DEF Complete

(* Within a record no other one begins. *)
LEMMA NoneBegins ==
    ASSUME FileInv, BufferBytes, Layout, BlockOK, HeaderRead, NEW h, Fragmented(h),
           NEW j \in 1..Len(phys), Intact(j)
    PROVE  phys[j].type \in Continues
<1>0. TypeOK /\ BytesOK /\ PhysOK /\ OrderOK /\ BlocksBegin /\ RecordsFit /\ NoGap /\ ChainOK
  BY DEF FileInv, Layout
<1>1. /\ Offset \in Nat /\ DOMAIN file = 1..Len(file) /\ Len(phys) \in Nat /\ Len(file) \in Nat
      /\ Offset + 1 \in 1..Len(file) /\ file[Offset + 1] = <<j, 1>>
  BY <1>0, Places, Types, Consumed
<1>2. h \in 1..Len(phys) /\ phys[h].type \in Open
  BY DEF Fragmented
<1>3. PICK q \in 1..Len(file) : file[q] = <<h, Size(h)>> /\ q <= Offset /\ Offset - q < kHeaderSize
  BY <1>1 DEF Fragmented
<1>4. LastByte(q) /\ file[q][1] = h /\ h \in Nat /\ h > 0
  <2>1. h \in Nat /\ h > 0
    BY ONLY <1>1, <1>2
  <2> QED BY ONLY <2>1, <1>3, IsLastByte
<1>5. h < j
  <2>1. Offset + 1 > q /\ file[Offset + 1][1] > 0 /\ file[Offset + 1][1] = j
    BY ONLY <1>1, <1>3, j \in 1..Len(phys)
  <2> QED BY <2>1, <1>1, <1>2, <1>3, BehindRecord
<1>6. j > 1 /\ j - 1 \in Nat /\ j - 1 > 0 /\ j \in Nat
  BY ONLY <1>1, <1>4, <1>5, j \in 1..Len(phys)
<1>7. PICK y \in 1..Len(file) : y <= Offset /\ Offset - y < kHeaderSize /\ file[y] = <<j - 1, Size(j - 1)>>
  BY <1>0, <1>6, FrontIntact
<1>8. LastByte(y) /\ file[y][1] = j - 1
  BY ONLY <1>6, <1>7, IsLastByte
<1>9. q = y
  <2>1. q \in Nat /\ y \in Nat
    BY ONLY <1>1, q \in 1..Len(file), y \in 1..Len(file)
  <2>2. CASE q < y
    <3>1. y - q >= kHeaderSize
      BY <2>2, <1>0, <1>4, <1>8, LastBytesApart
    <3> QED BY ONLY <3>1, <2>1, <1>1, <1>3, <1>7, BlockPositive
  <2>3. CASE y < q
    <3>1. q - y >= kHeaderSize
      BY <2>3, <1>0, <1>4, <1>8, LastBytesApart
    <3> QED BY ONLY <3>1, <2>1, <1>1, <1>3, <1>7, BlockPositive
  <2> QED BY ONLY <2>1, <2>2, <2>3
<1>10. h = j - 1
  BY ONLY <1>4, <1>8, <1>9
<1>11. h \in 1..(Len(phys) - 1) /\ h + 1 = j
  BY ONLY <1>1, <1>4, <1>6, <1>10, j \in 1..Len(phys)
<1>12. phys[h + 1].type \in Continues
  BY ONLY <1>0, <1>2, <1>11 DEF ChainOK
<1> QED BY ONLY <1>11, <1>12

-----------------------------------------------------------------------------
(* The steps of the Reader. *)

LEMMA LayoutKeep ==
    ASSUME Layout, UNCHANGED <<file, phys>>
    PROVE  Layout'
<1>1. BlocksBegin' /\ ChainOK'
  BY DEF Layout, BlocksBegin, ChainOK, Open, Continues, InBlock
<1>2. \A x : LastByte(x)' <=> LastByte(x)
  BY DEF LastByte, Size
<1>3. RecordsFit'
  BY DEF Layout, RecordsFit, Size, InBlock
<1>4. NoGap'
  BY <1>2 DEF Layout, NoGap, InBlock
<1> QED BY <1>1, <1>3, <1>4 DEF Layout

(* Before the Reader has read anything. *)
LEMMA StartNext ==
    ASSUME TypeOK, TypeOK', BufferBytes', end_of_buffer_offset' = 0, ~eof', pc' # "done",
           out' = <<>>, ~(pc' = "read" /\ in_fragmented_record')
    PROVE  BlockOK' /\ AllOK'
<1>1. WriterTypes' /\ ReaderTypes'
  BY TypeHalvesNext
<1>2. file' \in Seq(Nat \X Nat) /\ buffer' \in Seq(Nat \X Nat)
  BY <1>1 DEF WriterTypes, ReaderTypes
<1>3. Len(file') \in Nat /\ DOMAIN file' = 1..Len(file') /\ Len(buffer') \in Nat
  BY ONLY <1>2
<1>4. Len(buffer') = 0
  <2>1. Len(buffer') <= end_of_buffer_offset'
    BY DEF BufferBytes
  <2> QED BY ONLY <2>1, <1>3, end_of_buffer_offset' = 0
<1>5. Offset' = 0
  BY ONLY <1>4, end_of_buffer_offset' = 0 DEF Offset
<1>6. BlockOK'
  <2>1. InBlock(Offset') = 0 /\ InBlock(end_of_buffer_offset') = 0
    BY <1>5, InBlockSmall
  <2>2. InBlock(Offset') + Len(buffer') <= kBlockSize
    BY ONLY <2>1, <1>4, BlockPositive
  <2> QED BY ONLY <2>1, <2>2, ~eof' DEF BlockOK, InBlock
<1>7. ASSUME NEW f, NEW h PROVE Complete(f, h)'
  <2>1. ASSUME NEW r \in Survivors' PROVE ~(recs'[r].end <= Offset')
    <3>1. r \in DOMAIN recs' /\ recs'[r].end > 0
      BY DEF Survivors
    <3>2. recs'[r].end \in Nat
      <4> DEFINE R == [len : 0..MaxLen, start : Nat, end : Nat]
      <4>1. recs' \in Seq(R)
        BY <1>1 DEF WriterTypes
      <4> HIDE DEF R
      <4>2. recs'[r] \in R
        BY ONLY <3>1, <4>1
      <4> QED BY ONLY <4>2 DEF R
    <3> QED BY ONLY <3>1, <3>2, <1>5
  <2>2. \A x \in DOMAIN file' : ~(x <= Offset')
    BY ONLY <1>3, <1>5
  <2> QED BY ONLY <2>1, <2>2, pc' # "done" DEF Complete
<1>8. AllOK'
  <2> DEFINE f == [n \in {} |-> 0]
  <2>1. f \in [DOMAIN out' -> DOMAIN recs']
    BY DOMAIN out' = {}
  <2>2. 0 \in 0..Len(phys')
    <3>1. Len(phys') \in Nat
      <4> DEFINE S == [type : {"kFullType", "kFirstType", "kMiddleType", "kLastType"},
                       rec : 1..MaxRecords, len : 0..kBlockSize, from : 0..MaxLen]
      <4>1. phys' \in Seq(S)
        BY <1>1 DEF WriterTypes
      <4> HIDE DEF S
      <4> QED BY ONLY <4>1
    <3> QED BY ONLY <3>1
  <2> HIDE DEF f
  <2>3. Track(f, 0)' /\ Complete(f, 0)'
    BY <1>7, TrackNothing
  <2> QED BY <2>1, <2>2, <2>3 DEF AllOK
<1> QED BY <1>6, <1>8

LEMMA CallBlock ==
    ASSUME TypeOK, BufferBytes, BufferPlace, BlockOK, ReadRecord
    PROVE  BlockOK'
<1>1. /\ pc = "call" /\ UNCHANGED <<file, phys, buffer, eof>>
      /\ end_of_buffer_offset' = IF last_record_offset < initial_offset
                                 THEN BlockStart ELSE end_of_buffer_offset
  BY DEF ReadRecord, wvars
<1>2. CASE last_record_offset < initial_offset
  <2>1. buffer = <<>> /\ ~eof
    BY <1>1, <1>2, NothingBuffered DEF BufferPlace
  <2>2. Len(buffer') = 0 /\ end_of_buffer_offset' = BlockStart
    BY <2>1, <1>1, <1>2
  <2>3. BlockStart \in Nat /\ initial_offset \in Nat
    BY Places, Types
  <2>4. Offset' = BlockStart
    BY ONLY <2>2, <2>3 DEF Offset
  <2>5. InBlock(BlockStart) = 0
    <3> DEFINE c == InBlock(initial_offset)
               a == initial_offset - c
    <3>1. a \in Nat /\ InBlock(a) = 0
      BY <2>3, InBlockStart
    <3>2. BlockStart = a \/ BlockStart = a + kBlockSize
      <4>1. BlockStart = a + (IF c > kBlockSize - (kHeaderSize - 1) THEN kBlockSize ELSE 0)
        BY DEF BlockStart, InBlock
      <4> HIDE DEF a, c
      <4> QED BY ONLY <4>1, <3>1
    <3> HIDE DEF a, c
    <3>3. InBlock(a) + kBlockSize = kBlockSize
      BY ONLY <3>1, BlockPositive
    <3>4. InBlock(a + kBlockSize) = 0
      BY ONLY <3>1, <3>3, InBlockFull, BlockPositive
    <3> QED BY ONLY <3>1, <3>2, <3>4
  <2>6. InBlock(Offset') = 0 /\ InBlock(end_of_buffer_offset') = 0
    BY ONLY <2>2, <2>4, <2>5
  <2>7. InBlock(Offset') + Len(buffer') <= kBlockSize
    BY ONLY <2>2, <2>6, BlockPositive
  <2>8. ~eof'
    BY <2>1, <1>1
  <2> QED BY ONLY <2>6, <2>7, <2>8 DEF BlockOK, InBlock
<1>3. CASE ~(last_record_offset < initial_offset)
  <2>1. end_of_buffer_offset' = end_of_buffer_offset
    BY <1>1, <1>3
  <2> QED BY ONLY <2>1, <1>1, BlockOK DEF BlockOK, Offset, LastByte, Size, InBlock
<1> QED BY <1>2, <1>3

LEMMA LongerExtends ==
    ASSUME TypeOK, NEW c, out' = Append(out, c), NEW f, NEW r, NEW g, g = Longer(f, r)
    PROVE  /\ \A n \in DOMAIN out : n \in DOMAIN out' /\ g[n] = f[n]
           /\ \E n \in DOMAIN out' : g[n] = r
<1>1. out \in Seq(Seq(Nat \X Nat))
  BY TypeHalves DEF ReaderTypes
<1>2. Len(out) \in Nat /\ DOMAIN out = 1..Len(out) /\ DOMAIN out' = 1..(Len(out) + 1)
  BY ONLY <1>1, out' = Append(out, c)
<1>3. \A n \in 1..(Len(out) + 1) : g[n] = IF n <= Len(out) THEN f[n] ELSE r
  BY ONLY g = Longer(f, r) DEF Longer
<1>4. g[Len(out) + 1] = r /\ Len(out) + 1 \in 1..(Len(out) + 1)
  BY ONLY <1>2, <1>3
<1> QED BY ONLY <1>2, <1>3, <1>4

(* A fragment that continues a record of which the Reader has not read the *)
(* beginning starts before initial_offset.                                 *)
LEMMA ContinuesEarly ==
    ASSUME FileInv, BufferBytes, Layout, BlockOK, HeaderRead, ~in_fragmented_record,
           NEW f, NEW h, Complete(f, h), NEW j \in 1..Len(phys), Intact(j), phys[j].type \in Continues
    PROVE  ~(recs[phys[j].rec].start >= initial_offset) /\ initial_offset # 0
<1>1. ~(recs[phys[j].rec].start >= initial_offset)
  BY Continued DEF Layout
<1>2. phys[j].rec \in 1..Len(recs)
  BY PhysAt DEF FileInv
<1>3. recs[phys[j].rec].start \in Nat
  BY <1>2, Types DEF FileInv
<1> QED BY ONLY <1>1, <1>3

CleanRead == /\ (pc # "done" => BlockOK)' /\ AllOK' /\ TornTailIgnored'

LEMMA ReadOther ==
    ASSUME LogInv, LogInv', Layout, BlockOK, AllOK, TornTailIgnored, Clean,
           ReadRecord \/ ReadBlock \/ ReadEof
    PROVE  CleanRead
<1>0. FileInv /\ BufferOK /\ BufferBytes /\ BufferPlace /\ TypeOK /\ BlocksBegin /\ RecordsFit /\ NoGap
  BY DEF LogInv, BufferOK, FileInv, Layout
<1>1. PICK h \in 0..Len(phys), f \in [DOMAIN out -> DOMAIN recs] : Track(f, h) /\ Complete(f, h)
  BY DEF AllOK
<1>2. Track(f, h)' /\ UNCHANGED <<out, file, phys, recs, initial_offset>>
  BY <1>0, <1>1, PassTrack DEF Pass
<1>3. Complete(f, h)'
  BY <1>0, <1>1, CompleteCall, CompleteBlock, CompleteEof
<1>4. AllOK'
  BY <1>1, <1>2, <1>3 DEF AllOK
<1>5. (pc # "done" => BlockOK)'
  <2>1. ReadEof => pc' = "done"
    BY DEF ReadEof
  <2> QED BY <2>1, <1>0, CallBlock, BlockNext
<1>6. TornTailIgnored'
  BY <1>2 DEF TornTailIgnored, Clean, ReadRecord, ReadBlock, ReadEof
<1> QED BY <1>4, <1>5, <1>6 DEF CleanRead

(* The Reader passes over a physical record that starts before             *)
(* initial_offset or continues one that does.                              *)
LEMMA ReadOver ==
    ASSUME LogInv, LogInv', Layout, BlockOK, AllOK, TornTailIgnored, Clean,
           \/ ReadEarly \/ Resync
           \/ (ReadMiddle \/ ReadLast) /\ ~in_fragmented_record
    PROVE  CleanRead
<1>0. /\ FileInv /\ BufferOK /\ BufferBytes /\ BufferPlace /\ TypeOK /\ BytesOK /\ RecsOK
      /\ BlocksBegin /\ RecordsFit /\ NoGap
  BY DEF LogInv, BufferOK, FileInv, Layout
<1>1. PICK h \in 0..Len(phys), f \in [DOMAIN out -> DOMAIN recs] : Track(f, h) /\ Complete(f, h)
  BY DEF AllOK
<1>2. Track(f, h)' /\ UNCHANGED <<out, file, phys, recs, initial_offset>>
  BY <1>0, <1>1, PassTrack DEF Pass
<1>3. \E j \in 1..Len(phys) :
         /\ Intact(j) /\ HeaderRead /\ buffer' = Rest(j) /\ pc' # "done"
         /\ UNCHANGED <<end_of_buffer_offset, eof>>
         /\ ~(recs[phys[j].rec].start >= initial_offset) /\ initial_offset # 0
  <2>1. CASE ReadEarly
    <3>1. PICK j \in 1..Len(phys) : Intact(j) /\ Offset < initial_offset /\ BadRecord(Rest(j), FALSE)
      BY <2>1 DEF ReadEarly
    <3>2. HeaderRead /\ buffer' = Rest(j) /\ UNCHANGED <<end_of_buffer_offset, eof, pc>>
      BY <2>1, <3>1 DEF ReadEarly, BadRecord, readerFrame
    <3>3. pc' # "done"
      BY <3>2 DEF HeaderRead
    <3>4. /\ Offset \in Nat /\ initial_offset \in Nat /\ Offset + 1 \in 1..Len(file) /\ DOMAIN file = 1..Len(file)
          /\ file[Offset + 1] = <<j, 1>> /\ Len(phys) \in Nat
      BY <3>1, <1>0, Places, Types, Consumed
    <3>5. file[Offset + 1][1] = j /\ j > 0
      BY ONLY <3>4, j \in 1..Len(phys)
    <3>6. recs[phys[j].rec].start < Offset + 1
      BY ONLY <3>4, <3>5, <1>0 DEF RecsOK
    <3>7. recs[phys[j].rec].start \in Nat
      BY <1>0, PhysAt, Types DEF FileInv
    <3>8. ~(recs[phys[j].rec].start >= initial_offset) /\ initial_offset # 0
      BY ONLY <3>1, <3>4, <3>6, <3>7
    <3> QED BY <3>1, <3>2, <3>3, <3>8
  <2>2. CASE Resync \/ ((ReadMiddle \/ ReadLast) /\ ~in_fragmented_record)
    <3>1. ~in_fragmented_record
      BY <2>2, <1>0 DEF Resync, BufferPlace
    <3>2. PICK j \in 1..Len(phys) : Physical(j, "kMiddleType") \/ Physical(j, "kLastType")
      BY <2>2 DEF Resync, ReadMiddle, ReadLast
    <3>3. /\ Intact(j) /\ HeaderRead /\ buffer' = Rest(j) /\ UNCHANGED <<end_of_buffer_offset, eof>>
          /\ phys[j].type \in Continues
      BY <3>2 DEF Physical, Continues
    <3>4. pc' # "done"
      <4>1. UNCHANGED pc
        BY <2>2, <3>1 DEF Resync, ReadMiddle, ReadLast
      <4> QED BY <4>1, <3>3 DEF HeaderRead
    <3>5. ~(recs[phys[j].rec].start >= initial_offset) /\ initial_offset # 0
      BY <3>1, <3>3, <1>0, <1>1, ContinuesEarly
    <3> QED BY <3>3, <3>4, <3>5
  <2> QED BY <2>1, <2>2
<1>4. PICK j \in 1..Len(phys) :
         /\ Intact(j) /\ HeaderRead /\ buffer' = Rest(j) /\ pc' # "done"
         /\ UNCHANGED <<end_of_buffer_offset, eof>>
         /\ ~(recs[phys[j].rec].start >= initial_offset) /\ initial_offset # 0
  BY <1>3
<1>5. pc # "done"
  BY <1>4 DEF HeaderRead
<1>6. Complete(f, h)'
  <2>1. \A n \in DOMAIN out : n \in DOMAIN out' /\ f[n] = f[n]
    BY <1>2
  <2> QED BY <2>1, <1>0, <1>1, <1>2, <1>4, <1>5, CompleteConsume
<1>7. AllOK'
  BY <1>1, <1>2, <1>6 DEF AllOK
<1>8. BlockOK'
  BY <1>0, <1>2, <1>4, BlockConsume
<1>9. TornTailIgnored'
  BY <1>2, <1>4 DEF TornTailIgnored
<1> QED BY <1>7, <1>8, <1>9 DEF CleanRead

LEMMA ReadPart ==
    ASSUME LogInv, LogInv', Layout, BlockOK, AllOK, TornTailIgnored, Clean,
           ReadFirst \/ (ReadMiddle /\ in_fragmented_record)
    PROVE  CleanRead
<1>0. /\ FileInv /\ BufferOK /\ BufferBytes /\ BufferPlace /\ TypeOK /\ BytesOK
      /\ BlocksBegin /\ RecordsFit /\ NoGap
  BY DEF LogInv, BufferOK, FileInv, Layout
<1>1. PICK h \in 0..Len(phys), f \in [DOMAIN out -> DOMAIN recs] : Track(f, h) /\ Complete(f, h)
  BY DEF AllOK
<1>2. \E j \in 1..Len(phys) :
         /\ Intact(j) /\ HeaderRead /\ buffer' = Rest(j) /\ phys[j].type \in Open
         /\ Track(f, j)' /\ reported' = reported
  <2>1. CASE ReadFirst
    <3>1. PICK j \in 1..Len(phys) :
             /\ Physical(j, "kFirstType") /\ scratch' = Fragment(j)
             /\ ~in_fragmented_record => reported' = reported
      BY <2>1 DEF ReadFirst
    <3>2. /\ UNCHANGED <<out, pc>> /\ Reading /\ Intact(j) /\ HeaderRead /\ buffer' = Rest(j)
          /\ pc = "read" /\ phys[j].type = "kFirstType"
      BY <2>1, <3>1 DEF ReadFirst, Physical, HeaderRead, Reading
    <3>3. Track(f, j)'
      BY <3>1, <3>2, <1>0, <1>1, TrackFirst
    <3>4. phys[j].type \in Open /\ phys[j].type \notin Continues
      BY <3>2 DEF Open, Continues
    <3>5. ~in_fragmented_record
      <4>1. in_fragmented_record => Fragmented(h)
        BY <3>2, <1>1 DEF Track
      <4> QED BY <4>1, <3>2, <3>4, <1>0, NoneBegins
    <3> QED BY <3>1, <3>2, <3>3, <3>4, <3>5
  <2>2. CASE ReadMiddle /\ in_fragmented_record
    <3>1. PICK j \in 1..Len(phys) :
             Physical(j, "kMiddleType") /\ scratch' = scratch \o Fragment(j) /\ reported' = reported
      BY <2>2 DEF ReadMiddle
    <3>2. /\ UNCHANGED <<out, pc>> /\ Intact(j) /\ HeaderRead /\ buffer' = Rest(j)
          /\ pc = "read" /\ phys[j].type = "kMiddleType"
      BY <2>2, <3>1 DEF ReadMiddle, Physical, HeaderRead
    <3>3. Track(f, j)'
      BY <3>1, <3>2, <2>2, <1>0, <1>1, TrackMiddle
    <3> QED BY <3>1, <3>2, <3>3 DEF Open
  <2> QED BY <2>1, <2>2
<1>3. PICK j \in 1..Len(phys) :
         /\ Intact(j) /\ HeaderRead /\ buffer' = Rest(j) /\ phys[j].type \in Open
         /\ Track(f, j)' /\ reported' = reported
  BY <1>2
<1>4. /\ UNCHANGED <<out, pc, file, phys, recs, initial_offset, end_of_buffer_offset, eof>>
      /\ in_fragmented_record' /\ pc = "read"
  BY <1>3 DEF ReadFirst, ReadMiddle, Physical, wvars, HeaderRead
<1>5. phys[j].type \notin Ends
  BY <1>0, <1>3, Types
<1>6. Complete(f, j)'
  <2>1. \A n \in DOMAIN out : n \in DOMAIN out' /\ f[n] = f[n]
    BY <1>4
  <2> QED BY <2>1, <1>0, <1>1, <1>3, <1>4, <1>5, CompleteConsume
<1>7. AllOK'
  <2>1. j \in 0..Len(phys')
    BY <1>4
  <2> QED BY <2>1, <1>1, <1>3, <1>4, <1>6 DEF AllOK
<1>8. BlockOK'
  BY <1>0, <1>3, <1>4, BlockConsume
<1>9. TornTailIgnored'
  BY <1>3, <1>4 DEF TornTailIgnored, Clean
<1> QED BY <1>7, <1>8, <1>9 DEF CleanRead

LEMMA ReadWhole ==
    ASSUME LogInv, LogInv', Layout, BlockOK, AllOK, TornTailIgnored, Clean,
           ReadFull \/ (ReadLast /\ in_fragmented_record)
    PROVE  CleanRead
<1>0. /\ FileInv /\ BufferOK /\ BufferBytes /\ BufferPlace /\ TypeOK /\ BytesOK
      /\ BlocksBegin /\ RecordsFit /\ NoGap /\ TypeOK'
  BY DEF LogInv, BufferOK, FileInv, Layout
<1>1. PICK h \in 0..Len(phys), f \in [DOMAIN out -> DOMAIN recs] : Track(f, h) /\ Complete(f, h)
  BY DEF AllOK
<1>2. \E j, c :
         /\ j \in 1..Len(phys) /\ Intact(j) /\ HeaderRead /\ buffer' = Rest(j) /\ phys[j].type \in Ends
         /\ UNCHANGED <<file, phys, recs, initial_offset, end_of_buffer_offset, eof, reported>>
         /\ out' = Append(out, c) /\ pc' = "call"
         /\ \A g : g = Longer(f, phys[j].rec) =>
                     g \in [DOMAIN out' -> DOMAIN recs'] /\ Track(g, h)'
  <2>1. CASE ReadFull
    <3>1. PICK j \in 1..Len(phys) :
             /\ Physical(j, "kFullType") /\ Return(Fragment(j), Offset)
             /\ ~in_fragmented_record => reported' = reported
      BY <2>1 DEF ReadFull
    <3>2. /\ Intact(j) /\ HeaderRead /\ buffer' = Rest(j) /\ pc = "read" /\ phys[j].type = "kFullType"
          /\ UNCHANGED <<file, phys, recs, initial_offset, end_of_buffer_offset, eof>>
      BY <3>1 DEF Physical, HeaderRead, wvars
    <3>3. phys[j].type \in Ends /\ phys[j].type \notin Continues
      BY <3>2 DEF Ends, Continues
    <3>4. ~in_fragmented_record
      <4>1. in_fragmented_record => Fragmented(h)
        BY <3>2, <1>1 DEF Track
      <4> QED BY <4>1, <3>2, <3>3, <1>0, NoneBegins
    <3>5. ASSUME NEW g, g = Longer(f, phys[j].rec)
          PROVE  g \in [DOMAIN out' -> DOMAIN recs'] /\ Track(g, h)'
      BY <3>1, <3>5, <1>0, <1>1, FullTrack
    <3>6. out' = Append(out, Fragment(j)) /\ pc' = "call"
      BY <3>1 DEF Return
    <3> QED BY <3>1, <3>2, <3>3, <3>4, <3>5, <3>6
  <2>2. CASE ReadLast /\ in_fragmented_record
    <3>1. PICK j \in 1..Len(phys) :
             /\ Physical(j, "kLastType") /\ Return(scratch \o Fragment(j), prospective)
             /\ reported' = reported
      BY <2>2 DEF ReadLast
    <3>2. /\ Intact(j) /\ HeaderRead /\ buffer' = Rest(j) /\ phys[j].type = "kLastType"
          /\ UNCHANGED <<file, phys, recs, initial_offset, end_of_buffer_offset, eof>>
      BY <3>1 DEF Physical, wvars
    <3>3. phys[j].type \in Ends
      BY <3>2 DEF Ends
    <3>5. ASSUME NEW g, g = Longer(f, phys[j].rec)
          PROVE  g \in [DOMAIN out' -> DOMAIN recs'] /\ Track(g, h)'
      BY <3>1, <3>5, <2>2, <1>0, <1>1, LastTrack
    <3>6. out' = Append(out, scratch \o Fragment(j)) /\ pc' = "call"
      BY <3>1 DEF Return
    <3> QED BY <3>1, <3>2, <3>3, <3>5, <3>6
  <2> QED BY <2>1, <2>2
<1>3. PICK j, c :
         /\ j \in 1..Len(phys) /\ Intact(j) /\ HeaderRead /\ buffer' = Rest(j) /\ phys[j].type \in Ends
         /\ UNCHANGED <<file, phys, recs, initial_offset, end_of_buffer_offset, eof, reported>>
         /\ out' = Append(out, c) /\ pc' = "call"
         /\ \A g : g = Longer(f, phys[j].rec) =>
                     g \in [DOMAIN out' -> DOMAIN recs'] /\ Track(g, h)'
  BY <1>2
<1>4. PICK g : g = Longer(f, phys[j].rec)
  OBVIOUS
<1>5. g \in [DOMAIN out' -> DOMAIN recs'] /\ Track(g, h)'
  BY <1>3, <1>4
<1>6. /\ \A n \in DOMAIN out : n \in DOMAIN out' /\ g[n] = f[n]
      /\ \E n \in DOMAIN out' : g[n] = phys[j].rec
  <2>1. TypeOK /\ out' = Append(out, c) /\ g = Longer(f, phys[j].rec)
    BY <1>0, <1>3, <1>4
  <2> QED BY ONLY <2>1, LongerExtends
<1>7. phys[j].type \notin Open
  BY <1>0, <1>3, Types
<1>8. pc # "done" /\ pc' # "done"
  BY <1>3 DEF HeaderRead
<1>9. Complete(g, h)'
  BY <1>0, <1>1, <1>3, <1>6, <1>7, <1>8, CompleteConsume
<1>10. AllOK'
  BY <1>1, <1>3, <1>5, <1>9 DEF AllOK
<1>11. BlockOK'
  BY <1>0, <1>3, BlockConsume
<1>12. TornTailIgnored'
  BY <1>3 DEF TornTailIgnored, Clean
<1> QED BY <1>10, <1>11, <1>12 DEF CleanRead

LEMMA ReadClean ==
    ASSUME LogInv, LogInv', Layout, pc # "done" => BlockOK, AllOK, TornTailIgnored, Clean,
           StartReader \/ Read \/ Finished
    PROVE  CleanRead
<1>0. /\ FileInv /\ BufferBytes /\ BufferPlace /\ TypeOK /\ BytesOK
      /\ BlocksBegin /\ RecordsFit /\ NoGap
  BY DEF LogInv, BufferOK, FileInv, Layout
<1>0a. TypeOK' /\ BufferBytes'
  BY DEF LogInv, BufferOK, FileInv
<1>1. CASE StartReader
  <2>1. /\ end_of_buffer_offset' = 0 /\ ~eof' /\ pc' = "call" /\ out' = <<>>
        /\ UNCHANGED <<reported, reused, fails>> /\ initial_offset = 0
    BY <1>0, <1>1 DEF StartReader, BufferPlace, wvars
  <2>2. BlockOK' /\ AllOK'
    BY <2>1, <1>0, <1>0a, StartNext
  <2>3. TornTailIgnored'
    BY <2>1 DEF TornTailIgnored, Clean
  <2> QED BY <2>2, <2>3 DEF CleanRead
<1>2. CASE Finished
  <2>1. pc = "done" /\ UNCHANGED vars
    BY <1>2 DEF Finished
  <2>2. PICK h \in 0..Len(phys), f \in [DOMAIN out -> DOMAIN recs] : Track(f, h) /\ Complete(f, h)
    BY DEF AllOK
  <2>3. Track(f, h)'
    BY <2>1, <2>2 DEF Track, Returned, Content, Survivors, Reading, vars, wvars, rvars
  <2>4. Complete(f, h)'
    BY <2>1, <2>2 DEF Complete, Survivors, Reading, vars, wvars, rvars
  <2>5. AllOK'
    BY <2>1, <2>2, <2>3, <2>4 DEF AllOK, vars, wvars, rvars
  <2>6. TornTailIgnored' /\ pc' = "done"
    BY <2>1 DEF TornTailIgnored, vars, wvars, rvars
  <2> QED BY <2>5, <2>6 DEF CleanRead
<1>3. CASE Read
  <2>1. BlockOK
    BY <1>3 DEF Read, ReadRecord, ReadBlock, ReadEof, ReadBad, ReadEarly, Resync, ReadFull, ReadFirst,
                ReadMiddle, ReadLast, HeaderRead, Physical
  <2>2. ~ReadBad
    <3> SUFFICES ASSUME ReadBad PROVE FALSE
      OBVIOUS
    <3>1. HeaderRead /\ ((TooLong /\ ~eof) \/ BadChecksum \/ Garbled \/ ZeroHeader)
      BY DEF ReadBad
    <3> QED BY <3>1, <2>1, <1>0, NothingBad
  <2> QED BY <2>1, <2>2, <1>3, ReadOther, ReadOver, ReadPart, ReadWhole DEF Read
<1> QED BY <1>1, <1>2, <1>3

-----------------------------------------------------------------------------
(* The steps of the Writer. *)

(* Where the next physical record goes. *)
LEMMA NextPlace ==
    ASSUME TypeOK, WriterOK, WriterAt, pc = "write", left # NULL
    PROVE  /\ InBlock(Len(file) + Trailer) = At
           /\ Trailer > 0 => /\ InBlock(Len(file)) + kHeaderSize > kBlockSize
                             /\ \A m \in Nat : m < Trailer => InBlock(Len(file) + m) # 0
<1>1. /\ Len(file) \in Nat /\ block_offset \in Nat /\ block_offset <= kBlockSize
      /\ InBlock(Len(file)) = InBlock(block_offset) /\ InBlock(Len(file)) \in Nat
  <2>1. Len(file) \in Nat
    BY Types
  <2>2. block_offset \in 0..kBlockSize
    BY TypeHalves DEF WriterTypes
  <2>3. InBlock(Len(file)) = InBlock(block_offset)
    BY DEF WriterAt
  <2>4. InBlock(Len(file)) \in Nat
    BY <2>1, InBlockRange
  <2> QED BY ONLY <2>1, <2>2, <2>3, <2>4, BlockPositive
<1>2. CASE NewBlock
  <2>1. /\ Trailer = kBlockSize - block_offset /\ At = 0
        /\ kBlockSize - block_offset < kHeaderSize
    BY <1>2 DEF Trailer, At, NewBlock, Leftover
  <2>2. CASE block_offset = kBlockSize
    <3>1. Trailer = 0 /\ InBlock(Len(file)) = 0
      BY <2>1, <2>2, <1>1, InBlockSmall
    <3>2. Len(file) + Trailer = Len(file)
      BY ONLY <3>1, <1>1
    <3> QED BY ONLY <3>1, <3>2, <2>1
  <2>3. CASE block_offset < kBlockSize
    <3>1. InBlock(Len(file)) = block_offset
      BY <2>3, <1>1, InBlockSmall
    <3>1a. block_offset \in Nat /\ kBlockSize \in Nat /\ kHeaderSize \in Nat
      BY <1>1
    <3>2. Trailer \in Nat /\ InBlock(Len(file)) + Trailer = kBlockSize
      <4>1. Trailer = kBlockSize - block_offset
        BY <2>1
      <4>2. Trailer \in Nat /\ block_offset + Trailer = kBlockSize
        BY ONLY <4>1, <3>1a, <2>3
      <4> QED BY ONLY <4>2, <3>1
    <3>3. InBlock(Len(file) + Trailer) = 0
      BY ONLY <3>2, <1>1, InBlockFull
    <3>4. InBlock(Len(file)) + kHeaderSize > kBlockSize
      <4>1. kBlockSize - block_offset < kHeaderSize
        BY <2>1
      <4>2. block_offset + kHeaderSize > kBlockSize
        BY ONLY <4>1, <3>1a
      <4> QED BY ONLY <4>2, <3>1
    <3>5. InBlock(Len(file)) > 0
      <4>1. kHeaderSize < kBlockSize /\ kHeaderSize \in Nat /\ kBlockSize \in Nat
        OBVIOUS
      <4> QED BY ONLY <4>1, <3>4, <1>1
    <3>6. ASSUME NEW m \in Nat, m < Trailer PROVE InBlock(Len(file) + m) # 0
      <4>1. InBlock(Len(file)) + m < kBlockSize
        BY ONLY <3>2, <3>6, <1>1, m \in Nat, BlockPositive
      <4>2. InBlock(Len(file) + m) = InBlock(Len(file)) + m
        BY ONLY <4>1, <1>1, m \in Nat, InBlockAdd
      <4> QED BY ONLY <4>2, <3>5, <1>1, m \in Nat
    <3> QED BY ONLY <3>3, <3>4, <3>6, <2>1
  <2> QED BY ONLY <2>2, <2>3, <1>1, BlockPositive
<1>3. CASE ~NewBlock
  <2>1. /\ Trailer = 0 /\ At = block_offset /\ ~(kBlockSize - block_offset < kHeaderSize)
    BY <1>3 DEF Trailer, At, NewBlock, Leftover
  <2>2. block_offset < kBlockSize
    BY ONLY <2>1, <1>1, BlockPositive
  <2>3. InBlock(Len(file)) = block_offset
    BY <2>2, <1>1, InBlockSmall
  <2>4. Len(file) + Trailer = Len(file) /\ ~(Trailer > 0)
    BY ONLY <2>1, <1>1
  <2> QED BY ONLY <2>1, <2>3, <2>4
<1> QED BY <1>2, <1>3

SizeNext(i) == kHeaderSize + phys'[i].len

LEMMA EmitLayout ==
    ASSUME FileInv, FileInv', Layout, WriterAt, pc = "write", left # NULL,
           EmitPhysicalRecord(Trailer, kHeaderSize + FragmentLength)
    PROVE  Layout' /\ InBlock(Len(file')) = InBlock(At + (kHeaderSize + FragmentLength))
<1>0. TypeOK /\ WriterOK /\ BytesOK /\ PhysOK /\ BlocksBegin /\ RecordsFit /\ NoGap /\ ChainOK
  BY DEF FileInv, Layout
<1>a. PICK z : z = Trailer
  OBVIOUS
<1>b. PICK n : n = kHeaderSize + FragmentLength
  OBVIOUS
<1>c. PICK a : a = Len(file)
  OBVIOUS
<1>d. PICK l : l = Len(phys)
  OBVIOUS
<1>e. PICK t : t = At
  OBVIOUS
<1>1. /\ z \in Nat /\ z < kHeaderSize /\ t \in Nat /\ n \in Nat /\ n >= 1
      /\ t + n <= kBlockSize
  <2>1. /\ z \in Nat /\ z < kHeaderSize /\ t \in Nat /\ FragmentLength \in Nat
        /\ t + kHeaderSize + FragmentLength <= kBlockSize
    BY <1>0, <1>a, <1>e, FragmentFits
  <2> QED BY ONLY <2>1, <1>b, BlockPositive
<1>2. a \in Nat /\ l \in Nat /\ DOMAIN file = 1..a
  BY <1>0, <1>c, <1>d, Types
<1>3. Emitted(z, n)
  <2>1. n \in 0..(kHeaderSize + FragmentLength)
    BY <1>1, <1>b
  <2> QED BY <2>1, <1>0, <1>1, <1>a, <1>b, EmitEffect
<1>4. /\ Len(phys') = l + 1 /\ \A i \in 1..l : phys'[i] = phys[i]
      /\ phys'[l + 1].len = FragmentLength /\ (phys'[l + 1].type \in Continues <=> ~Begin)
  BY <1>3, <1>d DEF Emitted
<1>4a. /\ Len(file') = a + z + n /\ \A x \in 1..a : file'[x] = file[x]
       /\ \A x \in 1..(a + z + n) : a < x /\ x <= a + z => file'[x] = Zero
       /\ \A x \in 1..(a + z + n) : a + z < x => file'[x] = <<l + 1, x - (a + z)>>
  BY <1>3, <1>c, <1>d DEF Emitted
<1>5. /\ InBlock(a + z) = t
      /\ z > 0 => /\ InBlock(a) + kHeaderSize > kBlockSize
                  /\ \A m \in Nat : m < z => InBlock(a + m) # 0
  BY <1>0, <1>a, <1>c, <1>e, NextPlace
<1>6. DOMAIN file' = 1..(a + z + n) /\ Len(file') = a + z + n
  <2>1. file' \in Seq(Nat \X Nat)
    BY TypeHalvesNext DEF FileInv, WriterTypes
  <2>2. DOMAIN file' = 1..Len(file')
    BY ONLY <2>1
  <2> QED BY ONLY <2>2, <1>4a
<1>7. l > 0 => a > 0 /\ file[a] = <<l, Size(l)>>
  BY <1>c, <1>d DEF WriterAt
<1>8. l = 0 => a = 0
  BY <1>c, <1>d DEF WriterAt
<1>9. (\A i \in 1..l : SizeNext(i) = Size(i)) /\ SizeNext(l + 1) = n
  BY <1>4, <1>b DEF Size, SizeNext
<1>9a. \A x \in 1..a : file[x] = Zero \/ file[x][1] \in 1..l
  BY <1>0, <1>2, <1>d DEF BytesOK
<1>9b. \A i \in 1..l : Size(i) \in Nat /\ Size(i) >= 1
  BY <1>0, <1>d, Types
<1>10. \A p \in 1..n : a + z + p \in 1..(a + z + n) /\ file'[a + z + p] = <<l + 1, p>>
  <2> SUFFICES ASSUME NEW p \in 1..n
               PROVE  a + z + p \in 1..(a + z + n) /\ file'[a + z + p] = <<l + 1, p>>
    OBVIOUS
  <2> DEFINE x == a + z + p
  <2>1. x \in 1..(a + z + n) /\ a + z < x /\ x - (a + z) = p
    BY ONLY <1>1, <1>2, p \in 1..n
  <2> HIDE DEF x
  <2>2. file'[x] = <<l + 1, x - (a + z)>>
    BY ONLY <2>1, <1>4a
  <2> QED BY ONLY <2>1, <2>2 DEF x
<1>11. ASSUME NEW x \in 1..(a + z + n)
       PROVE  \/ x \in 1..a /\ file'[x] = file[x]
              \/ a < x /\ x <= a + z /\ file'[x] = Zero
              \/ \E p \in 1..n : x = a + z + p /\ file'[x] = <<l + 1, p>>
  <2>1. CASE x <= a
    BY ONLY <2>1, <1>2, <1>4a, x \in 1..(a + z + n)
  <2>2. CASE a < x /\ x <= a + z
    BY ONLY <2>2, <1>4a, x \in 1..(a + z + n)
  <2>3. CASE a + z < x
    <3> DEFINE p == x - (a + z)
    <3>1. p \in 1..n /\ x = a + z + p
      BY ONLY <2>3, <1>1, <1>2, x \in 1..(a + z + n)
    <3>2. file'[x] = <<l + 1, p>>
      BY ONLY <2>3, <1>4a, x \in 1..(a + z + n)
    <3> QED BY ONLY <3>1, <3>2
  <2> QED BY ONLY SMTT(40), <2>1, <2>2, <2>3, <1>1, <1>2, x \in 1..(a + z + n)
<1>12. Zero[1] = 0 /\ Zero[2] = 0
  BY DEF Zero
<1>13. \A x \in 1..a : x \in 1..(a + z + n) /\ file'[x] = file[x]
  <2>1. \A x \in 1..a : file'[x] = file[x]
    BY ONLY <1>4a
  <2> QED BY ONLY <2>1, <1>1, <1>2
<1>14. BlocksBegin'
  <2> SUFFICES ASSUME NEW x \in 1..(a + z + n), InBlock(x - 1) = 0
               PROVE  file'[x][2] = 1
    BY <1>6 DEF BlocksBegin, InBlock
  <2>1. CASE x \in 1..a /\ file'[x] = file[x]
    BY <2>1, <1>0, <1>2 DEF BlocksBegin
  <2>2. CASE a < x /\ x <= a + z
    <3> DEFINE m == x - 1 - a
    <3>1. m \in Nat /\ m < z /\ a + m = x - 1 /\ z > 0
      BY ONLY <2>2, <1>1, <1>2, x \in 1..(a + z + n)
    <3> HIDE DEF m
    <3>2. InBlock(a + m) # 0
      BY ONLY <3>1, <1>5
    <3> QED BY ONLY <3>1, <3>2, InBlock(x - 1) = 0
  <2>3. ASSUME NEW p \in 1..n, x = a + z + p, file'[x] = <<l + 1, p>>
        PROVE  file'[x][2] = 1
    <3> DEFINE m == p - 1
               b == a + z
    <3>1. m \in Nat /\ b \in Nat /\ b + m = x - 1 /\ t + m < kBlockSize /\ (m = 0 => p = 1)
      BY ONLY <2>3, <1>1, <1>2, p \in 1..n, BlockPositive
    <3>2. InBlock(b) = t
      BY ONLY <1>5
    <3> HIDE DEF m, b
    <3>3. InBlock(b + m) = t + m
      BY ONLY <3>1, <3>2, InBlockAdd
    <3>4. p = 1
      BY ONLY <3>1, <3>3, <1>1, InBlock(x - 1) = 0
    <3> QED BY ONLY <3>4, <2>3
  <2> QED BY ONLY <2>1, <2>2, <2>3, <1>11, x \in 1..(a + z + n)
<1>15. ASSUME NEW x \in 1..(a + z + n), NEW j, j = file'[x][1], file'[x][2] = 1
       PROVE  /\ InBlock(x - 1) + SizeNext(j) <= kBlockSize
              /\ \A p \in 1..SizeNext(j) : x + p - 1 \in 1..(a + z + n) => file'[x + p - 1] = <<j, p>>
              /\ j > 1 => \E y \in 1..(a + z + n) :
                             y < x /\ x - y <= kHeaderSize /\ file'[y] = <<j - 1, SizeNext(j - 1)>>
  <2>1. CASE x \in 1..a /\ file'[x] = file[x]
    <3>1. x \in 1..a /\ file[x][1] = j /\ file[x][2] = 1
      BY ONLY <2>1, <1>15
    <3>2. j \in 1..l
      <4>1. file[x] # Zero
        BY ONLY <3>1, <1>12
      <4> QED BY ONLY <4>1, <3>1, <1>9a
    <3>3. SizeNext(j) = Size(j) /\ Size(j) \in Nat /\ Size(j) >= 1
      BY ONLY <3>2, <1>9, <1>9b
    <3>4. /\ InBlock(x - 1) + Size(j) <= kBlockSize
          /\ \A p \in 1..Size(j) : x + p - 1 \in 1..a => file[x + p - 1] = <<j, p>>
          /\ j > 1 => \E y \in 1..a :
                         y < x /\ x - y <= kHeaderSize /\ file[y] = <<j - 1, Size(j - 1)>>
      BY ONLY <3>1, <1>0, <1>2 DEF RecordsFit
    <3>5. x + Size(j) - 1 <= a
      <4>1. SUFFICES ASSUME ~(x + Size(j) - 1 <= a) PROVE FALSE
        OBVIOUS
      <4> DEFINE p == a - x + 1
      <4>2. p \in 1..Size(j) /\ x + p - 1 = a /\ p < Size(j) /\ a \in 1..a /\ l > 0
        BY ONLY <4>1, <3>1, <3>2, <3>3, <1>2
      <4> HIDE DEF p
      <4>3. file[a] = <<j, p>>
        BY ONLY <4>2, <3>4
      <4>4. file[a] = <<l, Size(l)>>
        BY ONLY <4>2, <1>7
      <4>5. j = l /\ p = Size(l)
        BY ONLY <4>3, <4>4
      <4> QED BY ONLY <4>2, <4>5, <3>3
    <3>6. ASSUME NEW p \in 1..SizeNext(j)
          PROVE  file'[x + p - 1] = <<j, p>>
      <4>1. p \in 1..Size(j)
        BY ONLY <3>3, p \in 1..SizeNext(j)
      <4>2. x + p - 1 \in 1..a
        BY ONLY <4>1, <3>1, <3>3, <3>5, <1>2
      <4> QED BY ONLY <4>1, <4>2, <3>4, <1>13
    <3>7. ASSUME j > 1
          PROVE  \E y \in 1..(a + z + n) :
                    y < x /\ x - y <= kHeaderSize /\ file'[y] = <<j - 1, SizeNext(j - 1)>>
      <4>1. PICK y \in 1..a : y < x /\ x - y <= kHeaderSize /\ file[y] = <<j - 1, Size(j - 1)>>
        BY ONLY <3>4, <3>7
      <4>2. j - 1 \in 1..l
        BY ONLY <3>2, <3>7, <1>2
      <4>3. SizeNext(j - 1) = Size(j - 1)
        BY ONLY <4>2, <1>9
      <4>4. y \in 1..(a + z + n) /\ file'[y] = file[y]
        BY ONLY <1>13, y \in 1..a
      <4>5. file'[y] = <<j - 1, SizeNext(j - 1)>>
        BY ONLY <4>1, <4>3, <4>4
      <4> QED BY ONLY <4>1, <4>4, <4>5
    <3>8. InBlock(x - 1) + SizeNext(j) <= kBlockSize
      BY ONLY <3>3, <3>4
    <3> QED BY ONLY <3>6, <3>7, <3>8
  <2>2. CASE a < x /\ x <= a + z /\ file'[x] = Zero
    BY ONLY <2>2, <1>12, <1>15
  <2>3. ASSUME NEW p \in 1..n, x = a + z + p, file'[x] = <<l + 1, p>>
        PROVE  x = a + z + 1 /\ j = l + 1
    <3>1. p = 1 /\ j = l + 1
      BY ONLY <2>3, <1>15
    <3> QED BY ONLY <3>1, <2>3
  <2>4. CASE x = a + z + 1 /\ j = l + 1
    <3>1. SizeNext(j) = n /\ x - 1 = a + z /\ x \in Nat
      BY ONLY <2>4, <1>1, <1>2, <1>9
    <3>2. InBlock(x - 1) + SizeNext(j) <= kBlockSize
      BY ONLY <3>1, <1>1, <1>5
    <3>3. ASSUME NEW p \in 1..SizeNext(j) PROVE file'[x + p - 1] = <<j, p>>
      <4>1. p \in 1..n
        BY ONLY <3>1, p \in 1..SizeNext(j)
      <4>2. x + p - 1 = a + z + p
        BY ONLY <4>1, <2>4, <1>1, <1>2
      <4> QED BY ONLY <4>1, <4>2, <2>4, <1>10
    <3>4. ASSUME j > 1
          PROVE  \E y \in 1..(a + z + n) :
                    y < x /\ x - y <= kHeaderSize /\ file'[y] = <<j - 1, SizeNext(j - 1)>>
      <4>1. l > 0 /\ j - 1 = l /\ l \in 1..l
        BY ONLY <3>4, <2>4, <1>2
      <4>2. a > 0 /\ a \in 1..a /\ file[a] = <<l, Size(l)>>
        BY ONLY <4>1, <1>2, <1>7
      <4>3. a < x /\ x - a <= kHeaderSize
        BY ONLY <2>4, <1>1, <1>2, BlockPositive
      <4>4. a \in 1..(a + z + n) /\ file'[a] = file[a]
        BY ONLY <4>2, <1>13
      <4>5. SizeNext(j - 1) = Size(l)
        BY ONLY <4>1, <1>9
      <4>6. file'[a] = <<j - 1, SizeNext(j - 1)>>
        BY ONLY <4>1, <4>2, <4>4, <4>5
      <4> QED BY ONLY <4>3, <4>4, <4>6
    <3> QED BY ONLY <3>2, <3>3, <3>4
  <2> QED BY ONLY <2>1, <2>2, <2>3, <2>4, <1>11, x \in 1..(a + z + n)
<1>16. RecordsFit'
  <2>1. ASSUME NEW x \in 1..(a + z + n), file'[x][2] = 1
        PROVE  /\ InBlock(x - 1) + SizeNext(file'[x][1]) <= kBlockSize
               /\ \A p \in 1..SizeNext(file'[x][1]) :
                     x + p - 1 \in 1..(a + z + n) => file'[x + p - 1] = <<file'[x][1], p>>
               /\ file'[x][1] > 1 =>
                     \E y \in 1..(a + z + n) :
                        /\ y < x /\ x - y <= kHeaderSize
                        /\ file'[y] = <<file'[x][1] - 1, SizeNext(file'[x][1] - 1)>>
    BY ONLY <1>15, <2>1, x \in 1..(a + z + n)
  <2> QED BY ONLY <2>1, <1>6 DEF RecordsFit, InBlock, Size, SizeNext
<1>17. NoGap'
  <2> SUFFICES ASSUME NEW x \in 1..(a + z + n), file'[x][1] > 0, file'[x][2] = SizeNext(file'[x][1]),
                      x + 1 \in 1..(a + z + n), InBlock(x) + kHeaderSize <= kBlockSize
               PROVE  file'[x + 1][2] = 1
    BY <1>6 DEF NoGap, LastByte, Size, SizeNext, InBlock
  <2>1. CASE x \in 1..a /\ file'[x] = file[x] /\ x < a
    <3>1. x + 1 \in 1..a /\ x \in 1..a
      BY ONLY <2>1, <1>2
    <3>2. file[x][1] > 0 /\ file[x][2] = SizeNext(file[x][1])
      BY ONLY <2>1, file'[x][1] > 0, file'[x][2] = SizeNext(file'[x][1])
    <3>3. file[x][1] \in 1..l
      BY ONLY <3>1, <3>2, <1>9a, <1>12
    <3>4. LastByte(x)
      BY ONLY <3>2, <3>3, <1>9 DEF LastByte
    <3>5. file[x + 1][2] = 1
      BY ONLY <3>1, <3>4, <1>0, <1>2, InBlock(x) + kHeaderSize <= kBlockSize DEF NoGap
    <3> QED BY ONLY <3>1, <3>5, <1>13
  <2>2. CASE x = a
    <3>1. z = 0
      <4>1. InBlock(a) \in Nat
        BY <1>2, InBlockRange
      <4>2. ~(InBlock(a) + kHeaderSize > kBlockSize)
        BY ONLY <4>1, <2>2, InBlock(x) + kHeaderSize <= kBlockSize, BlockPositive
      <4> QED BY ONLY <4>2, <1>1, <1>5
    <3>2. x + 1 = a + z + 1 /\ 1 \in 1..n
      BY ONLY <3>1, <2>2, <1>1, <1>2
    <3>3. file'[x + 1] = <<l + 1, 1>>
      BY ONLY <3>2, <1>10
    <3> QED BY ONLY <3>3
  <2>3. CASE file'[x] = Zero
    BY ONLY <2>3, <1>12, file'[x][1] > 0
  <2>4. ASSUME NEW p \in 1..n, x = a + z + p, file'[x] = <<l + 1, p>>
        PROVE  FALSE
    <3>1. p = n
      <4>1. file'[x][1] = l + 1 /\ file'[x][2] = p
        BY ONLY <2>4
      <4> QED BY ONLY <4>1, <1>9, file'[x][2] = SizeNext(file'[x][1])
    <3> QED BY ONLY <3>1, <2>4, <1>1, <1>2, x + 1 \in 1..(a + z + n)
  <2>5. x \in 1..a => x < a \/ x = a
    BY ONLY <1>2
  <2> QED BY ONLY <2>1, <2>2, <2>3, <2>4, <2>5, <1>11, x \in 1..(a + z + n)
<1>18. ChainOK'
  <2> SUFFICES ASSUME NEW j \in 1..l, phys'[j].type \in Open
               PROVE  phys'[j + 1].type \in Continues
    <3>1. Len(phys') - 1 = l
      BY ONLY <1>2, <1>4
    <3> QED BY <3>1 DEF ChainOK, Open, Continues
  <2>1. phys'[j] = phys[j]
    BY <1>4
  <2>2. CASE j = l
    <3>1. l > 0 /\ phys[l].type \in Open
      BY <2>1, <2>2, <1>2
    <3>2. phys[l].rec = Current
      BY <3>1, <1>d DEF WriterAt
    <3>3. ~Begin
      BY <3>1, <3>2, <1>2, <1>d DEF Begin
    <3> QED BY <3>3, <2>2, <1>4
  <2>3. CASE j # l
    <3>1. j \in 1..(l - 1) /\ j + 1 \in 1..l
      BY ONLY <2>3, <1>2, j \in 1..l
    <3>2. phys[j + 1].type \in Continues
      BY <3>1, <2>1, <1>0, <1>d DEF ChainOK
    <3> QED BY <3>1, <3>2, <1>4
  <2> QED BY <2>2, <2>3
<1>19. InBlock(Len(file')) = InBlock(t + n)
  <2> DEFINE b == a + z
  <2>1. b \in Nat /\ InBlock(b) = t /\ Len(file') = b + n
    BY ONLY <1>1, <1>2, <1>5, <1>6
  <2> HIDE DEF b
  <2>2. CASE t + n < kBlockSize
    <3>1. InBlock(b + n) = t + n
      BY ONLY <2>1, <2>2, <1>1, InBlockAdd
    <3>2. InBlock(t + n) = t + n
      BY ONLY <2>2, <1>1, InBlockSmall
    <3> QED BY ONLY <3>1, <3>2, <2>1
  <2>3. CASE t + n = kBlockSize
    <3>1. InBlock(b + n) = 0
      BY ONLY <2>1, <2>3, <1>1, InBlockFull
    <3>2. InBlock(t + n) = 0
      BY ONLY <2>3, InBlockSmall
    <3> QED BY ONLY <3>1, <3>2, <2>1
  <2> QED BY ONLY <2>2, <2>3, <1>1, BlockPositive
<1> QED BY <1>14, <1>16, <1>17, <1>18, <1>19, <1>b, <1>e DEF Layout

LEMMA EmitClean ==
    ASSUME FileInv, FileInv', Layout, WriterAt, Emit
    PROVE  Layout' /\ WriterAt'
<1>0. TypeOK /\ WriterOK
  BY DEF FileInv
<1>a. PICK z : z = Trailer
  OBVIOUS
<1>b. PICK n : n = kHeaderSize + FragmentLength
  OBVIOUS
<1>c. PICK l : l = Len(phys)
  OBVIOUS
<1>1. /\ pc = "write" /\ left # NULL /\ pc' = "write"
      /\ EmitPhysicalRecord(Trailer, kHeaderSize + FragmentLength)
  BY DEF Emit
<1>2. Layout' /\ InBlock(Len(file')) = InBlock(At + (kHeaderSize + FragmentLength))
  BY <1>1, EmitLayout
<1>3. /\ z \in Nat /\ FragmentLength \in Nat /\ n \in Nat /\ n >= 1 /\ left \in Nat /\ FragmentLength <= left
  <2>1. /\ z \in Nat /\ FragmentLength \in Nat /\ left \in Nat /\ FragmentLength <= left
    BY <1>0, <1>1, <1>a, FragmentFits
  <2> QED BY ONLY <2>1, <1>b, BlockPositive
<1>4. Len(file) \in Nat /\ l \in Nat
  BY <1>0, <1>c, Types
<1>5. Emitted(z, n)
  <2>1. n \in 0..(kHeaderSize + FragmentLength)
    BY <1>3, <1>b
  <2> QED BY <2>1, <1>0, <1>1, <1>3, <1>a, <1>b, EmitEffect
<1>6. block_offset' = At + (kHeaderSize + FragmentLength)
  BY <1>1 DEF EmitPhysicalRecord
<1>7. /\ Len(phys') = l + 1 /\ phys'[l + 1].len = FragmentLength /\ phys'[l + 1].rec = Current
      /\ (phys'[l + 1].type \in Ends <=> End) /\ (phys'[l + 1].type \in Open <=> ~End)
      /\ left' = IF n < kHeaderSize + FragmentLength \/ End THEN NULL ELSE left - FragmentLength
      /\ Len(recs') = Len(recs)
  BY <1>5, <1>c DEF Emitted
<1>8. /\ Len(file') = Len(file) + z + n
      /\ \A x \in 1..Len(file') : Len(file) + z < x => file'[x] = <<l + 1, x - (Len(file) + z)>>
  BY <1>5, <1>c DEF Emitted
<1>9. Len(file') > 0 /\ file'[Len(file')] = <<l + 1, n>>
  <2> DEFINE x == Len(file')
  <2>1. x \in 1..Len(file') /\ Len(file) + z < x /\ x - (Len(file) + z) = n /\ x > 0
    BY ONLY <1>3, <1>4, <1>8
  <2> HIDE DEF x
  <2>2. file'[x] = <<l + 1, n>>
    BY ONLY <2>1, <1>8
  <2> QED BY ONLY <2>1, <2>2 DEF x
<1>10. n = kHeaderSize + phys'[l + 1].len
  BY ONLY <1>7, <1>b
<1>11. left' = NULL => End
  <2>1. ~(n < kHeaderSize + FragmentLength)
    BY ONLY <1>3, <1>b
  <2>2. left - FragmentLength # NULL
    <3>1. left - FragmentLength \in Nat /\ NULL \notin Nat
      BY <1>3
    <3> QED BY ONLY <3>1
  <2> QED BY ONLY <2>1, <2>2, <1>7
<1>12. Current' = Current
  BY ONLY <1>7 DEF Current
<1>13. InBlock(Len(file')) = InBlock(block_offset')
  BY ONLY <1>2, <1>6
<1>14. l + 1 # 0
  BY ONLY <1>4
<1>15. /\ Len(phys') # 0
       /\ file'[Len(file')] = <<Len(phys'), kHeaderSize + phys'[Len(phys')].len>>
       /\ left' = NULL => phys'[Len(phys')].type \in Ends
       /\ phys'[Len(phys')].rec = Current'
  BY ONLY <1>7, <1>9, <1>10, <1>11, <1>12, <1>14
<1>16. WriterAt'
  BY ONLY <1>9, <1>13, <1>15 DEF WriterAt, Size, Ends, Open, InBlock
<1> QED BY <1>2, <1>16

LEMMA AddRecordClean ==
    ASSUME FileInv, FileInv', Layout, WriterAt, AddRecord
    PROVE  Layout' /\ WriterAt'
<1>0. TypeOK /\ PhysOK
  BY DEF FileInv
<1>1. PICK len \in 0..MaxLen :
         /\ left' = len /\ recs' = Append(recs, [len |-> len, start |-> 0, end |-> 0])
  BY DEF AddRecord
<1>2. pc = "write" /\ pc' = "write" /\ left = NULL /\ UNCHANGED <<file, phys, block_offset>>
  BY DEF AddRecord
<1>3. Layout'
  BY <1>2, LayoutKeep
<1>4. left' # NULL
  BY <1>1
<1>5. Len(phys) > 0 => phys[Len(phys)].type \notin Open
  <2>1. Len(phys) \in Nat
    BY <1>0, Types
  <2>2. Len(phys) > 0 => phys[Len(phys)].type \in Ends
    BY <2>1, <1>2 DEF WriterAt
  <2> QED BY SMTT(40), <2>1, <2>2, <1>0, Types
<1>6. /\ InBlock(Len(file)) = InBlock(block_offset) /\ (Len(phys) = 0 => Len(file) = 0)
      /\ Len(phys) > 0 => Len(file) > 0 /\ file[Len(file)] = <<Len(phys), Size(Len(phys))>>
  BY <1>2 DEF WriterAt
<1>7. WriterAt'
  BY ONLY <1>2, <1>4, <1>5, <1>6 DEF WriterAt, Size, Open, InBlock
<1> QED BY <1>3, <1>7

LEMMA TearClean ==
    ASSUME FileInv, FileInv', Layout, Tear
    PROVE  Layout' /\ WriterAt'
<1>0. TypeOK /\ BlocksBegin /\ RecordsFit /\ NoGap /\ ChainOK
  BY DEF FileInv, Layout
<1>1. PICK k \in 0..Len(file) : file' = SubSeq(file, 1, k)
  BY DEF Tear
<1>2. pc' = "cut" /\ phys' = phys
  BY DEF Tear
<1>3. file \in Seq(Nat \X Nat)
  BY <1>0, TypeHalves DEF WriterTypes
<1>4. Len(file) \in Nat /\ DOMAIN file = 1..Len(file)
  BY <1>0, Types
<1>5. /\ Len(file') = k /\ DOMAIN file' = 1..k
      /\ \A x \in 1..k : file'[x] = file[x]
  BY ONLY <1>1, <1>3, <1>4
<1>6. k \in Nat /\ \A x \in 1..k : x \in 1..Len(file)
  BY <1>4
<1>7. BlocksBegin'
  BY ONLY <1>0, <1>4, <1>5, <1>6 DEF BlocksBegin, InBlock
<1>8. ASSUME NEW x \in 1..k, NEW j, j = file[x][1], file[x][2] = 1
      PROVE  /\ InBlock(x - 1) + Size(j) <= kBlockSize
             /\ \A p \in 1..Size(j) : x + p - 1 \in 1..k => file'[x + p - 1] = <<j, p>>
             /\ j > 1 => \E y \in 1..k :
                            y < x /\ x - y <= kHeaderSize /\ file'[y] = <<j - 1, Size(j - 1)>>
  <2>1. x \in 1..Len(file)
    BY ONLY <1>6, x \in 1..k
  <2>2. /\ InBlock(x - 1) + Size(j) <= kBlockSize
        /\ \A p \in 1..Size(j) : x + p - 1 \in 1..Len(file) => file[x + p - 1] = <<j, p>>
        /\ j > 1 => \E y \in 1..Len(file) :
                       y < x /\ x - y <= kHeaderSize /\ file[y] = <<j - 1, Size(j - 1)>>
    BY ONLY <2>1, <1>0, <1>4, <1>8 DEF RecordsFit
  <2>3. \A p \in 1..Size(j) : x + p - 1 \in 1..k => file'[x + p - 1] = <<j, p>>
    BY ONLY <2>2, <1>5, <1>6
  <2>4. ASSUME j > 1
        PROVE  \E y \in 1..k : y < x /\ x - y <= kHeaderSize /\ file'[y] = <<j - 1, Size(j - 1)>>
    <3>1. PICK y \in 1..Len(file) : y < x /\ x - y <= kHeaderSize /\ file[y] = <<j - 1, Size(j - 1)>>
      BY ONLY <2>2, <2>4
    <3>2. y \in 1..k
      BY ONLY <3>1, <1>4, <1>6, x \in 1..k, y \in 1..Len(file)
    <3>3. file'[y] = <<j - 1, Size(j - 1)>>
      BY ONLY <3>1, <3>2, <1>5
    <3> QED BY ONLY <3>1, <3>2, <3>3
  <2> QED BY ONLY <2>2, <2>3, <2>4
<1>9. RecordsFit'
  <2>1. ASSUME NEW x \in 1..k, file'[x][2] = 1
        PROVE  /\ InBlock(x - 1) + Size(file'[x][1]) <= kBlockSize
               /\ \A p \in 1..Size(file'[x][1]) :
                     x + p - 1 \in 1..k => file'[x + p - 1] = <<file'[x][1], p>>
               /\ file'[x][1] > 1 =>
                     \E y \in 1..k :
                        /\ y < x /\ x - y <= kHeaderSize
                        /\ file'[y] = <<file'[x][1] - 1, Size(file'[x][1] - 1)>>
    <3>1. file'[x] = file[x]
      BY ONLY <1>5, x \in 1..k
    <3>2. file[x][2] = 1
      BY ONLY <3>1, <2>1
    <3> QED BY ONLY <3>1, <3>2, <1>8, x \in 1..k
  <2> QED BY ONLY <2>1, <1>2, <1>5 DEF RecordsFit, InBlock, Size
<1>10. NoGap'
  <2>1. ASSUME NEW x \in 1..k, file'[x][1] > 0, file'[x][2] = Size(file'[x][1]),
               x + 1 \in 1..k, InBlock(x) + kHeaderSize <= kBlockSize
        PROVE  file'[x + 1][2] = 1
    <3>1. x \in 1..Len(file) /\ x + 1 \in 1..Len(file) /\ file'[x] = file[x] /\ file'[x + 1] = file[x + 1]
      BY ONLY <2>1, <1>5, <1>6, x \in 1..k
    <3>2. LastByte(x)
      BY ONLY <2>1, <3>1 DEF LastByte
    <3>3. file[x + 1][2] = 1
      BY ONLY <3>1, <3>2, <2>1, <1>0, <1>4 DEF NoGap
    <3> QED BY ONLY <3>1, <3>3
  <2> QED BY ONLY <2>1, <1>2, <1>5 DEF NoGap, LastByte, InBlock, Size
<1>11. ChainOK'
  BY <1>0, <1>2 DEF ChainOK, Open, Continues
<1>12. WriterAt'
  BY <1>2 DEF WriterAt
<1> QED BY <1>7, <1>9, <1>10, <1>11, <1>12 DEF Layout

-----------------------------------------------------------------------------
LEMMA CleanInit == Init => CleanInv
<1> SUFFICES ASSUME Init PROVE CleanInv
  OBVIOUS
<1>1. /\ file = <<>> /\ phys = <<>> /\ recs = <<>> /\ left = NULL /\ block_offset = 0 /\ pc = "write"
      /\ buffer = <<>> /\ end_of_buffer_offset = 0 /\ eof = FALSE /\ out = <<>> /\ reported = FALSE
  BY DEF Init
<1>2. /\ DOMAIN file = {} /\ Len(file) = 0 /\ Len(phys) = 0 /\ DOMAIN recs = {} /\ DOMAIN out = {}
      /\ Len(buffer) = 0
  BY <1>1
<1>3. Layout
  BY <1>2 DEF Layout, BlocksBegin, RecordsFit, NoGap, ChainOK
<1>4. WriterAt
  BY <1>1, <1>2 DEF WriterAt
<1>5. Offset = 0
  <2>1. end_of_buffer_offset = 0 /\ Len(buffer) = 0
    BY <1>1, <1>2
  <2> QED BY ONLY <2>1 DEF Offset
<1>6. BlockOK
  <2>1. InBlock(Offset) = 0 /\ InBlock(end_of_buffer_offset) = 0
    BY <1>1, <1>5, InBlockSmall
  <2>2. InBlock(Offset) + Len(buffer) <= kBlockSize
    BY ONLY <2>1, <1>2, BlockPositive
  <2> QED BY ONLY <2>1, <2>2, <1>1 DEF BlockOK
<1>7. LogInv
  BY LogInit
<1>8. PICK h \in 0..Len(phys), f \in [DOMAIN out -> DOMAIN recs] : Track(f, h)
  BY <1>7 DEF LogInv, ReaderOK
<1>9. Complete(f, h)
  BY <1>1, <1>2 DEF Complete, Survivors
<1>10. AllOK /\ TornTailIgnored
  BY <1>1, <1>8, <1>9 DEF AllOK, TornTailIgnored
<1> QED BY <1>3, <1>4, <1>6, <1>10 DEF CleanInv

LEMMA CleanStep ==
    ASSUME LogInv, LogInv', CleanInv, [Next]_vars
    PROVE  CleanInv'
<1>0. SUFFICES ASSUME Clean' PROVE CleanInv'
  BY DEF CleanInv
<1>1. /\ TypeOK /\ FileInv /\ FileInv' /\ TypeOK' /\ BufferPlace /\ BufferPlace' /\ BufferBytes'
      /\ fails \in Nat
  BY Types DEF LogInv, FileInv, BufferOK
<1>2. fails' = 0 /\ ~reused'
  BY <1>0 DEF Clean
<1>3. ~(EmitFails \/ TrailerLost \/ Reuse \/ SkipFails \/ ReadBlockFails)
  BY <1>1, <1>2 DEF EmitFails, TrailerLost, Reuse, SkipFails, ReadBlockFails
<1>4. \/ AddRecord \/ Emit \/ Tear
      \/ StartReader \/ Read \/ Finished \/ UNCHANGED vars
  BY <1>3 DEF Next
<1>5. Clean
  <2>1. CASE Read
    <3>0. CASE ReadRecord \/ ReadBlock \/ ReadEof
      BY <3>0, <1>2 DEF Clean, ReadRecord, ReadBlock, ReadEof, wvars
    <3>1. CASE ReadBad \/ ReadEarly
      <4>1. PICK rest, report : BadRecord(rest, report)
        BY <3>1 DEF ReadBad, ReadEarly
      <4> QED BY <4>1, <1>2 DEF BadRecord, Clean, readerFrame, wvars
    <3>2. CASE Resync \/ ReadFull \/ ReadFirst \/ ReadMiddle \/ ReadLast
      <4>1. PICK j, type : Physical(j, type)
        BY <3>2 DEF Resync, ReadFull, ReadFirst, ReadMiddle, ReadLast
      <4> QED BY <4>1, <1>2 DEF Physical, Clean, wvars
    <3> QED BY <2>1, <3>0, <3>1, <3>2 DEF Read
  <2>2. CASE AddRecord \/ Emit \/ Tear \/ StartReader \/ Finished \/ UNCHANGED vars
    BY <2>2, <1>2 DEF Clean, AddRecord, Emit, Tear, StartReader, Finished, vars, wvars
  <2> QED BY <2>1, <2>2, <1>4
<1>6. Layout /\ WriterAt /\ (pc # "done" => BlockOK) /\ AllOK /\ TornTailIgnored
  BY <1>5 DEF CleanInv
<1>7. CASE AddRecord \/ Emit \/ Tear
  <2>1. Layout' /\ WriterAt'
    BY <1>1, <1>6, <1>7, AddRecordClean, EmitClean, TearClean
  <2>2. pc' \in {"write", "cut"} /\ UNCHANGED <<initial_offset, reported>>
    BY <1>7 DEF AddRecord, Emit, Tear, rvars
  <2>3. /\ end_of_buffer_offset' = 0 /\ ~eof' /\ out' = <<>> /\ pc' # "done"
        /\ ~(pc' = "read" /\ in_fragmented_record')
    BY <2>2, <1>1 DEF BufferPlace
  <2>4. BlockOK' /\ AllOK'
    BY <2>3, <1>1, StartNext
  <2>5. TornTailIgnored'
    BY <2>2, <1>5, <1>6 DEF TornTailIgnored, Clean
  <2> QED BY <2>1, <2>4, <2>5 DEF CleanInv
<1>8. CASE StartReader \/ Read \/ Finished
  <2>1. CleanRead
    BY <1>5, <1>6, <1>8, ReadClean
  <2>2. UNCHANGED <<file, phys>> /\ pc' # "write"
    BY <1>8 DEF Read, ReadRecord, ReadBlock, ReadEof, ReadBad, ReadEarly, BadRecord, HeaderRead, Return,
        readerFrame, Resync, ReadFull, ReadFirst, ReadMiddle, ReadLast, Physical, wvars,
        StartReader, Finished, vars
  <2>3. Layout' /\ WriterAt'
    BY <2>2, <1>6, LayoutKeep DEF WriterAt
  <2> QED BY <2>1, <2>3 DEF CleanInv, CleanRead
<1>9. CASE UNCHANGED vars
  <2>1. Layout'
    BY <1>6, <1>9, LayoutKeep DEF vars, wvars
  <2>2. WriterAt'
    BY <1>6, <1>9 DEF WriterAt, vars, wvars, Size, Ends, Open, Current, InBlock
  <2>3. (pc # "done" => BlockOK)'
    BY <1>6, <1>9 DEF BlockOK, Offset, LastByte, Size, InBlock, vars, wvars, rvars
  <2>4. PICK h \in 0..Len(phys), f \in [DOMAIN out -> DOMAIN recs] : Track(f, h) /\ Complete(f, h)
    BY <1>6 DEF AllOK
  <2>5. Track(f, h)'
    BY <2>4, <1>9 DEF Track, Returned, Content, Survivors, Reading, Ahead, Fragmented, Offset, Size,
                      vars, wvars, rvars
  <2>6. Complete(f, h)'
    BY <2>4, <1>9 DEF Complete, Survivors, Reading, Offset, LastByte, Size, vars, wvars, rvars
  <2>7. AllOK' /\ TornTailIgnored'
    BY <2>4, <2>5, <2>6, <1>6, <1>9 DEF AllOK, TornTailIgnored, vars, wvars, rvars
  <2> QED BY <2>1, <2>2, <2>3, <2>7 DEF CleanInv
<1> QED BY <1>4, <1>7, <1>8, <1>9

(* The picture of a file that at most a crash has cut, and of the Reader in *)
(* it (log_writer.cpp, log_reader.cpp).                                     *)
THEOREM CleanInvariant == Spec => []CleanInv
<1>1. Init => CleanInv
  BY CleanInit
<1>2. LogInv /\ LogInv' /\ CleanInv /\ [Next]_vars => CleanInv'
  BY CleanStep
<1> QED BY <1>1, <1>2, LogInvariant, PTL DEF Spec

LEMMA CleanReadsBack ==
    ASSUME CleanInv
    PROVE  LogReadsBack
<1>1. ReadsBack
  <2> SUFFICES ASSUME pc = "done", Clean
               PROVE  \E f \in [DOMAIN out -> DOMAIN recs] :
                         Returned(f) /\ {f[n] : n \in DOMAIN out} = Survivors
    BY DEF ReadsBack, Clean
  <2>1. PICK h \in 0..Len(phys), f \in [DOMAIN out -> DOMAIN recs] : Track(f, h) /\ Complete(f, h)
    BY DEF CleanInv, AllOK
  <2>2. Returned(f) /\ \A n \in DOMAIN out : f[n] \in Survivors
    BY <2>1 DEF Track
  <2>3. \A r \in Survivors : \E n \in DOMAIN out : f[n] = r
    BY <2>1 DEF Complete
  <2>4. {f[n] : n \in DOMAIN out} = Survivors
    BY <2>2, <2>3
  <2> QED BY <2>1, <2>2, <2>4
<1>2. TornTailIgnored
  BY DEF CleanInv, TornTailIgnored, Clean
<1> QED BY <1>1, <1>2 DEF LogReadsBack

(* log::Reader returns exactly the records that log::Writer::AddRecord      *)
(* wrote completely before the crash and that start at or after             *)
(* initial_offset, in order, and reports no corruption for the tail that    *)
(* the crash cut, for every block size, header size, record length and      *)
(* initial_offset.                                                          *)
THEOREM LogIsReadBack == Spec => []LogReadsBack
<1>1. CleanInv => LogReadsBack
  BY CleanReadsBack
<1> QED BY <1>1, CleanInvariant, PTL
=============================================================================
