-------------------------- MODULE UdpReceiverProofs --------------------------
(***************************************************************************)
(* The receiver is safe for every set of FlowFiles, every packet, block    *)
(* and window size, and every order in which packets are lost, repeated or *)
(* overtaken.                                                              *)
(***************************************************************************)
EXTENDS UdpReceiver, WellFoundedInduction, FiniteSetTheorems, TLAPS

-----------------------------------------------------------------------------
(* The ordering buffer: what its operators return, for every block size,   *)
(* window and file length.                                                 *)

(* Every set of naturals that has an element has a least one. *)
LessThan == {ss \in Nat \X Nat : ss[1] < ss[2]}

LEMMA LessThanWellFounded == IsWellFoundedOn(LessThan, Nat)
  BY NatLessThanWellFounded DEF OpToRel, LessThan

LEMMA LeastElement ==
  ASSUME NEW T \in SUBSET Nat, T # {}
  PROVE  \E x \in T : \A y \in T : x <= y
<1>1. PICK x \in T : \A y \in T : ~(<<y, x>> \in LessThan)
  BY LessThanWellFounded, WFMin, Zenon
<1>2. \A y \in T : ~(y < x)
  BY <1>1 DEF LessThan
<1> QED BY <1>2

(* Whole blocks never reach past the cells they are made of. *)
LEMMA WholeBlocks ==
  ASSUME NEW n \in Nat
  PROVE  (n \div Block) * Block \in Nat /\ (n \div Block) * Block <= n
<1>1. Block \in Nat \ {0}
  BY BufferAssumption
<1>2. (n \div Block) \in Nat /\ (n \div Block) * Block <= n
  BY <1>1
<1> QED BY <1>1, <1>2

(* A cell the buffer has: written to the file, or waiting in the window. *)
Has(b, c) == c < b.base \/ b.mem[c] # Hole

(* The first run of a buffer is well defined. *)
LEMMA RunEndIsEnd ==
  ASSUME NEW b, b.base \in 0 .. MaxCell
  PROVE  /\ RunEnd(b) \in b.base .. MaxCell
         /\ \A c \in b.base .. RunEnd(b) - 1 : b.mem[c] # Hole
         /\ RunEnd(b) = MaxCell \/ b.mem[RunEnd(b)] = Hole
<1> MaxCell \in Nat
  BY BufferAssumption
<1> DEFINE T == {e \in b.base .. MaxCell : e = MaxCell \/ b.mem[e] = Hole}
           P(e) == /\ \A c \in b.base .. e - 1 : b.mem[c] # Hole
                   /\ e = MaxCell \/ b.mem[e] = Hole
<1>1. T \in SUBSET Nat /\ MaxCell \in T
  OBVIOUS
<1>2. PICK x \in T : \A y \in T : x <= y
  BY <1>1, LeastElement
<1>3. \A c \in b.base .. x - 1 : c \in b.base .. MaxCell /\ c < x
  BY <1>1, <1>2
<1>4. \A c \in b.base .. x - 1 : b.mem[c] # Hole
  BY <1>2, <1>3
<1>5. \E e \in b.base .. MaxCell : P(e)
  BY <1>2, <1>4
<1> HIDE DEF P
<1>6. LET e == CHOOSE e \in b.base .. MaxCell : P(e)
      IN  e \in b.base .. MaxCell /\ P(e)
  BY <1>5
<1> QED BY <1>6 DEF P, RunEnd

(* Shifting moves whole blocks from the front of the window to the file    *)
(* and loses, adds or displaces no cell.                                   *)
LEMMA ShiftKeepsCells ==
  ASSUME NEW b, b.base \in 0 .. MaxCell
  PROVE  /\ Shift(b).base \in b.base .. MaxCell
         /\ \A c \in Cell : c >= b.base /\ c < Shift(b).base => b.mem[c] # Hole
         /\ \A c \in Cell : Shift(b).mem[c] =
                              IF c < Shift(b).base THEN Hole ELSE b.mem[c]
         /\ \A c \in Cell : Shift(b).file[c] =
                              IF c >= b.base /\ c < Shift(b).base
                              THEN b.mem[c] ELSE b.file[c]
         /\ Shift(b) = [base |-> Shift(b).base, mem |-> Shift(b).mem,
                        file |-> Shift(b).file]
         /\ DOMAIN Shift(b).mem = Cell /\ DOMAIN Shift(b).file = Cell
<1> MaxCell \in Nat
  BY BufferAssumption
<1> DEFINE n == RunEnd(b) - b.base
           to == b.base + (n \div Block) * Block
<1>1. n \in Nat /\ RunEnd(b) \in b.base .. MaxCell
  BY RunEndIsEnd
<1>2. (n \div Block) * Block \in Nat /\ (n \div Block) * Block <= n
  BY <1>1, WholeBlocks
<1>3. to \in b.base .. MaxCell /\ to <= RunEnd(b)
  BY <1>1, <1>2
<1>4. Shift(b) = [base |-> to,
                  mem  |-> [c \in Cell |-> IF c < to THEN Hole ELSE b.mem[c]],
                  file |-> [c \in Cell |-> IF c >= b.base /\ c < to
                                           THEN b.mem[c] ELSE b.file[c]]]
  BY DEF Shift, Written
<1> HIDE DEF to
<1>5. \A c \in Cell : c >= b.base /\ c < to => b.mem[c] # Hole
  BY <1>1, <1>3, RunEndIsEnd DEF Cell
<1> QED BY <1>3, <1>4, <1>5

(* The run that holds a filled cell begins between base and that cell. *)
LEMMA RunStartIsStart ==
  ASSUME NEW b, b.base \in Nat, NEW c \in Nat, c >= b.base, b.mem[c] # Hole
  PROVE  RunStart(b, c) \in b.base .. c
<1> DEFINE T == {s \in b.base .. c : \A d \in s .. c : b.mem[d] # Hole}
           P(s) == /\ \A d \in s .. c : b.mem[d] # Hole
                   /\ s = b.base \/ b.mem[s - 1] = Hole
<1>1. T \in SUBSET Nat /\ c \in T
  OBVIOUS
<1>2. PICK x \in T : \A y \in T : x <= y
  BY <1>1, LeastElement
<1>3. ASSUME x # b.base, b.mem[x - 1] # Hole PROVE FALSE
  <2>1. x - 1 \in b.base .. c
    BY <1>2, <1>3
  <2>2. \A d \in x - 1 .. c : d = x - 1 \/ d \in x .. c
    BY <1>2
  <2>3. x - 1 \in T
    BY <1>2, <1>3, <2>1, <2>2
  <2> QED BY <1>2, <2>1, <2>3
<1>4. \E s \in b.base .. c : P(s)
  BY <1>2, <1>3
<1> HIDE DEF P
<1>5. LET s == CHOOSE s \in b.base .. c : P(s)
      IN  s \in b.base .. c /\ P(s)
  BY <1>4
<1> QED BY <1>5 DEF P, RunStart

(* FlushAll takes what it writes out of the window. *)
LEMMA FlushAllFromWindow ==
  ASSUME NEW b, b.base \in Nat
  PROVE  \A c \in Cell :
           b.base + c \in Filled(b)
             => b.base + (b.base + c - RunStart(b, b.base + c)) \in Cell
<1> MaxCell \in Nat
  BY BufferAssumption
<1> SUFFICES ASSUME NEW c \in Cell, b.base + c \in Filled(b)
             PROVE  b.base + (b.base + c - RunStart(b, b.base + c)) \in Cell
  OBVIOUS
<1>1. b.base + c \in Cell /\ b.mem[b.base + c] # Hole
  BY DEF Filled
<1>2. RunStart(b, b.base + c) \in b.base .. b.base + c
  BY <1>1, RunStartIsStart DEF Cell
<1> QED BY <1>1, <1>2 DEF Cell

-----------------------------------------------------------------------------
(* Packets.  The chunk with index k covers cells k * Mtu .. k * Mtu + Mtu  *)
(* - 1 of the encoding, or as many of them as there are.                   *)
LEMMA Lengths ==
  ASSUME NEW f \in Posts
  PROVE  /\ HeaderLen[f] \in Nat \ {0} /\ PayloadLen[f] \in Nat
         /\ DeclaredLen(f) \in Nat \ {0}
         /\ SentHeaderLen(f) \in Nat \ {0}
         /\ EncodedLen(f) \in Nat \ {0}
         /\ DeclaredLen(f) <= EncodedLen(f)
         /\ SentHeaderLen(f) <= EncodedLen(f)
         /\ EncodedLen(f) <= MaxCell
         /\ MaxCell \in Nat
  BY LengthAssumption, ReceiverAssumption, BufferAssumption
     DEF DeclaredLen, SentHeaderLen, EncodedLen

LEMMA ChunkIndex ==
  ASSUME NEW M \in Nat, M >= 2, NEW k \in Nat
  PROVE  (M * k + 1) \div M = k /\ M * k \in Nat
  OBVIOUS

LEMMA Quotient ==
  ASSUME NEW M \in Nat, M >= 1, NEW c \in Nat
  PROVE  /\ (c \div M) \in Nat
         /\ M * (c \div M) <= c
         /\ c < M * (c \div M) + M
  OBVIOUS

LEMMA QuotientMonotone ==
  ASSUME NEW M \in Nat, M >= 1, NEW c \in Nat, NEW d \in Nat, c <= d
  PROVE  c \div M <= d \div M
  OBVIOUS

LEMMA ChunksApart ==
  ASSUME NEW M \in Nat, M >= 1, NEW j \in Nat, NEW k \in Nat,
         NEW c \in Nat,
         c >= M * j, c < M * j + M, c >= M * k, c < M * k + M
  PROVE  j = k
<1>1. j < k => M * j + M <= M * k
  OBVIOUS
<1>2. k < j => M * k + M <= M * j
  OBVIOUS
<1> QED BY <1>1, <1>2

LEMMA PacketFacts ==
  ASSUME NEW pkt \in Packets
  PROVE  /\ pkt.post \in Posts
         /\ pkt.off \in Nat /\ pkt.len \in Nat /\ pkt.len <= Mtu
         /\ pkt.off + pkt.len <= EncodedLen(pkt.post)
         /\ Index(pkt) \in Nat
         /\ pkt.off = Mtu * Index(pkt)
         /\ pkt.off + pkt.len = EncodedLen(pkt.post) \/ pkt.len = Mtu
            \/ pkt.len = 0
<1>1. PICK f \in Posts : pkt \in PacketsOf(f)
  BY DEF Packets
<1>2. Mtu \in Nat /\ Mtu >= 2
  BY LengthAssumption
<1>3. EncodedLen(f) \in Nat
  BY Lengths
<1>4. CASE pkt = WakeUp(f)
  <2>1. pkt.post = f /\ pkt.off = 0 /\ pkt.len = 0
    BY <1>4 DEF WakeUp
  <2>2. 0 = Mtu * 0 /\ (Mtu * 0 + 1) \div Mtu = 0
    BY <1>2, ChunkIndex
  <2>3. Index(pkt) = 0
    BY <2>1, <2>2 DEF Index
  <2> QED BY <1>2, <1>3, <2>1, <2>2, <2>3
<1>5. CASE \E o \in PassOffsets(f) : pkt = Chunk(f, o)
  <2>1. PICK k \in 0 .. EncodedLen(f) \div Mtu : pkt = Chunk(f, Mtu * k)
    BY <1>5 DEF PassOffsets
  <2>2. EncodedLen(f) \div Mtu \in Nat
        /\ Mtu * (EncodedLen(f) \div Mtu) <= EncodedLen(f)
    BY <1>2, <1>3, Quotient
  <2>3. k \in Nat /\ k <= EncodedLen(f) \div Mtu
    BY <2>1, <2>2
  <2>4. Mtu * k \in Nat /\ Mtu * k <= Mtu * (EncodedLen(f) \div Mtu)
    BY <1>2, <2>2, <2>3
  <2>5. Mtu * k <= EncodedLen(f)
    BY <2>2, <2>4, <1>3, <1>2
  <2>6. pkt.post = f /\ pkt.off = Mtu * k
        /\ pkt.len = IF EncodedLen(f) - Mtu * k < Mtu
                     THEN EncodedLen(f) - Mtu * k ELSE Mtu
    BY <2>1 DEF Chunk
  <2>7. Index(pkt) = k
    BY <1>2, <2>3, <2>6, ChunkIndex DEF Index
  <2> DEFINE o == Mtu * k
  <2> HIDE DEF o
  <2>8. /\ o \in Nat /\ o <= EncodedLen(f) /\ pkt.off = o
        /\ pkt.len = IF EncodedLen(f) - o < Mtu
                     THEN EncodedLen(f) - o ELSE Mtu
    BY <2>4, <2>5, <2>6 DEF o
  <2>9. /\ pkt.off \in Nat /\ pkt.len \in Nat /\ pkt.len <= Mtu
        /\ pkt.off + pkt.len <= EncodedLen(f)
        /\ pkt.off + pkt.len = EncodedLen(f) \/ pkt.len = Mtu
    BY <1>2, <1>3, <2>8
  <2> QED BY <2>3, <2>6, <2>7, <2>9
<1> QED BY <1>1, <1>4, <1>5 DEF PacketsOf

(* The packets of a pass cover what the header declares. *)
LEMMA ChunksCover ==
  ASSUME NEW size \in Nat, NEW c \in Nat, c < size
  PROVE  /\ c \div Mtu \in 0 .. TotalChunks(size) - 1
         /\ c >= Mtu * (c \div Mtu) /\ c < Mtu * (c \div Mtu) + Mtu
<1>1. Mtu \in Nat /\ Mtu >= 2
  BY LengthAssumption
<1>2. size - 1 \in Nat /\ c <= size - 1
  OBVIOUS
<1>3. c \div Mtu \in Nat /\ (size - 1) \div Mtu \in Nat
  BY <1>1, <1>2, Quotient
<1>4. c \div Mtu <= (size - 1) \div Mtu
  BY <1>1, <1>2, QuotientMonotone
<1>5. c >= Mtu * (c \div Mtu) /\ c < Mtu * (c \div Mtu) + Mtu
  BY <1>1, Quotient
<1> QED BY <1>3, <1>4, <1>5 DEF TotalChunks

-----------------------------------------------------------------------------
(* Types: a buffer that only FlowFiles of U were written to, and what the  *)
(* operators of the buffer leave in it.                                    *)
ContentOf(U) == (U \X Cell) \cup {Hole, Junk}

BuffersOf(U) == [base : 0 .. MaxCell, mem : [Cell -> ContentOf(U)],
                 file : [Cell -> ContentOf(U)]]

LEMMA OfPosts == Buffers = BuffersOf(Posts)
  BY DEF Buffers, BuffersOf, Content, ContentOf

LEMMA ShiftTyped ==
  ASSUME NEW U, NEW b \in BuffersOf(U)
  PROVE  Shift(b) \in BuffersOf(U)
<1>1. b.base \in 0 .. MaxCell /\ b.mem \in [Cell -> ContentOf(U)]
      /\ b.file \in [Cell -> ContentOf(U)] /\ MaxCell \in Nat
  BY BufferAssumption DEF BuffersOf
<1>2. Shift(b).base \in 0 .. MaxCell
  BY <1>1, ShiftKeepsCells
<1>3. Shift(b).mem \in [Cell -> ContentOf(U)]
  BY <1>1 DEF Shift, ContentOf
<1>4. Shift(b).file \in [Cell -> ContentOf(U)]
  BY <1>1 DEF Shift, Written, ContentOf
<1>5. Shift(b) = [base |-> Shift(b).base, mem |-> Shift(b).mem,
                  file |-> Shift(b).file]
  BY <1>1, ShiftKeepsCells
<1> QED BY <1>2, <1>3, <1>4, <1>5 DEF BuffersOf

LEMMA WithTyped ==
  ASSUME NEW U, NEW b \in BuffersOf(U), NEW file \in [Cell -> ContentOf(U)]
  PROVE  /\ WithMem(b, file) \in BuffersOf(U)
         /\ WithFile(b, file) \in BuffersOf(U)
         /\ WithFile(b, file).file = file
  BY DEF BuffersOf, WithMem, WithFile

LEMMA DataTyped ==
  ASSUME NEW U, NEW pkt \in Packets, pkt.post \in U
  PROVE  Data(pkt) \in [Cell -> ContentOf(U)]
  BY PacketFacts DEF Data, ContentOf

LEMMA StraddleTyped ==
  ASSUME NEW U, NEW b \in BuffersOf(U), NEW pkt \in Packets, pkt.post \in U,
         Straddles(b, pkt.off, pkt.len)
  PROVE  StraddleFill(b, pkt.off, Data(pkt), pkt.len) \in [Cell -> ContentOf(U)]
<1> DEFINE at == 2 * b.base - pkt.off
           n == IF b.base + Window - at < pkt.len
                THEN b.base + Window - at ELSE pkt.len
<1>1. b.base \in Nat /\ b.mem \in [Cell -> ContentOf(U)] /\ MaxCell \in Nat
      /\ Window \in Nat
  BY BufferAssumption DEF BuffersOf
<1>2. pkt.off \in Nat /\ pkt.len \in Nat /\ pkt.off + pkt.len <= MaxCell
      /\ pkt.off < b.base
  BY PacketFacts, Lengths DEF Straddles
<1>3. n \in Int /\ n <= pkt.len
  BY <1>1, <1>2
<1>4. ASSUME NEW c \in Cell, c < b.base + n, c >= at
      PROVE  Data(pkt)[pkt.off + (c - at)] \in ContentOf(U)
  <2>1. n <= b.base + Window - at /\ at >= b.base /\ at \in Int /\ c \in Nat
    BY <1>1, <1>2 DEF Cell
  <2>2. c - at < pkt.len /\ c - at \in Nat
    BY <1>1, <1>2, <1>3, <1>4, <2>1
  <2>3. PICK d \in Nat : d = c - at
    BY <2>2
  <2>4. pkt.off + d \in Nat /\ pkt.off + d <= MaxCell - 1
    BY <1>1, <1>2, <2>2, <2>3
  <2>5. pkt.off + (c - at) \in Cell
    BY <1>1, <2>3, <2>4 DEF Cell
  <2> QED BY <2>5, DataTyped
<1> HIDE DEF n, at
<1>5. StraddleFill(b, pkt.off, Data(pkt), pkt.len) =
        [c \in Cell |->
           IF c < b.base \/ c >= b.base + n THEN b.mem[c]
           ELSE IF c >= at THEN Data(pkt)[pkt.off + (c - at)]
           ELSE IF b.mem[c] = Hole THEN Junk ELSE b.mem[c]]
  BY DEF StraddleFill, n, at
<1>6. \A c \in Cell : c < b.base + n \/ c >= b.base + n
  BY <1>1, <1>3 DEF Cell
<1>7. Junk \in ContentOf(U)
  BY DEF ContentOf
<1> QED BY <1>1, <1>4, <1>5, <1>6, <1>7

LEMMA WriteAtTyped ==
  ASSUME NEW U, NEW b \in BuffersOf(U), NEW pkt \in Packets,
         pkt.post \in U
  PROVE  WriteAt(b, pkt.off, Data(pkt), pkt.len) \in BuffersOf(U)
<1>1. CASE Behind(b, pkt.off, pkt.len)
  BY <1>1 DEF WriteAt
<1>2. CASE ~Behind(b, pkt.off, pkt.len) /\ Straddles(b, pkt.off, pkt.len)
  <2> DEFINE m == StraddleFill(b, pkt.off, Data(pkt), pkt.len)
  <2>1. m \in [Cell -> ContentOf(U)]
    BY <1>2, StraddleTyped
  <2> HIDE DEF m
  <2>2. WithMem(b, m) \in BuffersOf(U)
    BY <2>1, WithTyped
  <2> QED BY <1>2, <2>2, ShiftTyped DEF WriteAt, m
<1>3. CASE ~Behind(b, pkt.off, pkt.len) /\ ~Straddles(b, pkt.off, pkt.len)
  <2> DEFINE m == [c \in Cell |-> IF c >= pkt.off /\ c < pkt.off + pkt.len
                                  THEN Data(pkt)[c] ELSE b.mem[c]]
  <2>1. m \in [Cell -> ContentOf(U)]
    BY DataTyped DEF BuffersOf
  <2>2. WithMem(b, m) \in BuffersOf(U)
    BY <2>1, WithTyped
  <2>3. WriteAt(b, pkt.off, Data(pkt), pkt.len) = Shift(WithMem(b, m))
    BY <1>3 DEF WriteAt
  <2> QED BY <2>2, <2>3, ShiftTyped
<1> QED BY <1>1, <1>2, <1>3

LEMMA FilesTyped ==
  ASSUME NEW U, NEW file \in [Cell -> ContentOf(U)], NEW pkt \in Packets,
         pkt.post \in U, NEW size \in Nat
  PROVE  /\ Direct(file, pkt) \in [Cell -> ContentOf(U)]
         /\ Truncated(file, size) \in [Cell -> ContentOf(U)]
  BY PacketFacts DEF Direct, Truncated, ContentOf

LEMMA FlushAllTyped ==
  ASSUME NEW U, NEW b \in BuffersOf(U)
  PROVE  FlushAll(b) \in BuffersOf(U)
<1>1. b.base \in Nat /\ b.base \in 0 .. MaxCell
      /\ b.mem \in [Cell -> ContentOf(U)] /\ b.file \in [Cell -> ContentOf(U)]
  BY BufferAssumption DEF BuffersOf
<1> DEFINE file == [c \in Cell |->
             IF b.base + c \in Filled(b)
             THEN b.mem[b.base + (b.base + c - RunStart(b, b.base + c))]
             ELSE b.file[c]]
<1>2. ASSUME NEW c \in Cell, b.base + c \in Filled(b)
      PROVE  b.mem[b.base + (b.base + c - RunStart(b, b.base + c))] \in ContentOf(U)
  BY <1>1, <1>2, FlushAllFromWindow
<1>3. file \in [Cell -> ContentOf(U)]
  BY <1>1, <1>2
<1>4. FlushAll(b) = WithFile(b, file)
  BY DEF FlushAll
<1> HIDE DEF file
<1> QED BY <1>3, <1>4, WithTyped

LEMMA FlushedTyped ==
  ASSUME NEW U, NEW b \in BuffersOf(U)
  PROVE  Flushed(b).file \in [Cell -> ContentOf(U)]
<1>1. b.mem \in [Cell -> ContentOf(U)] /\ b.file \in [Cell -> ContentOf(U)]
  BY DEF BuffersOf
<1>2. Written(b, RunEnd(b)) \in [Cell -> ContentOf(U)]
  BY <1>1 DEF Written
<1>3. Flushed(b).file = Written(b, RunEnd(b))
  BY DEF Flushed, WithFile
<1> QED BY <1>2, <1>3

(* What a job hands on is what was written to it. *)
LEMMA ImageFrom ==
  ASSUME NEW U, NEW j, j.buf \in BuffersOf(U)
  PROVE  Image(j) \in [Cell -> ContentOf(U)]
  BY FlushedTyped DEF Image, BuffersOf

LEMMA ParsedTyped ==
  ASSUME NEW b
  PROVE  Parsed(b) \in Posts \cup {NoPost}
  BY DEF Parsed

LEMMA NewJobTyped ==
  ASSUME NEW pkt \in Packets
  PROVE  NewJob(pkt) \in Job
<1>1. Mtu \in Nat \ {0}
  BY LengthAssumption
<1>2. DeclaredLen(pkt.post) \in Nat /\ DeclaredLen(pkt.post) - 1 \in Nat
  BY PacketFacts, Lengths
<1>3. TotalChunks(DeclaredLen(pkt.post)) \in Nat
  BY <1>1, <1>2 DEF TotalChunks
<1>4. NewBuffer \in Buffers
  BY BufferAssumption DEF NewBuffer, Buffers, Blank, Content
<1> QED BY <1>2, <1>3, <1>4 DEF NewJob, Job

(* Storing a packet leaves a job and adds nothing but cells of its own     *)
(* FlowFile.                                                               *)
LEMMA StoredFrom ==
  ASSUME NEW U \in SUBSET Posts, NEW j \in Job, j.buf \in BuffersOf(U),
         NEW pkt \in Packets, pkt.post \in U
  PROVE  Stored(j, pkt) \in Job /\ Stored(j, pkt).buf \in BuffersOf(U)
<1>1. /\ j.size \in Nat /\ j.total \in Nat /\ j.seen \in SUBSET Nat
      /\ j.buf.file \in [Cell -> ContentOf(U)]
      /\ j.attrs \in Posts \cup {NoPost}
  BY DEF Job, BuffersOf
<1>2. j.seen \cup {Index(pkt)} \in SUBSET Nat
  BY <1>1, PacketFacts
<1>3. ASSUME NEW b \in BuffersOf(U), NEW noBuf \in BOOLEAN,
             NEW attrs \in Posts \cup {NoPost}
      PROVE  /\ Kept(j, pkt, noBuf, attrs, b) \in Job
             /\ Kept(j, pkt, noBuf, attrs, b).buf \in BuffersOf(U)
  <2>1. b \in Buffers
    BY DEF BuffersOf, Buffers, ContentOf, Content
  <2> QED BY <1>1, <1>2, <2>1 DEF Kept, Job
<1> DEFINE Fine(k) == k \in Job /\ k.buf \in BuffersOf(U)
<1>4. Fine(Unbuffered(j, pkt))
  <2>1. Direct(j.buf.file, pkt) \in [Cell -> ContentOf(U)]
    BY <1>1, FilesTyped
  <2>2. WithFile(j.buf, Direct(j.buf.file, pkt)) \in BuffersOf(U)
    BY <1>1, <2>1, WithTyped
  <2> QED BY <1>1, <1>3, <2>2 DEF Unbuffered
<1>5. Fine(Overflowed(j, pkt))
  <2> DEFINE d == WithFile(j.buf, Truncated(j.buf.file, j.size))
             e == FlushAll(d)
  <2>1. d \in BuffersOf(U)
    BY <1>1, FilesTyped, WithTyped
  <2>2. e \in BuffersOf(U) /\ e.file \in [Cell -> ContentOf(U)]
    BY <2>1, FlushAllTyped DEF BuffersOf
  <2> HIDE DEF e
  <2>3. Truncated(e.file, j.size) \in [Cell -> ContentOf(U)]
    BY <1>1, <2>2, FilesTyped
  <2>4. Direct(Truncated(e.file, j.size), pkt) \in [Cell -> ContentOf(U)]
    BY <1>1, <2>3, FilesTyped
  <2>5. WithFile(e, Direct(Truncated(e.file, j.size), pkt)) \in BuffersOf(U)
    BY <2>2, <2>4, WithTyped
  <2> QED BY <1>1, <1>3, <2>5 DEF Overflowed, e
<1>6. Fine(Buffered(j, pkt))
  BY <1>1, <1>3, WriteAtTyped, ParsedTyped DEF Buffered
<1> QED BY <1>4, <1>5, <1>6 DEF Stored

LEMMA StoredTyped ==
  ASSUME NEW j \in Job, NEW pkt \in Packets
  PROVE  Stored(j, pkt) \in Job
<1>1. Posts \in SUBSET Posts /\ pkt.post \in Posts /\ j.buf \in BuffersOf(Posts)
  BY PacketFacts, OfPosts DEF Job
<1> QED BY <1>1, StoredFrom

LEMMA JobForTyped ==
  ASSUME TypeOK, NEW p \in Ports, NEW pkt \in Packets
  PROVE  /\ JobFor(p, pkt) \in Job \cup {NoJob}
         /\ DoneFor(p, pkt) \in BOOLEAN
         /\ TmpFor(p, pkt) \in Int
         /\ Uuid[pkt.post] \in Uuids
  BY NewJobTyped, PacketFacts, UuidAssumption
     DEF TypeOK, JobFor, DoneFor, TmpFor, Opens

-----------------------------------------------------------------------------
(* The handlers start without jobs, *)
LEMMA TypeInit ==
  ASSUME ReceiverInit
  PROVE  TypeOK
<1> USE DEF ReceiverInit
<1>1. uuid \in [Ports -> Uuids] /\ done \in [Ports -> BOOLEAN]
  BY UuidAssumption
<1>2. /\ job \in [Ports -> Job \cup {NoJob}]
      /\ active \in [Threads -> Job \cup {NoJob}]
  OBVIOUS
<1>3. workChan = << >> /\ 0 <= QueueCap
  BY ReceiverAssumption
<1>4. workChan \in Seq(Job) /\ Len(workChan) <= QueueCap
  BY <1>3
<1>5. tmpFiles \in Int
  OBVIOUS
<1>6. crashed \in BOOLEAN
  BY Zenon
<1>7. forwarded = {} /\ rejected = {}
  OBVIOUS
<1>8. tries \in [Threads -> 0 .. RetryCount]
  BY ReceiverAssumption
<1> HIDE DEF ReceiverInit
<1> QED BY <1>1, <1>2, <1>4, <1>5, <1>6, <1>7, <1>8 DEF TypeOK

(* What an attempt to send does: the file may be taken, and the thread is  *)
(* done with it or keeps it.                                               *)
LEMMA AttemptDoes ==
  ASSUME NEW t \in Threads, NEW f \in Posts, Attempt(t, f)
  PROVE  /\ Sends(t, f) /\ active[t] # NoJob
         /\ forwarded' = forwarded \/ Taken(t, f)
         /\ rejected' = rejected
         /\ \/ Release(t)
            \/ /\ UNCHANGED <<uuid, job, done, workChan, active, tmpFiles, crashed>>
               /\ tries[t] < RetryCount
               /\ tries' = [tries EXCEPT ![t] = @ + 1]
BY DEF Attempt, Forward, LoseAnswer, SendFails, TriesAgain, Sends

(* and every step leaves jobs. *)
LEMMA TypeStep ==
  ASSUME TypeOK, [ReceiverNext]_rvars
  PROVE  TypeOK'
<1> USE DEF TypeOK
<1>1. ASSUME NEW p \in Ports, NEW pkt \in Packets, Ignore(p, pkt)
      PROVE  TypeOK'
  BY <1>1, JobForTyped DEF Ignore
<1>2. ASSUME NEW p \in Ports, NEW pkt \in Packets, NilJob(p, pkt)
      PROVE  TypeOK'
  BY <1>2 DEF NilJob
<1>3. ASSUME NEW p \in Ports, NEW pkt \in Packets, Fill(p, pkt)
      PROVE  TypeOK'
  <2>1. Stored(JobFor(p, pkt), pkt) \in Job
    BY <1>3, JobForTyped, StoredTyped DEF Fill, IsNews
  <2> QED BY <1>3, <2>1, JobForTyped DEF Fill
<1>4. ASSUME NEW p \in Ports, NEW pkt \in Packets, Complete(p, pkt)
      PROVE  TypeOK'
  <2>1. Stored(JobFor(p, pkt), pkt) \in Job
    BY <1>4, JobForTyped, StoredTyped DEF Complete, IsNews
  <2>2. workChan' = Append(workChan, Stored(JobFor(p, pkt), pkt))
    BY <1>4 DEF Complete
  <2>3. workChan' \in Seq(Job) /\ Len(workChan') <= QueueCap
    BY <1>4, <2>1, <2>2, ReceiverAssumption DEF Complete
  <2> QED BY <1>4, <2>3, JobForTyped DEF Complete
<1>5. ASSUME NEW t \in Threads, Dispatch(t)
      PROVE  TypeOK'
  <2>1. Head(workChan) \in Job /\ Tail(workChan) \in Seq(Job)
        /\ Len(Tail(workChan)) <= QueueCap
    BY <1>5, ReceiverAssumption DEF Dispatch
  <2> QED BY <1>5, <2>1 DEF Dispatch
<1>6. ASSUME NEW t \in Threads, active[t] # NoJob
      PROVE  Image(active[t]) \in [Cell -> Content]
  <2>1. active[t] \in Job /\ active[t].buf \in Buffers
    BY <1>6 DEF Job
  <2> QED BY <2>1, OfPosts, ImageFrom DEF Content, ContentOf
<1> DEFINE Rest == /\ uuid \in [Ports -> Uuids] /\ done \in [Ports -> BOOLEAN]
                   /\ job \in [Ports -> Job \cup {NoJob}]
                   /\ workChan \in Seq(Job) /\ Len(workChan) <= QueueCap
                   /\ active \in [Threads -> Job \cup {NoJob}]
                   /\ tries \in [Threads -> 0 .. RetryCount]
                   /\ tmpFiles \in Int /\ crashed \in BOOLEAN
<1>11. ASSUME NEW t \in Threads, Release(t)
       PROVE  Rest'
  <2>1. 0 \in 0 .. RetryCount
    BY ReceiverAssumption
  <2> QED BY <1>11, <2>1 DEF Release
<1>7. ASSUME NEW t \in Threads, Reject(t)
      PROVE  TypeOK'
  BY <1>6, <1>7, <1>11 DEF Reject
<1>8. ASSUME NEW t \in Threads, NEW f \in Posts, Attempt(t, f)
      PROVE  TypeOK'
  <2>1. Verdict(active[t]) \in {"passed", "skipped"}
    BY <1>8, AttemptDoes DEF Sends, Verdict
  <2>2. forwarded' \subseteq [post : Posts, verdict : {"passed", "skipped"},
                             file : [Cell -> Content]]
    BY <1>6, <1>8, <2>1, AttemptDoes DEF Taken
  <2>3. CASE Release(t)
    BY <1>8, <1>11, <2>2, <2>3, AttemptDoes
  <2>4. CASE /\ UNCHANGED <<uuid, job, done, workChan, active, tmpFiles, crashed>>
             /\ tries[t] < RetryCount
             /\ tries' = [tries EXCEPT ![t] = @ + 1]
    <3>1. tries[t] \in 0 .. RetryCount /\ RetryCount \in Nat
      BY ReceiverAssumption
    <3>2. tries[t] + 1 \in 0 .. RetryCount
      BY <2>4, <3>1
    <3>3. tries' \in [Threads -> 0 .. RetryCount]
      BY <2>4, <3>2
    <3> QED BY <1>8, <2>2, <2>4, <3>3, AttemptDoes
  <2> QED BY <1>8, <2>3, <2>4, AttemptDoes
<1>9. ASSUME NEW t \in Threads, Discard(t)
      PROVE  TypeOK'
  BY <1>9, <1>11 DEF Discard
<1>10. CASE UNCHANGED rvars
  BY <1>10 DEF rvars
<1> QED BY <1>1, <1>2, <1>3, <1>4, <1>5, <1>7, <1>8, <1>9, <1>10
        DEF ReceiverNext, Handle, Work

(* What the receiver holds is well formed: jobs, channel and results stay  *)
(* in their types, and the channel in its capacity, whatever arrives       *)
(* (handle and doWork).                                                    *)
THEOREM TypeCorrect == ReceiverSpec => []TypeOK
  BY TypeInit, TypeStep, PTL DEF ReceiverSpec

-----------------------------------------------------------------------------
(* No two FlowFiles share a UUID. *)
UniqueUuids == \A f, g \in Posts : Uuid[f] = Uuid[g] => f = g

(* The cells a job has are those of the chunks it has seen, all of them,   *)
(* and they hold what its FlowFile has there: in the file below base, in   *)
(* the window from base on.                                                *)
SeenIsStored(j, f) ==
  \A k \in j.seen : \A c \in Cell :
    c >= Mtu * k /\ c < Mtu * k + Mtu /\ c < EncodedLen(f) => Has(j.buf, c)

StoredIsSeen(j, f) ==
  \A c \in Cell : Has(j.buf, c) => c < EncodedLen(f) /\ c \div Mtu \in j.seen

DataInPlace(j, f) ==
  \A c \in Cell :
    IF c < j.buf.base THEN j.buf.file[c] = <<f, c>>
    ELSE j.buf.mem[c] # Hole => j.buf.mem[c] = <<f, c>>

(* The attributes are read once there is data behind them.                 *)
AttrsAre(attrs, f) == attrs # NoPost => attrs = f /\ PayloadLen[f] > 0

(* Job j rebuilds FlowFile f.  Once the window was missed nothing is known *)
(* of its data.                                                            *)
Rebuilds(j, f) ==
  /\ j.size = DeclaredLen(f)
  /\ j.total = TotalChunks(j.size)
  /\ ~j.noBuf => /\ SeenIsStored(j, f)
                 /\ StoredIsSeen(j, f)
                 /\ DataInPlace(j, f)
                 /\ AttrsAre(j.attrs, f)

LEMMA PostCells ==
  ASSUME NEW f \in Posts, NEW c \in Cell
  PROVE  <<f, c>> # Hole /\ <<f, c>> # Junk
  BY ReceiverAssumption

(* A new job has nothing. *)
LEMMA NewJobRebuilds ==
  ASSUME NEW pkt \in Packets
  PROVE  Rebuilds(NewJob(pkt), pkt.post)
<1> DEFINE j == NewJob(pkt)
<1>1. /\ j.size = DeclaredLen(pkt.post) /\ j.total = TotalChunks(j.size)
      /\ j.seen = {} /\ j.attrs = NoPost /\ j.buf = NewBuffer
  BY DEF NewJob
<1>2. \A c \in Cell : ~Has(NewBuffer, c) /\ ~(c < NewBuffer.base)
                      /\ NewBuffer.mem[c] = Hole
  BY BufferAssumption DEF Has, NewBuffer, Blank, Cell
<1> QED BY <1>1, <1>2 DEF Rebuilds, SeenIsStored, StoredIsSeen, DataInPlace,
        AttrsAre

(* A packet that is news to a job that rebuilds its FlowFile never falls   *)
(* behind the window, nor straddles its start: no cell of it is there yet. *)
LEMMA NewsIsAhead ==
  ASSUME NEW j \in Job, NEW pkt \in Packets, StoredIsSeen(j, pkt.post),
         pkt.len # 0, Index(pkt) \notin j.seen
  PROVE  /\ ~Behind(j.buf, pkt.off, pkt.len)
         /\ ~Straddles(j.buf, pkt.off, pkt.len)
         /\ \A c \in Cell : c >= pkt.off /\ c < pkt.off + pkt.len
                              => c \div Mtu = Index(pkt) /\ ~Has(j.buf, c)
<1>1. Mtu \in Nat /\ Mtu >= 1 /\ MaxCell \in Nat
  BY LengthAssumption, BufferAssumption
<1>2. /\ pkt.post \in Posts /\ pkt.off \in Nat /\ pkt.len \in Nat
      /\ pkt.len <= Mtu /\ pkt.off + pkt.len <= MaxCell
      /\ Index(pkt) \in Nat /\ pkt.off = Mtu * Index(pkt)
  BY PacketFacts, Lengths
<1>3. ASSUME NEW c \in Cell, c >= pkt.off, c < pkt.off + pkt.len
      PROVE  c \div Mtu = Index(pkt) /\ ~Has(j.buf, c)
  <2>1. c \in Nat
    BY <1>1 DEF Cell
  <2>2. c \div Mtu \in Nat /\ c >= Mtu * (c \div Mtu)
        /\ c < Mtu * (c \div Mtu) + Mtu
    BY <1>1, <2>1, Quotient
  <2>3. c >= Mtu * Index(pkt) /\ c < Mtu * Index(pkt) + Mtu
    <3> DEFINE o == Mtu * Index(pkt)
    <3>1. pkt.off = o
      BY <1>2
    <3> HIDE DEF o
    <3>2. c >= o /\ c < o + Mtu
      BY <1>1, <1>2, <1>3, <2>1, <3>1
    <3> QED BY <3>2 DEF o
  <2>4. c \div Mtu = Index(pkt)
    BY <1>1, <1>2, <2>1, <2>2, <2>3, ChunksApart
  <2> QED BY <2>4 DEF StoredIsSeen
<1>4. pkt.off \in Cell /\ pkt.off < pkt.off + pkt.len
  BY <1>1, <1>2 DEF Cell
<1>5. ~(pkt.off < j.buf.base)
  BY <1>2, <1>3, <1>4 DEF Has
<1> QED BY <1>3, <1>5 DEF Behind, Straddles

(* What the window holds after WriteAt has put such a packet in and        *)
(* shifted: the cells it had and those of the packet.                      *)
LEMMA WriteAhead ==
  ASSUME NEW b \in Buffers, NEW pkt \in Packets,
         ~Behind(b, pkt.off, pkt.len), ~Straddles(b, pkt.off, pkt.len),
         NEW a, a = WriteAt(b, pkt.off, Data(pkt), pkt.len)
  PROVE  /\ a.base \in b.base .. MaxCell
         /\ \A c \in Cell :
              LET new == c >= pkt.off /\ c < pkt.off + pkt.len
                  was == IF new THEN <<pkt.post, c>> ELSE b.mem[c]
              IN  /\ c >= b.base /\ c < a.base
                       => was # Hole /\ a.file[c] = was
                  /\ c < b.base => a.file[c] = b.file[c]
                  /\ c >= a.base => a.mem[c] = was
<1> DEFINE m == [c \in Cell |-> IF c >= pkt.off /\ c < pkt.off + pkt.len
                                THEN Data(pkt)[c] ELSE b.mem[c]]
           d == WithMem(b, m)
<1>1. b.base \in 0 .. MaxCell /\ MaxCell \in Nat
  BY BufferAssumption DEF Buffers
<1>2. a = Shift(d)
  BY DEF WriteAt
<1>3. d.base = b.base /\ d.mem = m /\ d.file = b.file
  BY DEF WithMem
<1>4. \A c \in Cell : m[c] = IF c >= pkt.off /\ c < pkt.off + pkt.len
                             THEN <<pkt.post, c>> ELSE b.mem[c]
  BY DEF Data
<1> HIDE DEF m, d
<1>5. /\ a.base \in b.base .. MaxCell
      /\ \A c \in Cell : c >= b.base /\ c < a.base => m[c] # Hole
      /\ \A c \in Cell : a.mem[c] = IF c < a.base THEN Hole ELSE m[c]
      /\ \A c \in Cell : a.file[c] = IF c >= b.base /\ c < a.base
                                     THEN m[c] ELSE b.file[c]
  BY <1>1, <1>2, <1>3, ShiftKeepsCells
<1> QED BY <1>1, <1>4, <1>5 DEF Cell

(* A buffered job still rebuilds its FlowFile.                             *)
LEMMA BufferedRebuilds ==
  ASSUME NEW j \in Job, NEW pkt \in Packets, Rebuilds(j, pkt.post),
         ~j.noBuf, pkt.len # 0, Index(pkt) \notin j.seen
  PROVE  Rebuilds(Buffered(j, pkt), pkt.post)
<1> DEFINE f == pkt.post
           b == j.buf
           a == WriteAt(b, pkt.off, Data(pkt), pkt.len)
           n == Buffered(j, pkt)
           New(c) == c >= pkt.off /\ c < pkt.off + pkt.len
<1>1. /\ SeenIsStored(j, f) /\ StoredIsSeen(j, f) /\ DataInPlace(j, f)
      /\ AttrsAre(j.attrs, f)
  BY DEF Rebuilds
<1>2. ~Behind(b, pkt.off, pkt.len) /\ ~Straddles(b, pkt.off, pkt.len)
      /\ \A c \in Cell : New(c) => c \div Mtu = Index(pkt) /\ ~Has(b, c)
  BY <1>1, NewsIsAhead
<1>3. b \in Buffers /\ b.base \in 0 .. MaxCell /\ MaxCell \in Nat
  BY BufferAssumption DEF Job, Buffers
<1>4. /\ a.base \in b.base .. MaxCell
      /\ \A c \in Cell :
           LET was == IF New(c) THEN <<f, c>> ELSE b.mem[c]
           IN  /\ c >= b.base /\ c < a.base => was # Hole /\ a.file[c] = was
               /\ c < b.base => a.file[c] = b.file[c]
               /\ c >= a.base => a.mem[c] = was
  BY <1>2, <1>3, WriteAhead
<1>5. /\ n.size = j.size /\ n.total = j.total
      /\ n.seen = j.seen \cup {Index(pkt)} /\ n.buf = a
      /\ n.attrs = (IF j.attrs = NoPost THEN Parsed(a) ELSE j.attrs)
  BY DEF Buffered, Kept
<1>6. f \in Posts /\ \A c \in Cell : <<f, c>> # Hole
  BY PacketFacts, PostCells
<1> HIDE DEF a, n
<1>7. \A c \in Cell : Has(a, c) <=> Has(b, c) \/ New(c)
  <2> SUFFICES ASSUME NEW c \in Cell PROVE Has(a, c) <=> Has(b, c) \/ New(c)
    OBVIOUS
  <2> DEFINE was == IF New(c) THEN <<f, c>> ELSE b.mem[c]
  <2>1. /\ c \in Nat /\ b.base \in Nat /\ a.base \in Nat /\ b.base <= a.base
        /\ c >= b.base /\ c < a.base => was # Hole
        /\ c >= a.base => a.mem[c] = was
    BY <1>3, <1>4 DEF Cell
  <2>2. was # Hole <=> New(c) \/ b.mem[c] # Hole
    BY <1>6
  <2> HIDE DEF was, New
  <2> QED BY <2>1, <2>2 DEF Has
<1>8. SeenIsStored(n, f)
  <2>1. ASSUME NEW c \in Cell, c >= Mtu * Index(pkt),
               c < Mtu * Index(pkt) + Mtu, c < EncodedLen(f)
        PROVE  New(c)
    <3> DEFINE o == Mtu * Index(pkt)
    <3>1. /\ pkt.off = o /\ pkt.off \in Nat /\ pkt.len \in Nat
          /\ pkt.off + pkt.len = EncodedLen(f) \/ pkt.len = Mtu
      BY PacketFacts
    <3>2. c >= o /\ c < o + Mtu
      BY <2>1
    <3> HIDE DEF o
    <3> QED BY <2>1, <3>1, <3>2
  <2> QED BY <1>1, <1>5, <1>7, <2>1 DEF SeenIsStored
<1>9. StoredIsSeen(n, f)
  <2>1. \A c \in Cell : New(c) => c < EncodedLen(f)
    BY PacketFacts, Lengths DEF Cell
  <2> QED BY <1>1, <1>2, <1>5, <1>7, <2>1 DEF StoredIsSeen
<1>10. DataInPlace(n, f)
  <2> SUFFICES ASSUME NEW c \in Cell
               PROVE  IF c < a.base THEN a.file[c] = <<f, c>>
                      ELSE a.mem[c] # Hole => a.mem[c] = <<f, c>>
    BY <1>5 DEF DataInPlace
  <2>1. IF c < b.base THEN b.file[c] = <<f, c>>
        ELSE b.mem[c] # Hole => b.mem[c] = <<f, c>>
    BY <1>1 DEF DataInPlace
  <2> DEFINE was == IF New(c) THEN <<f, c>> ELSE b.mem[c]
  <2>2. /\ c \in Nat /\ b.base \in Nat /\ a.base \in Nat /\ b.base <= a.base
        /\ c >= b.base /\ c < a.base => was # Hole /\ a.file[c] = was
        /\ c < b.base => a.file[c] = b.file[c]
        /\ c >= a.base => a.mem[c] = was
    BY <1>3, <1>4 DEF Cell
  <2>3. c >= b.base /\ was # Hole => was = <<f, c>>
    BY <2>1, <2>2
  <2> HIDE DEF was, New
  <2> QED BY <2>1, <2>2, <2>3
<1>11. AttrsAre(n.attrs, f)
  <2>1. CASE j.attrs # NoPost
    BY <1>1, <1>5, <2>1
  <2>2. ASSUME NEW g \in Posts, SentHeaderLen(g) + 1 <= a.base,
               HeaderIntact(g, a.file)
        PROVE  g = f /\ PayloadLen[f] > 0
    <3>1. /\ SentHeaderLen(g) \in Nat \ {0} /\ PayloadLen[g] \in Nat
          /\ EncodedLen(g) = SentHeaderLen(g) + PayloadLen[g]
          /\ EncodedLen(g) \in Nat
      BY Lengths DEF EncodedLen
    <3>2. 0 \in Cell /\ 0 < a.base /\ 0 < SentHeaderLen(g)
      BY <1>3, <1>4, <2>2, <3>1 DEF Cell
    <3>3. a.file[0] = <<g, 0>>
      BY <2>2, <3>2 DEF HeaderIntact
    <3>4. a.file[0] = <<f, 0>>
      BY <1>5, <1>10, <3>2 DEF DataInPlace
    <3>5. g = f
      BY <3>3, <3>4
    <3>6. ~(EncodedLen(f) < a.base)
      <4>1. EncodedLen(f) < a.base => EncodedLen(f) \in Cell
        BY <1>3, <1>4, <3>1, <3>5 DEF Cell
      <4>2. \A c \in Cell : c < a.base => c < EncodedLen(f)
        BY <1>5, <1>9 DEF StoredIsSeen, Has
      <4> QED BY <3>1, <3>5, <4>1, <4>2
    <3> QED BY <1>3, <1>4, <2>2, <3>1, <3>5, <3>6
  <2>3. AttrsAre(Parsed(a), f)
    <3> DEFINE fs == {g \in Posts : SentHeaderLen(g) + 1 <= a.base
                                    /\ HeaderIntact(g, a.file)}
    <3>1. Parsed(a) = IF fs = {} THEN NoPost ELSE CHOOSE g \in fs : TRUE
      BY DEF Parsed
    <3>2. \A g \in fs : g = f /\ PayloadLen[f] > 0
      BY <2>2
    <3> HIDE DEF fs
    <3>3. fs = {} \/ (CHOOSE g \in fs : TRUE) \in fs
      OBVIOUS
    <3> QED BY <3>1, <3>2, <3>3 DEF AttrsAre
  <2> QED BY <1>5, <2>1, <2>3
<1>12. n.size = DeclaredLen(f) /\ n.total = TotalChunks(n.size)
  BY <1>5 DEF Rebuilds
<1>13. Rebuilds(n, f)
  BY <1>8, <1>9, <1>10, <1>11, <1>12 DEF Rebuilds
<1> QED BY <1>13 DEF n

LEMMA StoredRebuilds ==
  ASSUME NEW j \in Job, NEW pkt \in Packets, Rebuilds(j, pkt.post),
         pkt.len # 0, Index(pkt) \notin j.seen
  PROVE  Rebuilds(Stored(j, pkt), pkt.post)
<1>1. CASE Stored(j, pkt) = Buffered(j, pkt) /\ ~j.noBuf
  BY <1>1, BufferedRebuilds
<1>2. CASE Stored(j, pkt) \in {Overflowed(j, pkt), Unbuffered(j, pkt)}
  <2>1. /\ Stored(j, pkt).size = j.size /\ Stored(j, pkt).total = j.total
        /\ Stored(j, pkt).noBuf = TRUE
    BY <1>2 DEF Overflowed, Unbuffered, Kept
  <2> QED BY <2>1 DEF Rebuilds
<1> QED BY <1>1, <1>2 DEF Stored

(* The job a packet finds on its port is one of the packet's FlowFile.     *)
LEMMA JobForRebuilds ==
  ASSUME UniqueUuids, NEW p \in Ports, NEW pkt \in Packets,
         JobFor(p, pkt) # NoJob,
         job[p] # NoJob => \E f \in Posts : Uuid[f] = uuid[p]
                                            /\ Rebuilds(job[p], f)
  PROVE  Rebuilds(JobFor(p, pkt), pkt.post)
<1>1. CASE Opens(p, pkt)
  BY <1>1, NewJobRebuilds DEF JobFor
<1>2. CASE ~Opens(p, pkt)
  <2>1. Uuid[pkt.post] = uuid[p] /\ JobFor(p, pkt) = job[p]
    BY <1>2 DEF Opens, JobFor
  <2> QED BY <2>1, PacketFacts DEF UniqueUuids
<1> QED BY <1>1, <1>2

-----------------------------------------------------------------------------
(* A job the workers have. *)
Whole(j) == AllSeen(j) /\ \E f \in Posts : Rebuilds(j, f)

JobsRebuild ==
  /\ \A p \in Ports : job[p] # NoJob =>
       \E f \in Posts : Uuid[f] = uuid[p] /\ Rebuilds(job[p], f)
  /\ \A i \in DOMAIN workChan : Whole(workChan[i])
  /\ \A t \in Threads : active[t] # NoJob => Whole(active[t])

LEMMA JobsRebuildStep ==
  ASSUME UniqueUuids, TypeOK, JobsRebuild, [ReceiverNext]_rvars
  PROVE  JobsRebuild'
<1>1. ASSUME NEW p \in Ports, NEW pkt \in Packets, JobFor(p, pkt) # NoJob
      PROVE  Rebuilds(JobFor(p, pkt), pkt.post)
  BY <1>1, JobForRebuilds DEF JobsRebuild
<1>2. ASSUME NEW p \in Ports, NEW pkt \in Packets, IsNews(p, pkt)
      PROVE  Rebuilds(Stored(JobFor(p, pkt), pkt), pkt.post)
  <2>1. JobFor(p, pkt) \in Job /\ JobFor(p, pkt) # NoJob
    BY <1>2, JobForTyped DEF IsNews
  <2>2. pkt.len # 0 /\ Index(pkt) \notin JobFor(p, pkt).seen
    BY <1>2 DEF IsNews, IsIdle
  <2> QED BY <1>1, <2>1, <2>2, StoredRebuilds
<1>3. /\ workChan \in Seq(Job)
      /\ job \in [Ports -> Job \cup {NoJob}]
      /\ uuid \in [Ports -> Uuids]
      /\ active \in [Threads -> Job \cup {NoJob}]
  BY DEF TypeOK
<1>4. ASSUME NEW p \in Ports, NEW pkt \in Packets, Ignore(p, pkt)
      PROVE  JobsRebuild'
  <2>1. ASSUME NEW q \in Ports, job'[q] # NoJob
        PROVE  \E f \in Posts : Uuid[f] = uuid'[q] /\ Rebuilds(job'[q], f)
    <3>1. CASE q = p
      <4>1. job'[p] = JobFor(p, pkt) /\ uuid'[p] = Uuid[pkt.post]
        BY <1>3, <1>4 DEF Ignore
      <4> QED BY <1>1, <2>1, <3>1, <4>1, PacketFacts
    <3>2. CASE q # p
      <4>1. job'[q] = job[q] /\ uuid'[q] = uuid[q]
        BY <1>3, <1>4, <3>2 DEF Ignore
      <4> QED BY <2>1, <4>1 DEF JobsRebuild
    <3> QED BY <3>1, <3>2
  <2>2. workChan' = workChan /\ active' = active
    BY <1>4 DEF Ignore
  <2> QED BY <2>1, <2>2 DEF JobsRebuild
<1>5. ASSUME NEW p \in Ports, NEW pkt \in Packets, NilJob(p, pkt)
      PROVE  JobsRebuild'
  BY <1>5 DEF NilJob, JobsRebuild
<1>6. ASSUME NEW p \in Ports, NEW pkt \in Packets, Fill(p, pkt)
      PROVE  JobsRebuild'
  <2>1. ASSUME NEW q \in Ports, job'[q] # NoJob
        PROVE  \E f \in Posts : Uuid[f] = uuid'[q] /\ Rebuilds(job'[q], f)
    <3>1. CASE q = p
      <4>1. /\ job'[p] = Stored(JobFor(p, pkt), pkt)
            /\ uuid'[p] = Uuid[pkt.post] /\ IsNews(p, pkt)
        BY <1>3, <1>6 DEF Fill
      <4> QED BY <1>2, <3>1, <4>1, PacketFacts
    <3>2. CASE q # p
      <4>1. job'[q] = job[q] /\ uuid'[q] = uuid[q]
        BY <1>3, <1>6, <3>2 DEF Fill
      <4> QED BY <2>1, <4>1 DEF JobsRebuild
    <3> QED BY <3>1, <3>2
  <2>2. workChan' = workChan /\ active' = active
    BY <1>6 DEF Fill
  <2> QED BY <2>1, <2>2 DEF JobsRebuild
<1>7. ASSUME NEW p \in Ports, NEW pkt \in Packets, Complete(p, pkt)
      PROVE  JobsRebuild'
  <2> DEFINE j == Stored(JobFor(p, pkt), pkt)
  <2>1. /\ IsNews(p, pkt) /\ AllSeen(j) /\ workChan' = Append(workChan, j)
        /\ active' = active
    BY <1>7 DEF Complete
  <2>2. Whole(j) /\ j \in Job
    BY <1>2, <2>1, PacketFacts, JobForTyped, StoredTyped DEF Whole, IsNews
  <2> HIDE DEF j
  <2>3. \A i \in DOMAIN workChan' : workChan'[i] = j
          \/ (i \in DOMAIN workChan /\ workChan'[i] = workChan[i])
    BY <1>3, <2>1, <2>2
  <2>4. \A i \in DOMAIN workChan' : Whole(workChan'[i])
    BY <2>2, <2>3 DEF JobsRebuild
  <2>5. ASSUME NEW q \in Ports, job'[q] # NoJob
        PROVE  \E f \in Posts : Uuid[f] = uuid'[q] /\ Rebuilds(job'[q], f)
    <3>1. q # p /\ job'[q] = job[q] /\ uuid'[q] = uuid[q]
      BY <1>3, <1>7, <2>5 DEF Complete
    <3> QED BY <2>5, <3>1 DEF JobsRebuild
  <2> QED BY <2>1, <2>4, <2>5 DEF JobsRebuild
<1>8. ASSUME NEW t \in Threads, Dispatch(t)
      PROVE  JobsRebuild'
  <2>1. /\ workChan # << >> /\ workChan' = Tail(workChan)
        /\ active' = [active EXCEPT ![t] = Head(workChan)]
        /\ job' = job /\ uuid' = uuid
    BY <1>8 DEF Dispatch
  <2>2. 1 \in DOMAIN workChan /\ Head(workChan) = workChan[1]
    BY <1>3, <2>1
  <2>3. \A i \in DOMAIN workChan' : i + 1 \in DOMAIN workChan
                                    /\ workChan'[i] = workChan[i + 1]
    BY <1>3, <2>1
  <2>4. \A i \in DOMAIN workChan' : Whole(workChan'[i])
    BY <2>3 DEF JobsRebuild
  <2>5. \A u \in Threads : active'[u] = active[u] \/ active'[u] = workChan[1]
    BY <1>3, <2>1, <2>2
  <2>6. \A u \in Threads : active'[u] # NoJob => Whole(active'[u])
    BY <2>2, <2>5 DEF JobsRebuild
  <2> QED BY <2>1, <2>4, <2>6 DEF JobsRebuild
<1>9. ASSUME NEW t \in Threads, Release(t), job' = job, uuid' = uuid
      PROVE  JobsRebuild'
  <2>1. \A u \in Threads : active'[u] = active[u] \/ active'[u] = NoJob
    BY <1>3, <1>9 DEF Release
  <2>2. \A u \in Threads : active'[u] # NoJob => Whole(active'[u])
    BY <2>1 DEF JobsRebuild
  <2> QED BY <1>9, <2>2 DEF JobsRebuild, Release
<1>10. CASE UNCHANGED <<uuid, job, workChan, active>>
  BY <1>10 DEF JobsRebuild
<1>11. ASSUME NEW t \in Threads, NEW f \in Posts, Attempt(t, f)
       PROVE  JobsRebuild'
  BY <1>9, <1>10, <1>11, AttemptDoes DEF Release
<1> QED BY <1>4, <1>5, <1>6, <1>7, <1>8, <1>9, <1>10, <1>11
        DEF ReceiverNext, Handle, Work, Reject, Discard, Release, rvars

(* Every shared invariant follows from types and rebuilt jobs. *)
LEMMA JobsRebuilt ==
  ASSUME UniqueUuids
  PROVE  ReceiverSpec => [](TypeOK /\ JobsRebuild)
<1>1. ReceiverInit => JobsRebuild
  BY DEF ReceiverInit, JobsRebuild
<1>2. TypeOK /\ JobsRebuild /\ [ReceiverNext]_rvars => JobsRebuild'
  BY JobsRebuildStep
<1> QED BY <1>1, <1>2, TypeCorrect, PTL DEF ReceiverSpec

(* With distinct UUIDs no incomplete FlowFile reaches the workers, whatever *)
(* packets are lost, repeated or overtaken, checksums added or not (handle  *)
(* and its seenChunks scan).                                                *)
THEOREM QueuedComplete ==
  ASSUME UniqueUuids
  PROVE  ReceiverSpec => []QueuedIsComplete
<1>1. ASSUME NEW j, Whole(j)
      PROVE  NoGap(j)
  <2>1. PICK f \in Posts : Rebuilds(j, f)
    BY <1>1 DEF Whole
  <2>2. 0 .. j.total - 1 \subseteq j.seen
    BY <1>1 DEF Whole, AllSeen
  <2>3. ASSUME ~j.noBuf, NEW c \in Cell, c < j.size
        PROVE  c < j.buf.base \/ j.buf.mem[c] # Hole
    <3>1. /\ j.size \in Nat /\ j.total = TotalChunks(j.size)
          /\ c \in Nat /\ c < EncodedLen(f)
      BY <2>1, <2>3, Lengths DEF Rebuilds, Cell
    <3>2. c \div Mtu \in j.seen /\ c >= Mtu * (c \div Mtu)
          /\ c < Mtu * (c \div Mtu) + Mtu
      BY <2>2, <2>3, <3>1, ChunksCover
    <3> QED BY <2>1, <2>3, <3>1, <3>2 DEF Rebuilds, SeenIsStored, Has
  <2> QED BY <2>2, <2>3 DEF NoGap
<1>2. JobsRebuild => QueuedIsComplete
  BY <1>1 DEF JobsRebuild, QueuedIsComplete
<1> QED BY <1>2, JobsRebuilt, PTL

-----------------------------------------------------------------------------
(* The first run of a window holds what its FlowFile has there. *)
LEMMA ImageUpToRunEnd ==
  ASSUME NEW j \in Job, NEW f \in Posts, Rebuilds(j, f), ~j.noBuf,
         NEW c \in Cell, c < RunEnd(j.buf)
  PROVE  Image(j)[c] = <<f, c>>
<1>1. /\ j.buf.base \in 0 .. MaxCell /\ MaxCell \in Nat
      /\ RunEnd(j.buf) \in j.buf.base .. MaxCell
      /\ \A d \in j.buf.base .. RunEnd(j.buf) - 1 : j.buf.mem[d] # Hole
  BY BufferAssumption, RunEndIsEnd DEF Job, Buffers
<1>2. Image(j)[c] = IF c >= j.buf.base /\ c < RunEnd(j.buf)
                    THEN j.buf.mem[c] ELSE j.buf.file[c]
  BY DEF Image, Flushed, Written, WithFile
<1>3. IF c < j.buf.base THEN j.buf.file[c] = <<f, c>>
      ELSE j.buf.mem[c] # Hole => j.buf.mem[c] = <<f, c>>
  BY DEF Rebuilds, DataInPlace
<1> QED BY <1>1, <1>2, <1>3 DEF Cell

(* A file whose image starts like FlowFile f and like FlowFile g is both. *)
LEMMA HeaderTells ==
  ASSUME NEW f \in Posts, NEW g \in Posts, NEW file, HeaderIntact(f, file),
         file[0] = <<g, 0>>
  PROVE  f = g
<1>1. 0 \in Cell /\ 0 < SentHeaderLen(f)
  BY Lengths DEF Cell
<1>2. file[0] = <<f, 0>>
  BY <1>1 DEF HeaderIntact
<1> QED BY <1>2

(* With distinct UUIDs a file that passed its checksum is the one that was *)
(* posted, for every window, even with files that overrun it, and whatever *)
(* packets are lost, repeated or overtaken (handle, WriterAtBuf, doWork).  *)
THEOREM PassedIntact ==
  ASSUME UniqueUuids
  PROVE  ReceiverSpec => []PassedIsIntact
<1>1. ReceiverInit => PassedIsIntact
  BY DEF ReceiverInit, PassedIsIntact
<1>2. TypeOK /\ JobsRebuild /\ PassedIsIntact /\ [ReceiverNext]_rvars
        => PassedIsIntact'
  <2> SUFFICES ASSUME TypeOK, JobsRebuild, PassedIsIntact,
                      [ReceiverNext]_rvars
               PROVE  PassedIsIntact'
    OBVIOUS
  <2>1. ASSUME NEW t \in Threads, NEW f \in Posts, Sends(t, f),
               Verdict(active[t]) = "passed"
        PROVE  Intact(f, Image(active[t]))
    <3> DEFINE j == active[t]
    <3>1. j \in Job /\ Whole(j)
      BY <2>1 DEF Sends, TypeOK, JobsRebuild
    <3>2. PICK g \in Posts : Rebuilds(j, g)
      BY <3>1 DEF Whole
    <3>3. SizeKnown(j) /\ ~j.noBuf /\ HashMatches(j)
      BY <2>1 DEF Verdict
    <3>4. j.attrs = g /\ RunEnd(j.buf) = EncodedLen(g)
      BY <3>2, <3>3 DEF Rebuilds, AttrsAre, SizeKnown, HashMatches
    <3>5. \A c \in Cell : c < EncodedLen(g) => Image(j)[c] = <<g, c>>
      BY <3>1, <3>2, <3>3, <3>4, ImageUpToRunEnd
    <3>6. 0 \in Cell /\ 0 < EncodedLen(g)
      BY Lengths DEF Cell
    <3>7. HeaderIntact(f, Image(j))
      BY <2>1 DEF Sends
    <3>8. f = g
      BY <3>5, <3>6, <3>7, HeaderTells
    <3> QED BY <3>5, <3>8 DEF Intact
  <2>2. ASSUME NEW t \in Threads, NEW f \in Posts, Attempt(t, f)
        PROVE  PassedIsIntact'
    <3>1. \A r \in forwarded' : r \in forwarded
            \/ r = [post |-> f, verdict |-> Verdict(active[t]),
                    file |-> Image(active[t])]
      BY <2>2, AttemptDoes DEF Taken
    <3>2. \A r \in forwarded' : r.verdict = "passed" => Intact(r.post, r.file)
      BY <2>1, <2>2, <3>1, AttemptDoes DEF PassedIsIntact
    <3> QED BY <3>2 DEF PassedIsIntact
  <2>3. CASE forwarded' = forwarded
    BY <2>3 DEF PassedIsIntact
  <2> QED BY <2>2, <2>3 DEF ReceiverNext, Handle, Work, Ignore, NilJob, Fill,
        Complete, Dispatch, Reject, Discard, rvars
<1> QED BY <1>1, <1>2, JobsRebuilt, PTL DEF ReceiverSpec

-----------------------------------------------------------------------------
(* Every FlowFile fits the window, and is as long as its header declares.  *)
AllFit == \A f \in Posts : EncodedLen(f) <= Window /\ ~SumAdded(f)

NothingUnbuffered ==
  /\ \A p \in Ports : job[p] # NoJob => ~job[p].noBuf
  /\ \A i \in DOMAIN workChan : ~workChan[i].noBuf
  /\ \A t \in Threads : active[t] # NoJob => ~active[t].noBuf

(* A buffer that has every cell of a FlowFile has one run of them. *)
LEMMA WholeRun ==
  ASSUME AllFit, NEW j \in Job, Whole(j), ~j.noBuf,
         NEW g \in Posts, Rebuilds(j, g)
  PROVE  RunEnd(j.buf) >= EncodedLen(g)
<1>1. /\ j.size = EncodedLen(g) /\ j.size \in Nat \ {0}
      /\ j.total = TotalChunks(j.size) /\ EncodedLen(g) <= MaxCell
      /\ MaxCell \in Nat
  BY Lengths DEF Rebuilds, AllFit, EncodedLen, DeclaredLen, SentHeaderLen
<1>2. ASSUME NEW c \in Cell, c < EncodedLen(g)
      PROVE  Has(j.buf, c)
  <2>1. c \in Nat /\ c < j.size
    BY <1>1, <1>2 DEF Cell
  <2>2. c \div Mtu \in j.seen /\ c >= Mtu * (c \div Mtu)
        /\ c < Mtu * (c \div Mtu) + Mtu
    BY <1>1, <2>1, ChunksCover DEF Whole, AllSeen
  <2> QED BY <1>2, <2>2 DEF Rebuilds, SeenIsStored
<1>3. /\ j.buf.base \in 0 .. MaxCell
      /\ RunEnd(j.buf) \in j.buf.base .. MaxCell
      /\ RunEnd(j.buf) = MaxCell \/ j.buf.mem[RunEnd(j.buf)] = Hole
  BY RunEndIsEnd DEF Job, Buffers
<1>4. RunEnd(j.buf) < MaxCell => RunEnd(j.buf) \in Cell
  BY <1>1, <1>3 DEF Cell
<1> QED BY <1>1, <1>2, <1>3, <1>4 DEF Has

LEMMA WholeImage ==
  ASSUME AllFit, NEW j \in Job, Whole(j), ~j.noBuf,
         NEW f \in Posts, HeaderIntact(f, Image(j))
  PROVE  Intact(f, Image(j))
<1>1. PICK g \in Posts : Rebuilds(j, g)
  BY DEF Whole
<1>2. /\ RunEnd(j.buf) >= EncodedLen(g) /\ RunEnd(j.buf) \in Int
      /\ EncodedLen(g) \in Nat
  BY <1>1, WholeRun, RunEndIsEnd, Lengths DEF Job, Buffers
<1>3. \A c \in Cell : c < EncodedLen(g) => Image(j)[c] = <<g, c>>
  BY <1>1, <1>2, ImageUpToRunEnd DEF Cell
<1>4. 0 \in Cell /\ 0 < EncodedLen(g)
  BY Lengths DEF Cell
<1>5. f = g
  BY <1>3, <1>4, HeaderTells
<1> QED BY <1>3, <1>5 DEF Intact

LEMMA StoredInWindow ==
  ASSUME AllFit, NEW j \in Job, NEW pkt \in Packets, ~j.noBuf
  PROVE  ~Stored(j, pkt).noBuf
<1>1. /\ pkt.off \in Nat /\ pkt.len \in Nat
      /\ EncodedLen(pkt.post) \in Nat /\ EncodedLen(pkt.post) <= Window
      /\ pkt.off + pkt.len <= EncodedLen(pkt.post)
  BY PacketFacts, Lengths DEF AllFit
<1>2. j.buf.base \in Nat /\ Window \in Nat
  BY BufferAssumption DEF Job, Buffers
<1>3. ~Misses(j.buf, pkt.off, pkt.len)
  BY <1>1, <1>2 DEF Misses
<1>4. Stored(j, pkt) = Buffered(j, pkt)
  BY <1>3 DEF Stored
<1> QED BY <1>4 DEF Buffered, Kept

LEMMA NothingUnbufferedStep ==
  ASSUME AllFit, TypeOK, NothingUnbuffered, [ReceiverNext]_rvars
  PROVE  NothingUnbuffered'
<1>1. /\ workChan \in Seq(Job)
      /\ job \in [Ports -> Job \cup {NoJob}]
      /\ active \in [Threads -> Job \cup {NoJob}]
  BY DEF TypeOK
<1>2. ASSUME NEW p \in Ports, NEW pkt \in Packets, JobFor(p, pkt) # NoJob
      PROVE  ~JobFor(p, pkt).noBuf /\ JobFor(p, pkt) \in Job
  BY <1>2, JobForTyped DEF JobFor, NewJob, NothingUnbuffered
<1>3. ASSUME NEW p \in Ports, NEW pkt \in Packets, IsNews(p, pkt)
      PROVE  /\ ~Stored(JobFor(p, pkt), pkt).noBuf
             /\ Stored(JobFor(p, pkt), pkt) \in Job
  BY <1>2, <1>3, StoredInWindow, StoredTyped DEF IsNews
<1>4. ASSUME NEW p \in Ports, NEW pkt \in Packets, Ignore(p, pkt)
      PROVE  NothingUnbuffered'
  <2>1. \A q \in Ports : job'[q] = job[q] \/ job'[q] = JobFor(p, pkt)
    BY <1>1, <1>4 DEF Ignore
  <2> QED BY <1>2, <1>4, <2>1 DEF Ignore, NothingUnbuffered
<1>5. ASSUME NEW p \in Ports, NEW pkt \in Packets, Fill(p, pkt)
      PROVE  NothingUnbuffered'
  <2>1. \A q \in Ports : job'[q] = job[q]
                         \/ job'[q] = Stored(JobFor(p, pkt), pkt)
    BY <1>1, <1>5 DEF Fill
  <2>2. IsNews(p, pkt) /\ workChan' = workChan /\ active' = active
    BY <1>5 DEF Fill
  <2> QED BY <1>3, <2>1, <2>2 DEF NothingUnbuffered
<1>6. ASSUME NEW p \in Ports, NEW pkt \in Packets, Complete(p, pkt)
      PROVE  NothingUnbuffered'
  <2> DEFINE j == Stored(JobFor(p, pkt), pkt)
  <2>1. /\ \A q \in Ports : job'[q] = job[q] \/ job'[q] = NoJob
        /\ IsNews(p, pkt) /\ workChan' = Append(workChan, j)
        /\ active' = active
    BY <1>1, <1>6 DEF Complete
  <2>2. ~j.noBuf /\ j \in Job
    BY <1>3, <2>1
  <2> HIDE DEF j
  <2>3. \A i \in DOMAIN workChan' : workChan'[i] = j
          \/ (i \in DOMAIN workChan /\ workChan'[i] = workChan[i])
    BY <1>1, <2>1, <2>2
  <2> QED BY <2>1, <2>2, <2>3 DEF NothingUnbuffered
<1>7. ASSUME NEW t \in Threads, Dispatch(t)
      PROVE  NothingUnbuffered'
  <2>1. /\ workChan # << >> /\ workChan' = Tail(workChan)
        /\ active' = [active EXCEPT ![t] = Head(workChan)] /\ job' = job
    BY <1>7 DEF Dispatch
  <2>2. 1 \in DOMAIN workChan /\ Head(workChan) = workChan[1]
    BY <1>1, <2>1
  <2>3. \A i \in DOMAIN workChan' : i + 1 \in DOMAIN workChan
                                    /\ workChan'[i] = workChan[i + 1]
    BY <1>1, <2>1
  <2>4. \A u \in Threads : active'[u] = active[u] \/ active'[u] = workChan[1]
    BY <1>1, <2>1, <2>2
  <2> QED BY <2>1, <2>2, <2>3, <2>4 DEF NothingUnbuffered
<1>8. ASSUME NEW t \in Threads, Release(t), job' = job
      PROVE  NothingUnbuffered'
  <2>1. \A u \in Threads : active'[u] = active[u] \/ active'[u] = NoJob
    BY <1>1, <1>8 DEF Release
  <2> QED BY <1>8, <2>1 DEF NothingUnbuffered, Release
<1>9. CASE UNCHANGED <<job, workChan, active>>
  BY <1>9 DEF NothingUnbuffered
<1>10. ASSUME NEW t \in Threads, NEW f \in Posts, Attempt(t, f)
       PROVE  NothingUnbuffered'
  BY <1>8, <1>9, <1>10, AttemptDoes DEF Release
<1> QED BY <1>4, <1>5, <1>6, <1>7, <1>8, <1>9, <1>10
        DEF ReceiverNext, Handle, Work, NilJob, Reject, Discard,
            Release, rvars

LEMMA NothingSpills ==
  ASSUME AllFit
  PROVE  ReceiverSpec => []NothingUnbuffered
<1>1. ReceiverInit => NothingUnbuffered
  BY DEF ReceiverInit, NothingUnbuffered
<1>2. TypeOK /\ NothingUnbuffered /\ [ReceiverNext]_rvars
        => NothingUnbuffered'
  BY NothingUnbufferedStep
<1> QED BY <1>1, <1>2, TypeCorrect, PTL DEF ReceiverSpec

(* With distinct UUIDs, and FlowFiles that fit the window and are as long  *)
(* as declared, everything that is sent on is what was posted, verified or *)
(* not (handle, WriterAtBuf, doWork).                                      *)
THEOREM AllForwardedIntact ==
  ASSUME UniqueUuids, AllFit
  PROVE  ReceiverSpec => []ForwardedIntact
<1>1. ReceiverInit => ForwardedIntact
  BY DEF ReceiverInit, ForwardedIntact
<1>2. ReceiverSpec => []NothingUnbuffered
  BY NothingSpills
<1>3. TypeOK /\ JobsRebuild /\ NothingUnbuffered /\ ForwardedIntact
        /\ [ReceiverNext]_rvars => ForwardedIntact'
  <2> SUFFICES ASSUME TypeOK, JobsRebuild, NothingUnbuffered,
                      ForwardedIntact, [ReceiverNext]_rvars
               PROVE  ForwardedIntact'
    OBVIOUS
  <2>1. ASSUME NEW t \in Threads, NEW f \in Posts, Attempt(t, f)
        PROVE  ForwardedIntact'
    <3>1. active[t] \in Job /\ Whole(active[t]) /\ ~active[t].noBuf
          /\ HeaderIntact(f, Image(active[t]))
      BY <2>1, AttemptDoes DEF Sends, TypeOK, JobsRebuild, NothingUnbuffered
    <3>2. Intact(f, Image(active[t]))
      BY <3>1, WholeImage
    <3>3. \A r \in forwarded' : r \in forwarded
            \/ r = [post |-> f, verdict |-> Verdict(active[t]),
                    file |-> Image(active[t])]
      BY <2>1, AttemptDoes DEF Taken
    <3> QED BY <3>2, <3>3 DEF ForwardedIntact
  <2>2. CASE forwarded' = forwarded
    BY <2>2 DEF ForwardedIntact
  <2> QED BY <2>1, <2>2 DEF ReceiverNext, Handle, Work, Ignore, NilJob, Fill,
        Complete, Dispatch, Reject, Discard, rvars
<1> QED BY <1>1, <1>2, <1>3, JobsRebuilt, PTL DEF ReceiverSpec

-----------------------------------------------------------------------------
(* Once a port has a UUID it has a job, or is done with it. *)
JobOrDone == \A p \in Ports : uuid[p] # NoUuid => job[p] # NoJob \/ done[p]

(* When no FlowFile has the zero UUID a handler never follows a nil job,   *)
(* whatever arrives and however late (handle).                             *)
THEOREM NilJobNever ==
  ASSUME \A f \in Posts : Uuid[f] # NoUuid
  PROVE  ReceiverSpec => []NoNilJob
<1>1. ReceiverInit => JobOrDone /\ NoNilJob
  BY DEF ReceiverInit, JobOrDone, NoNilJob
<1>2. TypeOK /\ JobOrDone /\ NoNilJob /\ [ReceiverNext]_rvars
        => JobOrDone' /\ NoNilJob'
  <2> SUFFICES ASSUME TypeOK, JobOrDone, NoNilJob, [ReceiverNext]_rvars
               PROVE  JobOrDone' /\ NoNilJob'
    OBVIOUS
  <2>1. /\ job \in [Ports -> Job \cup {NoJob}]
        /\ uuid \in [Ports -> Uuids] /\ done \in [Ports -> BOOLEAN]
    BY DEF TypeOK
  <2>2. ASSUME NEW p \in Ports, NEW pkt \in Packets
        PROVE  JobFor(p, pkt) # NoJob \/ DoneFor(p, pkt)
    <3>1. CASE Opens(p, pkt)
      BY <3>1, NewJobTyped, NilAssumption DEF JobFor
    <3>2. CASE ~Opens(p, pkt)
      <4>1. uuid[p] # NoUuid
        BY <3>2, PacketFacts DEF Opens
      <4> QED BY <3>2, <4>1 DEF JobOrDone, JobFor, DoneFor
    <3> QED BY <3>1, <3>2
  <2>3. ASSUME NEW p \in Ports, NEW pkt \in Packets, Ignore(p, pkt)
        PROVE  JobOrDone' /\ NoNilJob'
    <3>1. \A q \in Ports :
            IF q = p THEN job'[q] = JobFor(p, pkt) /\ done'[q] = DoneFor(p, pkt)
            ELSE job'[q] = job[q] /\ done'[q] = done[q] /\ uuid'[q] = uuid[q]
      BY <2>1, <2>3 DEF Ignore
    <3> QED BY <2>2, <2>3, <3>1 DEF JobOrDone, NoNilJob, Ignore
  <2>4. ASSUME NEW p \in Ports, NEW pkt \in Packets, NilJob(p, pkt)
        PROVE  FALSE
    BY <2>2, <2>4 DEF NilJob, IsIdle
  <2>5. ASSUME NEW p \in Ports, NEW pkt \in Packets, Fill(p, pkt)
        PROVE  JobOrDone' /\ NoNilJob'
    <3>1. Stored(JobFor(p, pkt), pkt) # NoJob
      BY <2>5, JobForTyped, StoredTyped, NilAssumption DEF Fill, IsNews
    <3>2. \A q \in Ports :
            IF q = p THEN job'[q] = Stored(JobFor(p, pkt), pkt)
            ELSE job'[q] = job[q] /\ done'[q] = done[q] /\ uuid'[q] = uuid[q]
      BY <2>1, <2>5 DEF Fill
    <3> QED BY <2>5, <3>1, <3>2 DEF JobOrDone, NoNilJob, Fill
  <2>6. ASSUME NEW p \in Ports, NEW pkt \in Packets, Complete(p, pkt)
        PROVE  JobOrDone' /\ NoNilJob'
    <3>1. \A q \in Ports :
            IF q = p THEN done'[q]
            ELSE job'[q] = job[q] /\ done'[q] = done[q] /\ uuid'[q] = uuid[q]
      BY <2>1, <2>6 DEF Complete
    <3> QED BY <2>6, <3>1 DEF JobOrDone, NoNilJob, Complete
  <2>7. CASE UNCHANGED <<uuid, job, done, crashed>>
    BY <2>7 DEF JobOrDone, NoNilJob
  <2>8. ASSUME NEW t \in Threads, NEW f \in Posts, Attempt(t, f)
        PROVE  JobOrDone' /\ NoNilJob'
    BY <2>7, <2>8, AttemptDoes DEF Release
  <2> QED BY <2>3, <2>4, <2>5, <2>6, <2>7, <2>8
        DEF ReceiverNext, Handle, Work, Dispatch, Reject, Discard,
            Release, rvars
<1> QED BY <1>1, <1>2, TypeCorrect, PTL DEF ReceiverSpec

-----------------------------------------------------------------------------
(* What the temporary files are counted against. *)
Rebuilding == {p \in Ports : job[p] # NoJob}
Verifying == {t \in Threads : active[t] # NoJob}

(* Only finitely many ports and threads ever hold a job at a time, so that *)
(* they can be counted however many there are.                             *)
TmpCounted ==
  /\ IsFiniteSet(Rebuilding)
  /\ IsFiniteSet(Verifying)
  /\ tmpFiles = Cardinality(Rebuilding) + Len(workChan)
                  + Cardinality(Verifying)

(* A packet makes a temporary file when it gives its port a first job. *)
LEMMA TmpForFirstJob ==
  ASSUME NEW p \in Ports, NEW pkt \in Packets
  PROVE  /\ TmpFor(p, pkt) = IF Opens(p, pkt) /\ p \notin Rebuilding
                             THEN tmpFiles + 1 ELSE tmpFiles
         /\ ~Opens(p, pkt) /\ JobFor(p, pkt) # NoJob => p \in Rebuilding
         /\ Opens(p, pkt) => JobFor(p, pkt) # NoJob
  BY NewJobTyped, NilAssumption DEF TmpFor, Rebuilding, JobFor

LEMMA TmpCountedStep ==
  ASSUME TypeOK, TmpCounted, [ReceiverNext]_rvars
  PROVE  TmpCounted'
<1>1. /\ workChan \in Seq(Job) /\ tmpFiles \in Int
      /\ job \in [Ports -> Job \cup {NoJob}]
      /\ active \in [Threads -> Job \cup {NoJob}]
      /\ Len(workChan) \in Nat
  BY DEF TypeOK
<1>2. /\ IsFiniteSet(Rebuilding) /\ Cardinality(Rebuilding) \in Nat
      /\ IsFiniteSet(Verifying) /\ Cardinality(Verifying) \in Nat
      /\ tmpFiles = Cardinality(Rebuilding) + Len(workChan)
                      + Cardinality(Verifying)
  BY FS_CardinalityType DEF TmpCounted
<1>3. ASSUME NEW p \in Ports, NEW pkt \in Packets, NEW j, j # NoJob,
             JobFor(p, pkt) # NoJob,
             job' = [job EXCEPT ![p] = j], tmpFiles' = TmpFor(p, pkt),
             workChan' = workChan, active' = active
      PROVE  TmpCounted'
  <2>1. Rebuilding' = Rebuilding \cup {p} /\ Verifying' = Verifying
    BY <1>1, <1>3 DEF Rebuilding, Verifying
  <2>2. /\ IsFiniteSet(Rebuilding \cup {p})
        /\ Cardinality(Rebuilding \cup {p}) =
             IF p \in Rebuilding THEN Cardinality(Rebuilding)
             ELSE Cardinality(Rebuilding) + 1
    BY <1>2, FS_AddElement
  <2>3. tmpFiles' = IF p \in Rebuilding THEN tmpFiles ELSE tmpFiles + 1
    BY <1>3, TmpForFirstJob
  <2>4. IsFiniteSet(Rebuilding') /\ IsFiniteSet(Verifying')
    BY <1>2, <2>1, <2>2
  <2>5. tmpFiles' = Cardinality(Rebuilding \cup {p}) + Len(workChan)
                      + Cardinality(Verifying)
    BY <1>1, <1>2, <2>2, <2>3
  <2> QED BY <1>3, <2>1, <2>4, <2>5 DEF TmpCounted
<1>4. ASSUME NEW p \in Ports, NEW pkt \in Packets, Ignore(p, pkt)
      PROVE  TmpCounted'
  <2>1. CASE JobFor(p, pkt) # NoJob
    BY <1>3, <1>4, <2>1 DEF Ignore
  <2>2. CASE JobFor(p, pkt) = NoJob
    <3>1. ~Opens(p, pkt)
      BY <2>2, TmpForFirstJob
    <3>2. job[p] = NoJob /\ TmpFor(p, pkt) = tmpFiles
      BY <2>2, <3>1, TmpForFirstJob DEF JobFor
    <3>3. job' = job /\ tmpFiles' = tmpFiles
      BY <1>1, <1>4, <2>2, <3>2 DEF Ignore
    <3>4. Rebuilding' = Rebuilding /\ Verifying' = Verifying
      BY <1>4, <3>3 DEF Rebuilding, Verifying, Ignore
    <3> QED BY <1>2, <1>4, <3>3, <3>4 DEF Ignore, TmpCounted
  <2> QED BY <2>1, <2>2
<1>5. ASSUME NEW p \in Ports, NEW pkt \in Packets, Fill(p, pkt)
      PROVE  TmpCounted'
  <2>1. JobFor(p, pkt) \in Job /\ JobFor(p, pkt) # NoJob
    BY <1>5, JobForTyped DEF Fill, IsNews
  <2>2. Stored(JobFor(p, pkt), pkt) # NoJob
    BY <2>1, StoredTyped, NilAssumption
  <2> QED BY <1>3, <1>5, <2>1, <2>2 DEF Fill
<1>6. ASSUME NEW p \in Ports, NEW pkt \in Packets, Complete(p, pkt)
      PROVE  TmpCounted'
  <2> DEFINE j == Stored(JobFor(p, pkt), pkt)
  <2>1. /\ JobFor(p, pkt) \in Job /\ JobFor(p, pkt) # NoJob
        /\ job' = [job EXCEPT ![p] = NoJob] /\ tmpFiles' = TmpFor(p, pkt)
        /\ workChan' = Append(workChan, j) /\ active' = active
    BY <1>6, JobForTyped DEF Complete, IsNews
  <2>2. j \in Job
    BY <2>1, StoredTyped
  <2> HIDE DEF j
  <2>3. Len(workChan') = Len(workChan) + 1
    BY <1>1, <2>1, <2>2
  <2>4. Rebuilding' = Rebuilding \ {p} /\ Verifying' = Verifying
    BY <1>1, <2>1 DEF Rebuilding, Verifying
  <2>5. /\ IsFiniteSet(Rebuilding \ {p})
        /\ Cardinality(Rebuilding \ {p}) =
             IF p \in Rebuilding THEN Cardinality(Rebuilding) - 1
             ELSE Cardinality(Rebuilding)
    BY <1>2, FS_RemoveElement
  <2>6. tmpFiles' = IF p \in Rebuilding THEN tmpFiles ELSE tmpFiles + 1
    BY <2>1, TmpForFirstJob
  <2>7. tmpFiles' = Cardinality(Rebuilding \ {p}) + (Len(workChan) + 1)
                      + Cardinality(Verifying)
    BY <1>1, <1>2, <2>5, <2>6
  <2> QED BY <1>2, <2>3, <2>4, <2>5, <2>7 DEF TmpCounted
<1>7. ASSUME NEW t \in Threads, Dispatch(t)
      PROVE  TmpCounted'
  <2>1. /\ workChan # << >> /\ workChan' = Tail(workChan)
        /\ active[t] = NoJob
        /\ active' = [active EXCEPT ![t] = Head(workChan)]
        /\ job' = job /\ tmpFiles' = tmpFiles
    BY <1>7 DEF Dispatch
  <2>2. Head(workChan) # NoJob /\ Len(workChan') = Len(workChan) - 1
    BY <1>1, <2>1, NilAssumption
  <2>3. /\ Verifying' = Verifying \cup {t} /\ t \notin Verifying
        /\ Rebuilding' = Rebuilding
    BY <1>1, <2>1, <2>2 DEF Rebuilding, Verifying
  <2>4. /\ IsFiniteSet(Verifying \cup {t})
        /\ Cardinality(Verifying \cup {t}) = Cardinality(Verifying) + 1
    BY <1>2, <2>3, FS_AddElement
  <2> QED BY <1>1, <1>2, <2>1, <2>2, <2>3, <2>4 DEF TmpCounted
<1>8. ASSUME NEW t \in Threads, active[t] # NoJob, Release(t)
      PROVE  TmpCounted'
  <2>1. /\ active' = [active EXCEPT ![t] = NoJob] /\ tmpFiles' = tmpFiles - 1
        /\ job' = job /\ workChan' = workChan
    BY <1>8 DEF Release
  <2>2. /\ Verifying' = Verifying \ {t} /\ t \in Verifying
        /\ Rebuilding' = Rebuilding
    BY <1>1, <1>8, <2>1 DEF Rebuilding, Verifying
  <2>3. /\ IsFiniteSet(Verifying \ {t})
        /\ Cardinality(Verifying \ {t}) = Cardinality(Verifying) - 1
    BY <1>2, <2>2, FS_RemoveElement
  <2> QED BY <1>1, <1>2, <2>1, <2>2, <2>3 DEF TmpCounted
<1>9. CASE UNCHANGED <<job, workChan, active, tmpFiles>>
  BY <1>9 DEF TmpCounted, Rebuilding, Verifying
<1>10. ASSUME NEW t \in Threads, NEW f \in Posts, Attempt(t, f)
       PROVE  TmpCounted'
  BY <1>8, <1>9, <1>10, AttemptDoes
<1> QED BY <1>4, <1>5, <1>6, <1>7, <1>8, <1>9, <1>10
        DEF ReceiverNext, Handle, Work, NilJob, Reject, Discard, rvars

(* Every temporary file belongs to a job that is being rebuilt, queued or  *)
(* verified, for any number of ports and threads: whatever arrives, none   *)
(* is left behind (handle, doWork and its deferred os.Remove).             *)
THEOREM TmpFilesOwned == ReceiverSpec => []NoStrayTmpFile
<1>1. ReceiverInit => TmpCounted
  <2> SUFFICES ASSUME ReceiverInit PROVE TmpCounted
    OBVIOUS
  <2>1. Rebuilding = {} /\ Verifying = {}
    BY DEF ReceiverInit, Rebuilding, Verifying
  <2>2. tmpFiles = 0 /\ Len(workChan) = 0
    BY DEF ReceiverInit
  <2>3. IsFiniteSet({}) /\ Cardinality({}) = 0
    BY FS_EmptySet
  <2> QED BY <2>1, <2>2, <2>3 DEF TmpCounted
<1>2. TypeOK /\ TmpCounted /\ [ReceiverNext]_rvars => TmpCounted'
  BY TmpCountedStep
<1>3. TmpCounted => NoStrayTmpFile
  BY DEF TmpCounted, NoStrayTmpFile, Rebuilding, Verifying
<1> QED BY <1>1, <1>2, <1>3, TypeCorrect, PTL DEF ReceiverSpec

-----------------------------------------------------------------------------
(* A whole job of a FlowFile that fits the window and carries a good       *)
(* checksum never fails its verification.                                  *)
LEMMA WholePasses ==
  ASSUME AllFit, NEW j \in Job, Whole(j), ~j.noBuf,
         NEW g \in Posts, Rebuilds(j, g), Sum[g] = "good"
  PROVE  Verdict(j) # "failed"
<1> SUFFICES ASSUME SizeKnown(j) PROVE Verdict(j) # "failed"
  BY DEF Verdict
<1>1. Rebuilds(j, g)
  OBVIOUS
<1>2. j.attrs = g /\ SumPresent(g) /\ Sum[g] # "bad"
  BY DEF SizeKnown, Rebuilds, AttrsAre, SumPresent
<1>3. EncodedLen(g) \in Nat /\ MaxCell \in Nat /\ EncodedLen(g) <= MaxCell
  BY Lengths
<1>4. RunEnd(j.buf) = EncodedLen(g) /\ ~FlushFails(j.buf)
  <2>1. /\ j.buf.base \in 0 .. MaxCell
        /\ RunEnd(j.buf) \in j.buf.base .. MaxCell
        /\ \A c \in j.buf.base .. RunEnd(j.buf) - 1 : j.buf.mem[c] # Hole
    BY RunEndIsEnd DEF Job, Buffers
  <2>2. \A c \in Cell : Has(j.buf, c) => c < EncodedLen(g)
    BY <1>1 DEF Rebuilds, StoredIsSeen
  <2>3. RunEnd(j.buf) >= EncodedLen(g)
    BY <1>1, WholeRun
  <2>4. ~(RunEnd(j.buf) > EncodedLen(g))
    <3> SUFFICES ASSUME RunEnd(j.buf) > EncodedLen(g) PROVE FALSE
      OBVIOUS
    <3>1. EncodedLen(g) \in Cell /\ EncodedLen(g) <= RunEnd(j.buf) - 1
      BY <1>3, <2>1 DEF Cell
    <3>2. Has(j.buf, EncodedLen(g))
      BY <1>3, <2>1, <3>1 DEF Has
    <3> QED BY <1>3, <2>2, <3>1, <3>2
  <2>5. RunEnd(j.buf) = EncodedLen(g)
    BY <1>3, <2>1, <2>3, <2>4
  <2> QED BY <1>3, <2>2, <2>5 DEF FlushFails, Filled, Has, Cell
<1>5. \A c \in Cell : c < EncodedLen(g) => Image(j)[c] = <<g, c>>
  BY <1>1, <1>4, ImageUpToRunEnd
<1>6. Image(j) = Flushed(j.buf).file
  BY DEF Image
<1>7. HashMatches(j)
  BY <1>2, <1>4, <1>5, <1>6 DEF HashMatches
<1> QED BY <1>2, <1>4, <1>7 DEF Verdict

(* A whole job is intact for no FlowFile but the one it rebuilds. *)
LEMMA WholeIsOne ==
  ASSUME AllFit, NEW j \in Job, Whole(j), ~j.noBuf,
         NEW g \in Posts, Rebuilds(j, g), NEW f \in Posts, Intact(f, Image(j))
  PROVE  f = g
<1>1. RunEnd(j.buf) >= EncodedLen(g) /\ RunEnd(j.buf) \in Int
  BY WholeRun, RunEndIsEnd DEF Job, Buffers
<1>2. /\ EncodedLen(f) \in Nat \ {0} /\ EncodedLen(g) \in Nat \ {0}
      /\ 0 \in Cell
  BY Lengths DEF Cell
<1>3. Image(j)[0] = <<g, 0>>
  BY <1>1, <1>2, ImageUpToRunEnd
<1>4. Image(j)[0] = <<f, 0>>
  BY <1>2 DEF Intact
<1> QED BY <1>3, <1>4

GoodKept ==
  \A file \in rejected : \A f \in Posts : Sum[f] = "good" => ~Intact(f, file)

(* With distinct UUIDs and FlowFiles that fit the window, no FlowFile that *)
(* carries a good checksum is thrown away once it was rebuilt, whatever    *)
(* others carry and whatever packets are lost, repeated or overtaken       *)
(* (handle, doWork).                                                       *)
THEOREM GoodNotRejected ==
  ASSUME UniqueUuids, AllFit
  PROVE  ReceiverSpec => []GoodKept
<1>1. ReceiverInit => GoodKept
  BY DEF ReceiverInit, GoodKept
<1>2. ReceiverSpec => []NothingUnbuffered
  BY NothingSpills
<1>3. TypeOK /\ JobsRebuild /\ NothingUnbuffered /\ GoodKept
        /\ [ReceiverNext]_rvars => GoodKept'
  <2> SUFFICES ASSUME TypeOK, JobsRebuild, NothingUnbuffered, GoodKept,
                      [ReceiverNext]_rvars
               PROVE  GoodKept'
    OBVIOUS
  <2>1. ASSUME NEW t \in Threads, Reject(t)
        PROVE  GoodKept'
    <3>1. /\ active[t] \in Job /\ Whole(active[t]) /\ ~active[t].noBuf
          /\ Verdict(active[t]) = "failed"
          /\ rejected' = rejected \cup {Image(active[t])}
      BY <2>1 DEF Reject, TypeOK, JobsRebuild, NothingUnbuffered
    <3>2. PICK g \in Posts : Rebuilds(active[t], g)
      BY <3>1 DEF Whole
    <3>3. Sum[g] # "good"
      BY <3>1, <3>2, WholePasses
    <3>4. ASSUME NEW f \in Posts, Sum[f] = "good"
          PROVE  ~Intact(f, Image(active[t]))
      BY <3>1, <3>2, <3>3, <3>4, WholeIsOne
    <3>5. \A file : \A f \in Posts : Intact(f, file)' = Intact(f, file)
      BY DEF Intact
    <3> QED BY <3>1, <3>4, <3>5 DEF GoodKept
  <2>2. CASE rejected' = rejected
    BY <2>2 DEF GoodKept, Intact
  <2> QED BY <2>1, <2>2, AttemptDoes DEF ReceiverNext, Handle, Work, Ignore,
        NilJob, Fill, Complete, Dispatch, Discard, rvars
<1> QED BY <1>1, <1>2, <1>3, JobsRebuilt, PTL DEF ReceiverSpec

(* Where all carry a good checksum nothing that was rebuilt is thrown away *)
(* (doWork).                                                               *)
THEOREM IntactKept ==
  ASSUME UniqueUuids, AllFit, \A f \in Posts : Sum[f] = "good"
  PROVE  ReceiverSpec => []IntactNotRejected
<1>1. GoodKept => IntactNotRejected
  BY DEF GoodKept, IntactNotRejected
<1> QED BY <1>1, GoodNotRejected, PTL
=============================================================================
