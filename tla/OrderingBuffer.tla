---------------------------- MODULE OrderingBuffer ----------------------------
(***************************************************************************)
(* memdiskbuf.WriterAtBuf: a window of memory over a file that is being    *)
(* written out of order.  The list of start-stop intervals the code keeps  *)
(* (inbuf) is the set of maximal runs of filled cells of the window, so a  *)
(* buffer is its base (bufSt), what each cell of the window holds, and the *)
(* file behind it.  Cells of mem and of file are indexed by file offset.   *)
(***************************************************************************)
EXTENDS Integers

CONSTANTS
  Block,     \* cells written to the file at a time (block)
  Window,    \* cells of memory (len(buf))
  MaxCell,   \* bound on file offsets
  Hole,      \* a cell nothing was written to
  Junk       \* bytes of another offset

ASSUME BufferAssumption ==
  /\ Block \in Nat \ {0}
  /\ Window \in Nat \ {0}
  /\ MaxCell \in Nat
  /\ Hole # Junk

Cell == 0 .. MaxCell - 1

Blank == [c \in Cell |-> Hole]

NewBuffer == [base |-> 0, mem |-> Blank, file |-> Blank]

(* The buffer with another window or another file. *)
WithMem(b, mem) == [base |-> b.base, mem |-> mem, file |-> b.file]
WithFile(b, file) == [base |-> b.base, mem |-> b.mem, file |-> file]

(* The cells of the window that hold data. *)
Filled(b) == {c \in Cell : b.mem[c] # Hole}

(* Where the run of filled cells that begins at base stops: inbuf[0].stop *)
(* when inbuf[0].start is bufSt, and bufSt itself otherwise.              *)
RunEnd(b) ==
  CHOOSE e \in b.base .. MaxCell :
    /\ \A c \in b.base .. e - 1 : b.mem[c] # Hole
    /\ e = MaxCell \/ b.mem[e] = Hole

(* The file with the window cells below "to" written in their place. *)
Written(b, to) ==
  [c \in Cell |-> IF c >= b.base /\ c < to THEN b.mem[c] ELSE b.file[c]]

(* shift: as many whole blocks as the first run has go to the file. *)
Shift(b) ==
  LET to == b.base + ((RunEnd(b) - b.base) \div Block) * Block
  IN  [base |-> to,
       mem  |-> [c \in Cell |-> IF c < to THEN Hole ELSE b.mem[c]],
       file |-> Written(b, to)]

(* The three ways WriteAt treats "len" cells at "off". *)
Behind(b, off, len) == off < b.base /\ off + len <= b.base
Straddles(b, off, len) == off < b.base /\ off + len > b.base
Misses(b, off, len) == off >= b.base /\ off + len > b.base + Window

(* The straddling branch copies the data to the wrong place of the window, *)
(* and marks as filled as many cells from base as it copied.               *)
StraddleFill(b, off, data, len) ==
  LET at == 2 * b.base - off
      n  == IF b.base + Window - at < len THEN b.base + Window - at ELSE len
  IN  [c \in Cell |->
         IF c < b.base \/ c >= b.base + n THEN b.mem[c]
         ELSE IF c >= at THEN data[off + (c - at)]
         ELSE IF b.mem[c] = Hole THEN Junk ELSE b.mem[c]]

(* WriteAt when it does not report an error; data[c] is the cell for       *)
(* offset c.                                                               *)
WriteAt(b, off, data, len) ==
  IF Behind(b, off, len) THEN b
  ELSE IF Straddles(b, off, len)
  THEN Shift(WithMem(b, StraddleFill(b, off, data, len)))
  ELSE Shift(WithMem(b, [c \in Cell |-> IF c >= off /\ c < off + len
                                        THEN data[c] ELSE b.mem[c]]))

(* Flush: the first run goes to the file; it fails if anything was filled  *)
(* beyond that run.                                                        *)
Flushed(b) == WithFile(b, Written(b, RunEnd(b)))
FlushFails(b) == \E c \in Filled(b) : c >= RunEnd(b)

(* Where the run that holds filled cell c begins. *)
RunStart(b, c) ==
  CHOOSE s \in b.base .. c :
    /\ \A d \in s .. c : b.mem[d] # Hole
    /\ s = b.base \/ b.mem[s - 1] = Hole

(* FlushAll: every run is written at its distance from base, out of the    *)
(* first bytes of the window.                                              *)
FlushAll(b) ==
  WithFile(b,
    [c \in Cell |->
       IF b.base + c \in Filled(b)
       THEN b.mem[b.base + (b.base + c - RunStart(b, b.base + c))]
       ELSE b.file[c]])

(* The file as Truncate(size) leaves it. *)
Truncated(file, size) == [c \in Cell |-> IF c < size THEN file[c] ELSE Hole]
=============================================================================
