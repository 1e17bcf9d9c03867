------------------------------- MODULE UdpWire -------------------------------
(***************************************************************************)
(* What ff-http-to-udp and ff-udp-to-http share: the FlowFiles that are    *)
(* posted, how a FlowFile is laid out once encoded, and the packets that   *)
(* carry it.  Lengths and offsets are counted in cells, a cell standing    *)
(* for a run of at least eight bytes; cell i of the encoding of FlowFile f *)
(* is <<f, i>>, so that two FlowFiles never share a cell.                  *)
(***************************************************************************)
EXTENDS Integers

CONSTANTS
  Posts,         \* the FlowFiles clients post
  Uuids,         \* values of the uuid attribute
  NoUuid,        \* the zero UUID: what uuid.Parse gives for a missing uuid
  Uuid,          \* Uuid[f]: the uuid of f
  HeaderLen,     \* HeaderLen[f]: cells of magic, attributes and size field
  PayloadLen,    \* PayloadLen[f]: cells of payload (File.Size)
  Sum,           \* Sum[f]: "good", "bad" or "missing" checksum attributes
  AddChecksum,   \* the flag -add-checksum
  SumLen,        \* cells the two checksum attributes add to a header
  Ports,         \* UDP ports: a worker of the sender and a handler each
  Mtu            \* payload cells of a packet: maxPayloadSize - ffHeaderSize

ASSUME UuidAssumption ==
  /\ NoUuid \in Uuids
  /\ Uuid \in [Posts -> Uuids]

ASSUME LengthAssumption ==
  /\ HeaderLen \in [Posts -> Nat \ {0}]
  /\ PayloadLen \in [Posts -> Nat]
  /\ SumLen \in Nat
  /\ Mtu \in Nat /\ Mtu >= 2

ASSUME ChecksumAssumption ==
  /\ Sum \in [Posts -> {"good", "bad", "missing"}]
  /\ AddChecksum \in BOOLEAN

(* The sender sets checksum attributes of its own on this FlowFile. *)
SumAdded(f) == AddChecksum /\ PayloadLen[f] > 0 /\ Sum[f] = "missing"

(* The receiver finds a checksum in the header of this FlowFile. *)
SumPresent(f) == Sum[f] # "missing" \/ SumAdded(f)

(* hdr.Size of every packet: computed before the checksum is added. *)
DeclaredLen(f) == HeaderLen[f] + PayloadLen[f]

(* The header and the whole encoding as EncodedReader produces them. *)
SentHeaderLen(f) == HeaderLen[f] + (IF SumAdded(f) THEN SumLen ELSE 0)
EncodedLen(f) == SentHeaderLen(f) + PayloadLen[f]

(* Packets a receiver expects for a declared size. *)
TotalChunks(size) == (size - 1) \div Mtu + 1

(* A packet: offset in the encoding and number of payload cells.  The     *)
(* UUID and the size of its header are those of its FlowFile.             *)
WakeUp(f) == [post |-> f, off |-> 0, len |-> 0]

Chunk(f, off) ==
  [post |-> f, off |-> off,
   len  |-> IF EncodedLen(f) - off < Mtu THEN EncodedLen(f) - off ELSE Mtu]

(* Offsets one pass over f sends: the last packet is the one that meets   *)
(* the end of the encoding, and is a bare header when the encoding is a   *)
(* whole number of packets.                                               *)
PassOffsets(f) == {Mtu * k : k \in 0 .. EncodedLen(f) \div Mtu}

PacketsOf(f) == {WakeUp(f)} \cup {Chunk(f, off) : off \in PassOffsets(f)}

Packets == UNION {PacketsOf(f) : f \in Posts}
=============================================================================
