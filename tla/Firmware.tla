-------------------------------- MODULE Firmware --------------------------------
(***************************************************************************)
(* The firmware formats of fwimg/fwimg.go: Flatten turns the segments of   *)
(* an ELF file into one image, one segment per step; SREC and IHEX write   *)
(* it as records, one per step; UImage wraps it.  Then the tool at the     *)
(* other end, which is not part of the repository, reads the records back. *)
(*                                                                         *)
(* A record is the bytes its line spells in hexadecimal; the length of the *)
(* line says how many there are.  A CRC is the content it is computed of:  *)
(* two contents have the same one only if they are equal.  Byte is 256 and *)
(* the widths of addresses follow from it.                                 *)
(***************************************************************************)
EXTENDS Integers, Sequences, FiniteSets, FiniteSetsExt

CONSTANTS Jobs,   \* what Flatten and an encoder are called with
          Byte

\* A byte holds the type of a record.
ASSUME ByteAssumption == Byte \in Nat /\ Byte > 4

Bytes == 0 .. Byte - 1
Half  == Byte * Byte
Word  == Half * Half

Segment == [type : {"PT_LOAD", "other"}, vaddr : Nat, paddr : Nat, data : Seq(Bytes)]

Job == [segs : Seq(Segment), useVaddr : BOOLEAN, pad : Bytes,
        format : {"SREC", "IHEX", "UImage"}, perLine : Int, name : Seq(Bytes), entry : Nat]

ASSUME JobsAssumption == \A j \in Jobs : j \in Job /\ j.entry < Word

VARIABLES job,
          todo,      \* segments Flatten has not copied yet
          img, base, \* the flat image and its address
          off,       \* how much of it the encoder has written
          upper,     \* the upper half of the last address, in IHEX
          recs,      \* the records
          header,    \* the header of UImage
          pos,       \* the reader's position
          linear,    \* its upper half
          mem,       \* what it has loaded: address -> byte
          phase

fwVars == <<job, todo, img, base, off, upper, recs, header, pos, linear, mem, phase>>

NoHeader == [magic |-> 0]

\* binary.BigEndian, and what a reader makes of it.
PutUint16(v) == << (v \div Byte) % Byte, v % Byte >>
PutUint32(v) == PutUint16(v \div Half) \o PutUint16(v % Half)
Uint16(b) == Byte * b[1] + b[2]
Uint32(b) == Half * Uint16(b) + Uint16(SubSeq(b, 3, 4))

\* The loop that adds up the bytes of a record.
SumOf(b) ==
  LET sum[n \in 0 .. Len(b)] == IF n = 0 THEN 0 ELSE sum[n - 1] + b[n] IN sum[Len(b)]

-------------------------------------------------------------------------------
(* Flatten *)

addr(p) == IF job.useVaddr THEN p.vaddr ELSE p.paddr
Size(p) == Len(p.data)
Loads   == {i \in DOMAIN job.segs : job.segs[i].type = "PT_LOAD" /\ Size(job.segs[i]) > 0}
LoadEnd(i) == addr(job.segs[i]) + Size(job.segs[i])

\* The gaps as make([]byte) leaves them.
Blank_Zero(n) == [i \in 1 .. n |-> 0]
Blank(n)      == [i \in 1 .. n |-> job.pad]

Open ==
  /\ phase = "open"
  /\ IF Loads = {}
     THEN phase' = "error" /\ UNCHANGED <<todo, img, base>>
     ELSE LET start == Min({addr(job.segs[i]) : i \in Loads})
              end   == Max({LoadEnd(i) : i \in Loads})
          IN  /\ base' = start
              /\ img' = Blank(end - start)
              /\ todo' = Loads
              /\ phase' = "copy"
  /\ UNCHANGED <<job, off, upper, recs, header, pos, linear, mem>>

\* Ascending addresses; the sort leaves equal ones in any order.
CopySegment(i) ==
  LET s == job.segs[i] IN
  /\ phase = "copy"
  /\ \A j \in todo : addr(s) <= addr(job.segs[j])
  /\ img' = [k \in DOMAIN img |->
               IF k - (addr(s) - base) \in DOMAIN s.data THEN s.data[k - (addr(s) - base)] ELSE img[k]]
  /\ todo' = todo \ {i}
  /\ UNCHANGED <<job, base, off, upper, recs, header, pos, linear, mem, phase>>

\* IHEX starts with a sentinel for the upper half, or with none to announce.
FirstUpper == IF base \div Half = 0 THEN 0 ELSE Half - 1

Flattened ==
  /\ phase = "copy" /\ todo = {}
  /\ upper' = FirstUpper
  /\ phase' = IF job.format = "SREC" THEN "header" ELSE IF job.format = "IHEX" THEN "encode" ELSE "wrap"
  /\ UNCHANGED <<job, todo, img, base, off, recs, header, pos, linear, mem>>

-------------------------------------------------------------------------------
(* Records *)

PerLine == IF job.perLine <= 0 THEN 16 ELSE job.perLine
Chunk   == SubSeq(img, off + 1, off + (IF off + PerLine > Len(img) THEN Len(img) - off ELSE PerLine))
Address == (base + off) % Word

CountByte(n) == n % Byte

\* The sum without the count.
SrecSum_Body(body) == SumOf(body)
SrecSum(body) == Len(body) + 1 + SumOf(body)

srecLine(type, a, data) ==
  LET body == PutUint32(a) \o data
  IN  [type |-> type, bytes |-> <<CountByte(Len(body) + 1)>> \o body
                                  \o <<Byte - 1 - (SrecSum(body) % Byte)>>]

ihexRecord(a, type, data) ==
  LET body == PutUint16(a % Half) \o <<type>> \o data
      sum  == Len(data) + SumOf(body)
  IN  [type |-> ":", bytes |-> <<CountByte(Len(data))>> \o body \o <<(-sum) % Byte>>]

SrecHeader ==
  /\ phase = "header"
  /\ recs' = << srecLine("S0", 0, job.name) >>
  /\ phase' = "encode"
  /\ UNCHANGED <<job, todo, img, base, off, upper, header, pos, linear, mem>>

SrecData ==
  /\ phase = "encode" /\ job.format = "SREC" /\ off < Len(img)
  /\ recs' = Append(recs, srecLine("S3", Address, Chunk))
  /\ off' = off + PerLine
  /\ UNCHANGED <<job, todo, img, base, upper, header, pos, linear, mem, phase>>

SrecEnd ==
  /\ phase = "encode" /\ job.format = "SREC" /\ off >= Len(img)
  /\ recs' = Append(recs, srecLine("S7", job.entry, << >>))
  /\ phase' = "read"
  /\ UNCHANGED <<job, todo, img, base, off, upper, header, pos, linear, mem>>

\* The upper half announced once, and not again when the address passes it.
Announce_Once(hi) == hi /= upper /\ recs = << >>
Announce(hi) == hi /= upper

IhexData ==
  LET hi == Address \div Half IN
  /\ phase = "encode" /\ job.format = "IHEX" /\ off < Len(img)
  /\ recs' = recs \o (IF Announce(hi) THEN << ihexRecord(0, 4, PutUint16(hi)) >> ELSE << >>)
                  \o << ihexRecord(Address, 0, Chunk) >>
  /\ upper' = hi
  /\ off' = off + PerLine
  /\ UNCHANGED <<job, todo, img, base, header, pos, linear, mem, phase>>

IhexEnd ==
  /\ phase = "encode" /\ job.format = "IHEX" /\ off >= Len(img)
  /\ recs' = Append(recs, ihexRecord(0, 1, << >>))
  /\ phase' = "read"
  /\ UNCHANGED <<job, todo, img, base, off, upper, header, pos, linear, mem>>

-------------------------------------------------------------------------------
(* UImage *)

Crc(content) == content

\* Taken with its own field empty.
HeaderCrc(h) == Crc([h EXCEPT !.hcrc = << >>])

\* 32 bytes, the last of them zero.
NameField(n) == SubSeq(n, 1, IF Len(n) > 31 THEN 31 ELSE Len(n))

UImage ==
  LET h == [magic |-> 1, size |-> Len(img) % Word, load |-> base % Word, entry |-> job.entry,
            dcrc |-> Crc(img), hcrc |-> << >>, name |-> NameField(job.name)]
  IN
  /\ phase = "wrap"
  /\ header' = [h EXCEPT !.hcrc = HeaderCrc(h)]
  /\ phase' = "read"
  /\ UNCHANGED <<job, todo, img, base, off, upper, recs, pos, linear, mem>>

-------------------------------------------------------------------------------
(* The tools that read them *)

Body(b) == SubSeq(b, 2, Len(b) - 1)

\* The checks of a record: its count and its checksum.
SrecGood(r) == /\ r.bytes[1] = Len(r.bytes) - 1
               /\ SumOf(r.bytes) % Byte = Byte - 1
IhexGood(r) == /\ r.bytes[1] = Len(r.bytes) - 5
               /\ SumOf(r.bytes) % Byte = 0

Loaded(a, data) ==
  [x \in DOMAIN mem \cup {(a + i - 1) % Word : i \in DOMAIN data} |->
     LET i == {j \in DOMAIN data : (a + j - 1) % Word = x}
     IN  IF i = {} THEN mem[x] ELSE data[Max(i)]]

ReadSrec ==
  LET r == recs[pos]
      b == Body(r.bytes)
  IN
  /\ phase = "read" /\ job.format = "SREC" /\ pos \in DOMAIN recs
  /\ IF SrecGood(r)
     THEN /\ mem' = IF r.type = "S3" THEN Loaded(Uint32(b), SubSeq(b, 5, Len(b))) ELSE mem
          /\ phase' = IF r.type = "S7" THEN "loaded" ELSE "read"
     ELSE phase' = "rejected" /\ UNCHANGED mem
  /\ pos' = pos + 1
  /\ UNCHANGED <<job, todo, img, base, off, upper, recs, header, linear>>

ReadIhex ==
  LET r == recs[pos]
      b == Body(r.bytes)
      data == SubSeq(b, 4, Len(b))
  IN
  /\ phase = "read" /\ job.format = "IHEX" /\ pos \in DOMAIN recs
  /\ IF IhexGood(r)
     THEN /\ mem' = IF b[3] = 0 THEN Loaded(linear * Half + Uint16(b), data) ELSE mem
          /\ linear' = IF b[3] = 4 THEN Uint16(data) ELSE linear
          /\ phase' = IF b[3] = 1 THEN "loaded" ELSE "read"
     ELSE phase' = "rejected" /\ UNCHANGED <<mem, linear>>
  /\ pos' = pos + 1
  /\ UNCHANGED <<job, todo, img, base, off, upper, recs, header>>

\* bootm: both checksums, then the payload goes to the load address.
BootUImage ==
  /\ phase = "read" /\ job.format = "UImage"
  /\ IF /\ header.hcrc = Crc([header EXCEPT !.hcrc = << >>])
        /\ header.dcrc = Crc(img) /\ header.size = Len(img)
     THEN mem' = Loaded(header.load, img) /\ phase' = "loaded"
     ELSE phase' = "rejected" /\ UNCHANGED mem
  /\ UNCHANGED <<job, todo, img, base, off, upper, recs, header, pos, linear>>

FwInit ==
  /\ job \in Jobs
  /\ todo = {} /\ img = << >> /\ base = 0 /\ off = 0 /\ upper = 0
  /\ recs = << >> /\ header = NoHeader
  /\ pos = 1 /\ linear = 0 /\ mem = << >> /\ phase = "open"

FwNext ==
  \/ Open \/ (\E i \in todo : CopySegment(i)) \/ Flattened
  \/ SrecHeader \/ SrecData \/ SrecEnd
  \/ IhexData \/ IhexEnd
  \/ UImage
  \/ ReadSrec \/ ReadIhex \/ BootUImage

FwReturned == phase \in {"loaded", "rejected", "error"} /\ UNCHANGED fwVars

FwSpec == FwInit /\ [][FwNext \/ FwReturned]_fwVars

-------------------------------------------------------------------------------
(* Properties *)

\* Segments that do not overlap, as an ELF linker emits them.
LoadsApart ==
  \A i, j \in Loads : i /= j =>
    \/ LoadEnd(i) <= addr(job.segs[j]) \/ LoadEnd(j) <= addr(job.segs[i])

\* Flatten puts every byte of every segment where it is loaded, fills the rest
\* with the pad, and emits nothing before the first and behind the last byte.
FlattenFaithful ==
  phase \notin {"open", "copy", "error"} /\ LoadsApart =>
    /\ \A i \in Loads : \A k \in DOMAIN job.segs[i].data :
         img[addr(job.segs[i]) - base + k] = job.segs[i].data[k]
    /\ \A k \in DOMAIN img :
         (\A i \in Loads : base + k - 1 < addr(job.segs[i]) \/ base + k - 1 >= LoadEnd(i))
           => img[k] = job.pad
    /\ \E i \in Loads : addr(job.segs[i]) = base
    /\ \E i \in Loads : LoadEnd(i) = base + Len(img)

\* A line whose count fits its byte; the header's name is a line as well.  The
\* size of a UImage has a word.
LinesFit ==
  CASE job.format = "SREC" -> PerLine + 5 < Byte /\ Len(job.name) + 5 < Byte
    [] job.format = "IHEX" -> PerLine < Byte
    [] OTHER -> Len(img) < Word

\* The sentinel is the upper half of the topmost addresses.
NotAtSentinel == job.format = "IHEX" => base \div Half /= Half - 1

InWord == base + Len(img) <= Word

\* The reader accepts every record: counts and checksums are right.
RecordsAccepted == LinesFit => phase /= "rejected"

\* What the reader has at the end is the flat image, byte for byte, at its
\* address and nowhere else, also across a change of the upper half.
MemoryRebuilt ==
  phase = "loaded" /\ LinesFit /\ NotAtSentinel /\ InWord =>
    /\ DOMAIN mem = base .. base + Len(img) - 1
    /\ \A x \in DOMAIN mem : mem[x] = img[x - base + 1]

\* fwimg.go:141: a type 04 record whenever the upper half of the address changes,
\* so that the reader has the upper half of the last record.
UpperAnnounced == phase = "loaded" /\ job.format = "IHEX" => linear = upper
===============================================================================
