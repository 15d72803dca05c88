------------------------------- MODULE MCFirmware -------------------------------
(* Instances of Firmware: bytes of 32 values, so that upper halves change every *)
(* 1024 bytes and the count of a line has its limit at 31.                      *)
EXTENDS Firmware, TLC

MCByte == 32

\* Content that differs from byte to byte and from segment to segment.
Data(n, seed) == [i \in 1 .. n |-> (7 * i + seed) % MCByte]

Seg(va, pa, n, seed) == [type |-> "PT_LOAD", vaddr |-> va, paddr |-> pa, data |-> Data(n, seed)]
Note == [Seg(0, 0, 3, 1) EXCEPT !.type = "other"]

\* Two segments, in either order, with a gap or flush, over the end of an upper
\* half; an empty one; overlapping ones; addresses that differ.
Segments(a) ==
  { <<Seg(a, a, 20, 3)>>,
    <<Seg(a, a, 5, 3), Seg(a + 9, a + 9, 12, 11)>>,
    <<Seg(a + 9, a + 9, 12, 11), Note, Seg(a, a, 9, 3), Seg(a + 40, a + 40, 0, 5)>>,
    <<Seg(a, a + 50, 4, 3), Seg(a + 20, a, 7, 30)>>,
    <<Seg(a, a, 8, 3), Seg(a + 4, a + 4, 8, 9)>> }

\* The first half, its last bytes, a later half, the last one.
Bases == {0, 100, 1008, 1024, 5100, 1046510, 1047552, 1048500}

Job1(segs, format, n, use, pad, name) ==
  [segs |-> segs, useVaddr |-> use, pad |-> pad, format |-> format, perLine |-> n,
   name |-> name, entry |-> 1030]

MCJobs ==
  UNION { { Job1(s, f, n, use, pad, <<8, 9>>) :
              s \in Segments(a), f \in {"SREC", "IHEX"}, n \in {0, 1, 7, 26, 32},
              use \in BOOLEAN, pad \in {0, 31} } : a \in Bases }
    \cup UNION { { Job1(s, "UImage", 0, FALSE, 0, Data(n, 1)) :
                     s \in Segments(a), n \in {0, 31, 32} } : a \in {1024} }
    \cup { Job1(s, "SREC", 16, TRUE, 0, Data(27, 0)) : s \in {<< >>, <<Note>>, <<Seg(64, 64, 3, 0)>>} }

\* A flash image at the reset vector: the upper half of all addresses is the last.
ResetJobs == { Job1(<<Seg(a, a, n, 3)>>, "IHEX", 16, FALSE, 0, << >>) :
                 a \in {1040384, 1046510, 1047552}, n \in 1 .. 64 }
===============================================================================
