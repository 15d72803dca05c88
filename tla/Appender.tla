-------------------------------- MODULE Appender --------------------------------
(***************************************************************************)
(* appender/appender.go: Append and AppendBefore, called any number of     *)
(* times on the result of the previous call.  appendCore is three kinds of *)
(* steps: it accepts or refuses the call, its loop places one new section  *)
(* per step, then it writes the output.                                    *)
(*                                                                         *)
(* A file is its section table, the header fields the code reads or        *)
(* writes, its length and the runs of bytes in it that matter: the raw     *)
(* data of each section, marked with the section's identity.  A name is a  *)
(* name as sectionName trims it.                                           *)
(***************************************************************************)
EXTENDS PEImage, FiniteSets

CONSTANTS Images,      \* the images a caller may start from
          SectionLists,\* the lists of new sections a caller may pass
          SectionNames,\* the empty one stands for "at the end"
          LongNames,   \* those of more than 8 bytes
          MaxCalls     \* bound on the number of calls

None == ""

Run    == [at : Nat, len : Nat, id : Nat \X Nat]
SectionHeader == [name : SectionNames, vsize : Nat, rva : Nat, raw : Nat, foff : Nat, id : Nat \X Nat]
Image  == [table : Seq(SectionHeader), start : Nat, soh : Nat, soi : Nat, sa : Nat, fa : Nat,
           len : Nat, runs : SUBSET Run]
NewSection == [name : SectionNames, len : Nat]

VARIABLES image,      \* the file, input of the next call
          list,       \* the sections argument of the running call
          insertAt,   \* entries of the old table in front of the new ones
          headers,    \* the new headers made so far
          appended,   \* the bytes made so far: their runs
          bytes,      \* and their number
          nextVA, nextFile,
          calls,      \* calls made, the first half of a new section's identity
          before,     \* pairs of identities: promised order of table entries
          doing

appendVars == <<image, list, insertAt, headers, appended, bytes, nextVA, nextFile,
                calls, before, doing>>

alignUp(v, a) == IF a = 0 THEN v ELSE AlignUp(v, a)

TableEnd(img, n) == img.start + SlotBytes * n

\* Sound images: what the linker emits and what a loader accepts.
Apart(s, t) == /\ VirtualEnd(s) <= t.rva \/ VirtualEnd(t) <= s.rva
               /\ s.raw > 0 /\ t.raw > 0 => RawEnd(s) <= t.foff \/ RawEnd(t) <= s.foff

Sound(img) ==
  /\ TableEnd(img, Len(img.table)) <= img.soh
  /\ \A i, j \in DOMAIN img.table : i /= j => Apart(img.table[i], img.table[j])
  /\ \A i \in DOMAIN img.table :
       LET s == img.table[i] IN
       /\ s.rva % img.sa = 0 /\ VirtualEnd(s) <= img.soi
       /\ s.raw > 0 => /\ s.foff % img.fa = 0 /\ s.raw % img.fa = 0
                       /\ s.foff >= img.soh /\ RawEnd(s) <= img.len

\* Every section's raw data is where its header says.
Held(img) ==
  \A i \in DOMAIN img.table :
    LET s == img.table[i] IN
    s.raw > 0 => [at |-> s.foff, len |-> s.raw, id |-> s.id] \in img.runs

\* The identities of the sections of an image to start from.
Marked(img) ==
  /\ \A i \in DOMAIN img.table : img.table[i].id[1] = 0
  /\ \A i, j \in DOMAIN img.table : img.table[i].id = img.table[j].id => i = j

ASSUME ImagesAssumption ==
  /\ Images \subseteq Image
  /\ \A img \in Images : img.sa > 0 /\ img.fa > 0 /\ Sound(img) /\ Held(img) /\ Marked(img)
  /\ SectionLists \subseteq Seq(NewSection)
  /\ LongNames \subseteq SectionNames /\ None \in SectionNames /\ MaxCalls \in Nat

-------------------------------------------------------------------------------
(* Accepting a call *)

MaxOf(S, d) == IF S = {} THEN d ELSE CHOOSE x \in S : \A y \in S : y <= x

\* The next free address taken from the last entry of the table only.
NextVA_Last(img) ==
  IF img.table = << >> THEN alignUp(img.soh, img.sa)
  ELSE alignUp(VirtualEnd(img.table[Len(img.table)]), img.sa)

NextVA(img) ==
  LET top == MaxOf({alignUp(VirtualEnd(img.table[i]), img.sa) : i \in DOMAIN img.table}, 0)
  IN  IF top = 0 THEN alignUp(img.soh, img.sa) ELSE top

NextFile(img) ==
  LET end  == MaxOf({RawEnd(img.table[i]) : i \in DOMAIN img.table}, 0)
      body == alignUp(end, img.fa)
      head == alignUp(img.soh, img.fa)
  IN  IF body < head THEN head ELSE body

Named(img, n) == {i \in DOMAIN img.table : img.table[i].name = n}

\* The new headers land behind the named one.
InsertAt_Behind(img, n) ==
  IF n = None THEN Len(img.table) ELSE CHOOSE i \in Named(img, n) : \A j \in Named(img, n) : i <= j

\* The -1 that stands for "at the end" taken for an index.
InsertAt_Sentinel(img, n) ==
  IF n = None THEN -1
  ELSE (CHOOSE i \in Named(img, n) : \A j \in Named(img, n) : i <= j) - 1

InsertAt(img, n) ==
  IF n = None THEN Len(img.table)
  ELSE (CHOOSE i \in Named(img, n) : \A j \in Named(img, n) : i <= j) - 1

Fits(img, l) == TableEnd(img, Len(img.table) + Len(l)) <= img.soh

Refused(n, l) ==
  \/ \E i \in DOMAIN l : l[i].name \in LongNames
  \/ ~Fits(image, l)
  \/ n /= None /\ Named(image, n) = {}

\* An error leaves the caller with the input.
Refuse(n, l) ==
  /\ doing = "idle" /\ calls < MaxCalls /\ Refused(n, l)
  /\ calls' = calls + 1
  /\ UNCHANGED <<image, list, insertAt, headers, appended, bytes, nextVA, nextFile,
                 before, doing>>

Accept(n, l) ==
  /\ doing = "idle" /\ calls < MaxCalls /\ ~Refused(n, l)
  /\ list' = l /\ insertAt' = InsertAt(image, n)
  /\ headers' = << >> /\ appended' = {} /\ bytes' = 0
  /\ nextVA' = NextVA(image) /\ nextFile' = NextFile(image)
  /\ calls' = calls + 1
  /\ before' = IF n = None THEN before
               ELSE before \cup
                 {<< <<calls + 1, k>>,
                     image.table[CHOOSE i \in Named(image, n) :
                                   \A j \in Named(image, n) : i <= j].id >> : k \in DOMAIN l}
  /\ doing' = "place"
  /\ UNCHANGED image

-------------------------------------------------------------------------------
(* The loop over the new sections *)

RawSize(n) == alignUp(n, image.fa)

Place ==
  LET k   == Len(headers) + 1
      s   == list[k]
      srd == RawSize(s.len)
      id  == <<calls, k>>
  IN  /\ doing = "place" /\ k <= Len(list)
      /\ headers' = Append(headers, [name |-> s.name, vsize |-> s.len, rva |-> nextVA,
                                     raw |-> srd, foff |-> nextFile, id |-> id])
      /\ appended' = appended \cup {[at |-> bytes, len |-> srd, id |-> id]}
      /\ bytes' = bytes + srd
      /\ nextVA' = alignUp(nextVA + s.len, image.sa)
      /\ nextFile' = nextFile + srd
      /\ UNCHANGED <<image, list, insertAt, calls, before, doing>>

-------------------------------------------------------------------------------
(* Writing the output *)

\* The old entries behind the insertion point are overwritten, not moved.
Spliced_Overwrite(table, n, new) ==
  SubSeq(table, 1, n) \o new \o SubSeq(table, n + Len(new) + 1, Len(table))
Spliced(table, n, new) == SubSeq(table, 1, n) \o new \o SubSeq(table, n + 1, Len(table))

\* What is left of the bytes when a file is cut off at n.
CutOff(runs, n) ==
  {[r EXCEPT !.len = IF r.at + r.len > n THEN n - r.at ELSE r.len] :
     r \in {r \in runs : r.at < n}}

Shifted(runs, n) == {[r EXCEPT !.at = @ + n] : r \in runs}

\* The new bytes follow the file as it is, without cutting off or padding.
Aligned_AsIs == image.len
\* Where the first new section starts: the body is cut off or padded to that.
Aligned == nextFile - bytes

Write ==
  /\ doing = "place" /\ Len(headers) = Len(list)
  /\ image' = [image EXCEPT !.table = Spliced(@, insertAt, headers),
                            !.soi   = nextVA,
                            !.len   = Aligned + bytes,
                            !.runs  = CutOff(@, Aligned) \cup Shifted(appended, Aligned)]
  /\ doing' = "idle"
  /\ UNCHANGED <<list, insertAt, headers, appended, bytes, nextVA, nextFile, calls, before>>

AppendInit ==
  /\ image \in Images
  /\ list = << >> /\ insertAt = 0 /\ headers = << >>
  /\ appended = {} /\ bytes = 0 /\ nextVA = 0 /\ nextFile = 0
  /\ calls = 0 /\ before = {} /\ doing = "idle"

AppendNext ==
  \/ \E n \in SectionNames, l \in SectionLists : Accept(n, l) \/ Refuse(n, l)
  \/ Place
  \/ Write

AppendSpec == AppendInit /\ [][AppendNext]_appendVars

-------------------------------------------------------------------------------
(* Properties *)

\* The variables of appendCore keep their types across calls.
AppendTypeOK ==
  /\ image \in Image /\ image.sa > 0 /\ image.fa > 0
  /\ list \in Seq(NewSection) /\ insertAt \in Nat
  /\ headers \in Seq(SectionHeader) /\ Len(headers) <= Len(list)
  /\ appended \subseteq Run /\ bytes \in Nat
  /\ nextVA \in Nat /\ nextFile \in Nat
  /\ calls \in 0 .. MaxCalls /\ before \subseteq (Nat \X Nat) \X (Nat \X Nat)
  /\ doing \in {"idle", "place"}

\* After any calls the image is sound: its sections are disjoint in memory and in
\* the file, SizeOfImage and the file cover them, the table fits the headers.
ImageSound == Sound(image)

\* The bytes of every section, old or new, are where its header says.
DataHeld == Held(image)

\* A call adds entries to the table: the old ones keep their fields, their order
\* and their bytes, wherever the new ones are inserted.
OldSectionsKept ==
  [][/\ \E now \in [DOMAIN image.table -> DOMAIN image'.table] :
          /\ \A i \in DOMAIN image.table : image'.table[now[i]] = image.table[i]
          /\ \A i, j \in DOMAIN image.table : i < j => now[i] < now[j]
     /\ \A i \in DOMAIN image.table :
          LET s == image.table[i]
              r == [at |-> s.foff, len |-> s.raw, id |-> s.id]
          IN  r \in image.runs => r \in image'.runs \/ s.raw = 0]_image

\* AppendBefore: the new entries are in front of the named one for good, so a
\* loader that stops at the named section has seen them.
BeforeNamed ==
  doing = "idle" =>
    \A i, j \in DOMAIN image.table :
      <<image.table[i].id, image.table[j].id>> \in before => i < j
===============================================================================
