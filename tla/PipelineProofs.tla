---------------------------- MODULE PipelineProofs ----------------------------
(***************************************************************************)
(* Proofs about Link, in three parts.                                      *)
(*                                                                         *)
(* ComputeLayout, for every list of input sections and every choice of     *)
(* options: the types; that pass C never lets two output sections share a  *)
(* byte of memory or of the file; that inputs of one bucket never overlap  *)
(* and each is bound to the one section with its bytes; and that the order *)
(* of the sections does not depend on the order of the map of buckets.     *)
(*                                                                         *)
(* Link from ComputeLayout to emitPE, for every length of .reloc as well:  *)
(* that the finished list of sections is still disjoint, and that the      *)
(* sizes and the relocation directory of the optional header agree with    *)
(* it.                                                                     *)
(*                                                                         *)
(* Link as a whole, for every link of Jobs.  The invariants of the stages  *)
(* compose: what the first two parts, ResolveProofs, RelocateProofs and    *)
(* BaseRelocsProofs show of a stage alone holds of it between the others,  *)
(* and with what one stage hands to the next it says where the entry of an *)
(* image is, what the slots of a loaded image hold and what an image that  *)
(* is written cannot contain.                                              *)
(***************************************************************************)
EXTENDS Pipeline, PEImageProofs, FiniteSetTheorems

-------------------------------------------------------------------------------
(* Maps *)

\* Reading one entry of a map updated with Put.
LEMMA PutProperties ==
  ASSUME NEW f, NEW x, NEW v
  PROVE  /\ DOMAIN Put(f, x, v) = DOMAIN f \cup {x}
         /\ Put(f, x, v)[x] = v
         /\ \A y \in DOMAIN f : y /= x => Put(f, x, v)[y] = f[y]
BY DEF Put

LEMMA PutType ==
  ASSUME NEW f, NEW S, f \in [DOMAIN f -> S], NEW x, NEW v \in S
  PROVE  Put(f, x, v) \in [DOMAIN Put(f, x, v) -> S]
BY DEF Put

-------------------------------------------------------------------------------
(* Type correctness *)

LEMMA DefaultsTyped ==
  ASSUME NEW o \in LayoutOptions
  PROVE  /\ WithDefaults(o) \in LayoutOptions
         /\ WithDefaults(o).sa > 0 /\ WithDefaults(o).fa > 0
BY DEF WithDefaults, Default, LayoutOptions

Keys == Classes \X Stems

\* A bucket key pairs a class with a name in use.
LEMMA KeyTyped ==
  ASSUME NEW s \in InputSection
  PROVE  /\ bucketKey(s) \in Keys
         /\ bucketKey(s)[1] = bucketClass(s) /\ bucketKey(s)[2] = bucketName(s)
<1>1. s.name.stem \in Stems
  BY DEF InputSection
<1>2. outputClass(s) \in Classes
  BY DEF outputClass, Classes
<1>3. bucketClass(s) \in Classes
  BY <1>2 DEF bucketClass, Classes
<1>4. bucketName(s) \in Stems
  BY <1>1, NamesAssumption DEF bucketName, outputName, canonicalName
<1> QED BY <1>3, <1>4 DEF bucketKey, Keys

\* Absorbing an input keeps a bucket well typed.
LEMMA AbsorbTyped ==
  ASSUME NEW b \in Merged, NEW s \in InputSection, NEW i \in Nat
  PROVE  /\ Absorb(b, s, i) \in Merged
         /\ PlacedAt(b, s) \in Nat
<1>1. s.data \in Nat /\ s.vsize \in Nat /\ s.bss \in BOOLEAN
  BY DEF InputSection
<1>2. b.data \in Nat /\ b.vsize \in Nat /\ b.from \cup {i} \in SUBSET Nat
  BY DEF Merged
<1>3. PlacedAt(b, s) \in Nat
  BY <1>1, <1>2 DEF PlacedAt
<1>4. CASE s.bss
  <2>1. b.vsize + s.vsize \in Nat
    BY <1>1, <1>2
  <2> QED BY <1>2, <1>3, <1>4, <2>1 DEF Absorb, Merged
<1>5. CASE ~s.bss
  <2>1. b.data + s.data \in Nat
    BY <1>1, <1>2
  <2> QED BY <1>2, <1>3, <1>5, <2>1 DEF Absorb, Merged
<1> QED BY <1>4, <1>5

LEMMA FirstNamedTyped ==
  ASSUME NEW n, out \in Seq(Merged)
  PROVE  FirstNamed(n) \in Nat
<1> DEFINE here == {i \in DOMAIN out : out[i].name = n}
<1>1. here \in SUBSET Nat
  BY LenProperties
<1>2. CASE here = {}
  BY <1>2 DEF FirstNamed
<1>3. CASE here /= {}
  <2>1. \E i \in here : \A j \in here : i <= j
    BY <1>1, <1>3, LeastExists
  <2> QED BY <1>1, <1>3, <2>1 DEF FirstNamed
<1> QED BY <1>2, <1>3

KeysTyped == DOMAIN buckets \subseteq Keys

TypeInv == LayoutTypeOK /\ KeysTyped

LEMMA TypeInit == LayoutInit => TypeInv
<1> SUFFICES ASSUME LayoutInit PROVE TypeInv
  OBVIOUS
<1> USE DEF LayoutInit
<1>1. secs \in Seq(InputSection)
  BY InputsAssumption
<1>2. opts \in LayoutOptions /\ opts.sa > 0 /\ opts.fa > 0
  BY InputsAssumption, DefaultsTyped
<1>3. << >> \in Seq(Merged) /\ << >> \in Seq(DOMAIN buckets) /\ Len(<< >>) = 0
  BY EmptySeq
<1>4. /\ DOMAIN buckets = {} /\ buckets \in [DOMAIN buckets -> Merged]
      /\ DOMAIN offIn = {} /\ offIn \in [DOMAIN offIn -> Nat]
      /\ DOMAIN where = {} /\ where \in [DOMAIN where -> Nat]
  OBVIOUS
<1> QED BY <1>1, <1>2, <1>3, <1>4 DEF TypeInv, LayoutTypeOK, KeysTyped

LEMMA PlaceTyped ==
  ASSUME TypeInv, NEW i \in todo, Place(i)
  PROVE  TypeInv'
<1> USE DEF TypeInv, LayoutTypeOK, KeysTyped
<1> DEFINE s == secs[i]
           k == bucketKey(s)
           b == BucketFor(k, s)
<1>1. i \in 1 .. Len(secs) /\ s \in InputSection
  BY LenProperties, ElementOfSeq
<1>2. k \in Keys /\ k[1] = bucketClass(s) /\ k[2] = bucketName(s)
  BY <1>1, KeyTyped
<1>3. b \in Merged
  <2>1. NewBucket(k, s) \in Merged
    BY <1>1, <1>2 DEF NewBucket, Merged, Keys, InputSection
  <2> QED BY <2>1 DEF BucketFor
<1>4. Absorb(b, s, i) \in Merged /\ PlacedAt(b, s) \in Nat
  BY <1>1, <1>3, AbsorbTyped, LenProperties
<1> HIDE DEF s, k, b
<1>5. /\ buckets' = Put(buckets, k, Absorb(b, s, i))
      /\ offIn' = Put(offIn, i, PlacedAt(b, s))
      /\ where' = Put(where, i, 0)
  BY DEF Place, s, k, b
<1>6. buckets' \in [DOMAIN buckets' -> Merged] /\ DOMAIN buckets' = DOMAIN buckets \cup {k}
  BY <1>4, <1>5, PutType, PutProperties
<1>7. /\ DOMAIN offIn' = DOMAIN offIn \cup {i} /\ offIn' \in [DOMAIN offIn' -> Nat]
      /\ DOMAIN where' = DOMAIN where \cup {i} /\ where' \in [DOMAIN where' -> Nat]
  BY <1>4, <1>5, PutType, PutProperties
<1>8. customs' \in Seq(DOMAIN buckets')
  <2>1. customs \in Seq(DOMAIN buckets') /\ k \in DOMAIN buckets'
    BY <1>6, SeqMonotonic
  <2>2. Append(customs, k) \in Seq(DOMAIN buckets')
    BY <2>1, AppendProperties
  <2>3. customs' = customs \/ customs' = Append(customs, k)
    BY DEF Place, k, s
  <2> QED BY <2>1, <2>2, <2>3
<1> QED BY <1>1, <1>2, <1>6, <1>7, <1>8 DEF Place

LEMMA BindTyped ==
  ASSUME TypeInv, BindWhere
  PROVE  TypeInv'
<1> USE DEF TypeInv, LayoutTypeOK, KeysTyped
<1>1. \A i \in DOMAIN where : FirstNamed(HomeName(secs[i])) \in Nat
  BY FirstNamedTyped
<1>2. DOMAIN where' = DOMAIN where /\ where' \in [DOMAIN where' -> Nat]
  BY <1>1 DEF BindWhere
<1>3. rva' \in Nat /\ foff' \in Nat
  BY AlignUpBounds DEF BindWhere, LayoutOptions
<1> QED BY <1>2, <1>3 DEF BindWhere

\* What one iteration of pass C writes, and that it writes numbers.
LEMMA StrideTyped ==
  ASSUME TypeInv, Stride
  PROVE  TypeInv'
<1> USE DEF TypeInv, LayoutTypeOK, KeysTyped
<1> DEFINE n == strided + 1
           m == out[n]
<1>1. n \in 1 .. Len(out) /\ m \in Merged
  BY ElementOfSeq, LenProperties DEF Stride
<1>2. RawSize(m) \in Nat /\ VirtualStride(m) \in Nat
  <2>1. opts.sa \in Nat \ {0} /\ opts.fa \in Nat \ {0}
    BY DEF LayoutOptions
  <2> HIDE DEF m
  <2>2. m.data \in Nat /\ m.vsize \in Nat
    BY <1>1 DEF Merged
  <2> QED BY <2>1, <2>2, AlignUpBounds DEF RawSize, VirtualStride
<1>3. out' = [out EXCEPT ![n] = [m EXCEPT !.rva = rva, !.foff = foff, !.raw = RawSize(m)]]
  BY <1>1, LenProperties DEF Stride
<1>4. [m EXCEPT !.rva = rva, !.foff = foff, !.raw = RawSize(m)] \in Merged
  BY <1>1, <1>2 DEF Merged
<1>5. out' \in Seq(Merged) /\ Len(out') = Len(out)
  BY <1>1, <1>3, <1>4, ExceptSeq
<1> QED BY <1>1, <1>2, <1>5, SMTT(30) DEF Stride

LEMMA EmitTyped ==
  ASSUME TypeInv,
         EmitCustoms \/ \E k \in DOMAIN buckets : EmitStandard(k)
  PROVE  TypeInv'
<1> USE DEF TypeInv, LayoutTypeOK, KeysTyped
<1>1. out' \in Seq(Merged) /\ Len(out') >= Len(out) /\ Len(out) \in Nat
  <2>1. CASE EmitCustoms
    <3> DEFINE tail == [i \in DOMAIN customs |-> buckets[customs[i]]]
    <3>1. tail \in Seq(Merged)
      <4>1. \A i \in 1 .. Len(customs) : buckets[customs[i]] \in Merged
        BY ElementOfSeq
      <4>2. DOMAIN customs = 1 .. Len(customs) /\ Len(customs) \in Nat
        BY LenProperties
      <4> QED BY <4>1, <4>2, IsASeq
    <3> QED BY <2>1, <3>1, ConcatProperties, LenProperties DEF EmitCustoms
  <2>2. CASE \E k \in DOMAIN buckets : EmitStandard(k)
    BY <2>2, AppendProperties, LenProperties DEF EmitStandard
  <2> QED BY <2>1, <2>2
<1> QED BY <1>1 DEF EmitCustoms, EmitStandard

LEMMA TypeStep == TypeInv /\ [LayoutNext \/ LayoutReturned]_layoutVars => TypeInv'
<1> SUFFICES ASSUME TypeInv, [LayoutNext \/ LayoutReturned]_layoutVars PROVE TypeInv'
  OBVIOUS
<1>1. ASSUME NEW i \in todo, Place(i) PROVE TypeInv'
  BY <1>1, PlaceTyped
<1>2. CASE AllPlaced \/ Laid
  BY <1>2 DEF AllPlaced, Laid, TypeInv, LayoutTypeOK, KeysTyped
<1>3. CASE EmitCustoms \/ \E k \in DOMAIN buckets : EmitStandard(k)
  BY <1>3, EmitTyped
<1>4. CASE BindWhere
  BY <1>4, BindTyped
<1>5. CASE Stride
  BY <1>5, StrideTyped
<1>6. CASE UNCHANGED layoutVars
  BY <1>6 DEF layoutVars, TypeInv, LayoutTypeOK, KeysTyped
<1> QED
  BY <1>1, <1>2, <1>3, <1>4, <1>5, <1>6 DEF LayoutNext, LayoutReturned

\* ComputeLayout keeps every variable in its type, for every input.
THEOREM LayoutTypeCorrect == LayoutSpec => []LayoutTypeOK
<1>1. TypeInv => LayoutTypeOK
  BY DEF TypeInv
<1> QED BY <1>1, TypeInit, TypeStep, PTL DEF LayoutSpec

-------------------------------------------------------------------------------
(* Uninitialised buckets hold no data *)

BssOrigin ==
  \A k \in DOMAIN buckets : buckets[k].bss =>
    /\ k[1] = "other"
    /\ \E i \in Kept : bucketKey(secs[i]) = k /\ secs[i].bss

NoBssData ==
  WellFlagged =>
    /\ \A k \in DOMAIN buckets : buckets[k].bss => buckets[k].data = 0
    /\ \A n \in DOMAIN out : out[n].bss => out[n].data = 0

BssInv == todo \subseteq Kept /\ BssOrigin /\ NoBssData

\* A passthrough section is its own bucket's canonical input.
LEMMA OtherPriority ==
  ASSUME NEW s \in InputSection, bucketClass(s) = "other"
  PROVE  priority(s) = 0
BY DEF priority, bucketName, outputName

LEMMA BssInit == LayoutInit => BssInv
<1> SUFFICES ASSUME LayoutInit PROVE BssInv
  OBVIOUS
<1>1. todo \subseteq Kept
  BY DEF LayoutInit, Kept
<1>2. DOMAIN buckets = {} /\ DOMAIN out = {}
  BY DEF LayoutInit
<1> QED BY <1>1, <1>2 DEF BssInv, BssOrigin, NoBssData

\* An input placed into an uninitialised bucket is itself uninitialised.
LEMMA BssPlace ==
  ASSUME TypeInv, BssInv, NEW i \in todo, Place(i)
  PROVE  BssInv'
<1> DEFINE s == secs[i]
           k == bucketKey(s)
           b == BucketFor(k, s)
<1>1. /\ i \in Kept /\ i \in DOMAIN secs /\ s \in InputSection
      /\ k[1] = bucketClass(s)
  <2>1. i \in 1 .. Len(secs) /\ s \in InputSection
    BY LenProperties, ElementOfSeq DEF TypeInv, LayoutTypeOK
  <2> QED BY <2>1, KeyTyped, LenProperties DEF BssInv, TypeInv, LayoutTypeOK
<1>2. b.bss => k[1] = "other" /\ \E j \in Kept : bucketKey(secs[j]) = k /\ secs[j].bss
  <2>1. CASE k \in DOMAIN buckets
    BY <2>1 DEF BucketFor, BssInv, BssOrigin
  <2>2. CASE k \notin DOMAIN buckets
    BY <1>1, <2>2 DEF BucketFor, NewBucket
  <2> QED BY <2>1, <2>2
<1>3. WellFlagged /\ b.bss => b.data = 0
  BY DEF BucketFor, NewBucket, BssInv, NoBssData
<1>4. WellFlagged /\ b.bss => s.bss
  <2> SUFFICES ASSUME WellFlagged, b.bss, ~s.bss PROVE FALSE
    OBVIOUS
  <2>1. PICK j \in Kept : bucketKey(secs[j]) = k /\ secs[j].bss
    BY <1>2
  <2>2. priority(s) < priority(secs[j])
    BY <1>1, <2>1 DEF WellFlagged
  <2>3. secs[j] \in InputSection
    BY LenProperties, ElementOfSeq DEF Kept, TypeInv, LayoutTypeOK
  <2>4. bucketClass(s) = "other" /\ bucketClass(secs[j]) = "other"
    BY <1>1, <1>2, <2>1, <2>3, KeyTyped
  <2> QED BY <1>1, <2>2, <2>3, <2>4, OtherPriority
<1> DEFINE b2 == Absorb(b, s, i)
<1>5. b2.bss = b.bss /\ (s.bss => b2.data = b.data)
  <2>1. b \in Merged
    <3>1. NewBucket(k, s) \in Merged
      BY <1>1, KeyTyped DEF NewBucket, Merged, Keys, InputSection
    <3> QED BY <3>1 DEF BucketFor, TypeInv, LayoutTypeOK
  <2> HIDE DEF b, s
  <2> QED BY <2>1 DEF Absorb, Merged
<1>6. /\ buckets' = Put(buckets, k, b2)
      /\ UNCHANGED <<secs, out>> /\ todo' \subseteq todo
  BY DEF Place
<1> HIDE DEF b, b2, k, s
<1>7. /\ DOMAIN buckets' = DOMAIN buckets \cup {k}
      /\ buckets'[k] = b2
      /\ \A l \in DOMAIN buckets : l /= k => buckets'[l] = buckets[l]
  BY <1>6 DEF Put
<1>8. Kept' = Kept /\ (WellFlagged' <=> WellFlagged)
  BY <1>6 DEF Kept, WellFlagged
<1>9. BssOrigin'
  BY <1>2, <1>5, <1>6, <1>7, <1>8 DEF BssOrigin, BssInv
<1>10. NoBssData'
  <2> SUFFICES ASSUME WellFlagged
               PROVE  /\ \A l \in DOMAIN buckets' : buckets'[l].bss => buckets'[l].data = 0
                      /\ \A n \in DOMAIN out : out[n].bss => out[n].data = 0
    BY <1>6, <1>8 DEF NoBssData
  <2>1. b2.bss => b2.data = 0
    BY <1>3, <1>4, <1>5
  <2>2. /\ \A l \in DOMAIN buckets : buckets[l].bss => buckets[l].data = 0
        /\ \A n \in DOMAIN out : out[n].bss => out[n].data = 0
    BY DEF NoBssData, BssInv
  <2> QED BY <1>7, <2>1, <2>2
<1> QED BY <1>6, <1>8, <1>9, <1>10 DEF BssInv

\* Pass B adds nothing to the section list but buckets.
LEMMA EmitsBuckets ==
  ASSUME TypeInv, EmitCustoms \/ \E k \in DOMAIN buckets : EmitStandard(k)
  PROVE  \A n \in DOMAIN out' : (n \in DOMAIN out /\ out'[n] = out[n])
                                \/ \E k \in DOMAIN buckets : out'[n] = buckets[k]
<1>1. CASE EmitCustoms
  <2> DEFINE tail == [i \in DOMAIN customs |-> buckets[customs[i]]]
  <2>1. tail \in Seq(Merged) /\ Len(tail) = Len(customs)
    <3>1. \A i \in 1 .. Len(customs) : buckets[customs[i]] \in Merged
      BY ElementOfSeq DEF TypeInv, LayoutTypeOK
    <3>2. DOMAIN customs = 1 .. Len(customs) /\ Len(customs) \in Nat
      BY LenProperties DEF TypeInv, LayoutTypeOK
    <3> QED BY <3>1, <3>2, IsASeq, LenProperties
  <2>2. \A i \in 1 .. Len(customs) : tail[i] = buckets[customs[i]] /\ customs[i] \in DOMAIN buckets
    BY LenProperties, ElementOfSeq DEF TypeInv, LayoutTypeOK
  <2> HIDE DEF tail
  <2>3. out' = out \o tail /\ out \in Seq(Merged)
    BY <1>1 DEF EmitCustoms, TypeInv, LayoutTypeOK, tail
  <2>4. /\ Len(out) \in Nat /\ DOMAIN out = 1 .. Len(out)
        /\ DOMAIN out' = 1 .. Len(out) + Len(tail) /\ Len(tail) \in Nat
        /\ \A n \in 1 .. Len(out) + Len(tail) :
             out'[n] = IF n <= Len(out) THEN out[n] ELSE tail[n - Len(out)]
    <3>1. out \o tail \in Seq(Merged) /\ Len(out \o tail) = Len(out) + Len(tail)
      BY <2>1, <2>3, ConcatProperties
    <3>2. \A n \in 1 .. Len(out) + Len(tail) :
            (out \o tail)[n] = IF n <= Len(out) THEN out[n] ELSE tail[n - Len(out)]
      BY <2>1, <2>3, ConcatProperties
    <3> QED BY <2>1, <2>3, <3>1, <3>2, LenProperties
  <2>5. \A n \in 1 .. Len(out) + Len(tail) : ~(n <= Len(out)) => n - Len(out) \in 1 .. Len(tail)
    BY <2>4
  <2> QED BY <2>1, <2>2, <2>4, <2>5
<1>2. CASE \E k \in DOMAIN buckets : EmitStandard(k)
  <2>1. PICK k \in DOMAIN buckets : out' = Append(out, buckets[k])
    BY <1>2 DEF EmitStandard
  <2>2. out \in Seq(Merged) /\ buckets[k] \in Merged
    BY DEF TypeInv, LayoutTypeOK
  <2> QED BY <2>1, <2>2, AppendProperties, LenProperties
<1> QED BY <1>1, <1>2

LEMMA BssEmit ==
  ASSUME TypeInv, BssInv,
         EmitCustoms \/ \E k \in DOMAIN buckets : EmitStandard(k)
  PROVE  BssInv'
<1>1. UNCHANGED <<secs, todo, buckets>> /\ Kept' = Kept /\ (WellFlagged' <=> WellFlagged)
  BY DEF EmitCustoms, EmitStandard, Kept, WellFlagged
<1> QED BY <1>1, EmitsBuckets DEF BssInv, BssOrigin, NoBssData

\* What one iteration of pass C does to the section list.
StrideWrites(n) ==
  /\ n = strided + 1 /\ strided' = n /\ n \in 1 .. Len(out)
  /\ Len(out') = Len(out)
  /\ out[n] \in Merged
  /\ \A j \in 1 .. Len(out) : j /= n => out'[j] = out[j]
  /\ out'[n] = [out[n] EXCEPT !.rva = rva, !.foff = foff, !.raw = RawSize(out[n])]
  /\ RawSize(out[n]) \in Nat /\ RawSize(out[n]) % opts.fa = 0
  /\ VirtualStride(out[n]) \in Nat /\ VirtualStride(out[n]) % opts.sa = 0
  /\ out[n].vsize <= VirtualStride(out[n])
  /\ ~out[n].bss => out[n].data <= RawSize(out[n])
  /\ rva' = rva + VirtualStride(out[n])
  /\ foff' = foff + RawSize(out[n])

LEMMA StrideStep ==
  ASSUME TypeInv, Stride
  PROVE  StrideWrites(strided + 1)
<1> DEFINE n == strided + 1
           m == out[n]
           e == [m EXCEPT !.rva = rva, !.foff = foff, !.raw = RawSize(m)]
<1>0. out \in Seq(Merged) /\ Len(out) \in Nat /\ strided \in 0 .. Len(out)
  BY LenProperties DEF TypeInv, LayoutTypeOK
<1>1. n \in 1 .. Len(out) /\ m \in Merged
  BY <1>0, ElementOfSeq DEF Stride
<1>2. /\ opts.sa \in Nat \ {0} /\ opts.fa \in Nat \ {0}
      /\ rva \in Nat /\ foff \in Nat
  BY DEF LayoutOptions, TypeInv, LayoutTypeOK
<1>3. out' = [out EXCEPT ![n] = e]
  BY <1>0, <1>1, LenProperties DEF Stride
<1>4. strided' = n /\ rva' = rva + VirtualStride(m) /\ foff' = foff + RawSize(m)
  BY DEF Stride
<1> HIDE DEF n, m
<1>5. m.data \in Nat /\ m.vsize \in Nat
  BY <1>1 DEF Merged
<1>6. /\ RawSize(m) \in Nat /\ RawSize(m) % opts.fa = 0
      /\ ~m.bss => m.data <= RawSize(m)
  <2>1. 0 % opts.fa = 0
    BY <1>2
  <2> QED BY <1>2, <1>5, <2>1, AlignUpBounds DEF RawSize
<1>7. /\ VirtualStride(m) \in Nat /\ VirtualStride(m) % opts.sa = 0
      /\ m.vsize <= VirtualStride(m)
  BY <1>2, <1>5, AlignUpBounds DEF VirtualStride
<1>8. e \in Merged
  BY <1>1, <1>2, <1>6 DEF Merged
<1> HIDE DEF e
<1>9. /\ Len(out') = Len(out) /\ out'[n] = e
      /\ \A j \in 1 .. Len(out) : j /= n => out'[j] = out[j]
  BY <1>0, <1>1, <1>3, <1>8, ExceptSeq
<1> USE DEF n, m, e
<1> QED BY <1>1, <1>4, <1>6, <1>7, <1>9 DEF StrideWrites

LEMMA BssStride ==
  ASSUME TypeInv, BssInv, Stride
  PROVE  BssInv'
<1> DEFINE n == strided + 1
<1>1. StrideWrites(n)
  BY StrideStep
<1>2. UNCHANGED <<secs, todo, buckets>> /\ Kept' = Kept /\ (WellFlagged' <=> WellFlagged)
  BY DEF Stride, Kept, WellFlagged
<1>3. DOMAIN out = 1 .. Len(out) /\ DOMAIN out' = 1 .. Len(out)
  <2>1. out' \in Seq(Merged) /\ out \in Seq(Merged)
    BY StrideTyped DEF TypeInv, LayoutTypeOK
  <2> QED BY <1>1, <2>1, LenProperties DEF StrideWrites
<1> HIDE DEF n
<1>4. out'[n].bss = out[n].bss /\ out'[n].data = out[n].data /\ n \in 1 .. Len(out)
  BY <1>1 DEF StrideWrites, Merged
<1>5. \A j \in 1 .. Len(out) : out'[j].bss = out[j].bss /\ out'[j].data = out[j].data
  BY <1>1, <1>4 DEF StrideWrites
<1> QED BY <1>2, <1>3, <1>5 DEF BssInv, BssOrigin, NoBssData

LEMMA BssStep ==
  TypeInv /\ BssInv /\ [LayoutNext \/ LayoutReturned]_layoutVars => BssInv'
<1> SUFFICES ASSUME TypeInv, BssInv, [LayoutNext \/ LayoutReturned]_layoutVars
             PROVE  BssInv'
  OBVIOUS
<1>1. ASSUME NEW i \in todo, Place(i) PROVE BssInv'
  BY <1>1, BssPlace
<1>2. CASE EmitCustoms \/ \E k \in DOMAIN buckets : EmitStandard(k)
  BY <1>2, BssEmit
<1>3. CASE Stride
  BY <1>3, BssStride
<1>4. CASE UNCHANGED <<secs, todo, buckets, out>>
  <2>1. Kept' = Kept /\ (WellFlagged' <=> WellFlagged)
    BY <1>4 DEF Kept, WellFlagged
  <2> QED BY <1>4, <2>1 DEF BssInv, BssOrigin, NoBssData
<1> QED
  BY <1>1, <1>2, <1>3, <1>4
  DEF LayoutNext, LayoutReturned, AllPlaced, Laid, BindWhere, layoutVars

-------------------------------------------------------------------------------
(* Output sections are disjoint *)

\* What pass C has established for a section behind its running pointers r, f.
Behind(m, r, f) ==
  /\ m.rva % opts.sa = 0 /\ m.rva >= opts.hr
  /\ m.foff % opts.fa = 0 /\ m.foff >= opts.hr
  /\ WellFlagged => m.data <= m.raw
  /\ VirtualEnd(m) <= r /\ RawEnd(m) <= f

ApartInv ==
  /\ pc \in {"place", "emit", "bind"} => strided = 0
  /\ pc \in {"stride", "laid"} =>
       rva % opts.sa = 0 /\ rva >= opts.hr /\ foff % opts.fa = 0 /\ foff >= opts.hr
  /\ \A i \in 1 .. strided : Behind(out[i], rva, foff)
  /\ \A i, j \in 1 .. strided : i < j =>
       VirtualEnd(out[i]) <= out[j].rva /\ RawEnd(out[i]) <= out[j].foff

LEMMA ApartInit == LayoutInit => ApartInv
BY DEF LayoutInit, ApartInv

LEMMA ApartStride ==
  ASSUME TypeInv, BssInv, ApartInv, Stride
  PROVE  ApartInv'
<1> DEFINE n == strided + 1
           m == out[n]
<1>1. StrideWrites(n)
  BY StrideStep
<1>2. /\ pc = "stride" /\ UNCHANGED <<secs, opts, pc>> /\ (WellFlagged' <=> WellFlagged)
  BY DEF Stride, Kept, WellFlagged
<1>3. /\ opts.sa \in Nat \ {0} /\ opts.fa \in Nat \ {0} /\ opts.hr \in Nat
      /\ rva \in Nat /\ foff \in Nat /\ out \in Seq(Merged) /\ Len(out) \in Nat
      /\ strided \in 0 .. Len(out)
  BY LenProperties DEF LayoutOptions, TypeInv, LayoutTypeOK
<1>4. m \in Merged /\ m.vsize \in Nat /\ m.data \in Nat
  BY <1>1 DEF StrideWrites, Merged
<1>5. rva >= opts.hr /\ foff >= opts.hr
  BY <1>2 DEF ApartInv
<1>5a. rva % opts.sa = 0 /\ foff % opts.fa = 0
  BY <1>2 DEF ApartInv
<1>5b. /\ rva' = rva + VirtualStride(m) /\ foff' = foff + RawSize(m)
       /\ VirtualStride(m) \in Nat /\ RawSize(m) \in Nat /\ m.vsize <= VirtualStride(m)
  BY <1>1 DEF StrideWrites
<1>5c. rva' % opts.sa = 0 /\ foff' % opts.fa = 0
  <2>1. VirtualStride(m) % opts.sa = 0 /\ RawSize(m) % opts.fa = 0
    BY <1>1 DEF StrideWrites
  <2> QED BY <1>3, <1>5a, <1>5b, <2>1, SumAligned
<1>6. /\ rva' >= opts.hr /\ foff' >= opts.hr
      /\ rva' >= rva + m.vsize /\ foff' = foff + RawSize(m) /\ RawSize(m) \in Nat
      /\ rva' >= rva /\ foff' >= foff /\ rva' \in Nat /\ foff' \in Nat
  <2> DEFINE size == m.vsize
             vs   == VirtualStride(m)
             rs   == RawSize(m)
  <2>1. /\ opts.hr \in Nat /\ rva \in Nat /\ foff \in Nat
        /\ size \in Nat /\ vs \in Nat /\ rs \in Nat /\ size <= vs
        /\ rva' = rva + vs /\ foff' = foff + rs
    BY <1>3, <1>4, <1>5b
  <2> HIDE DEF m, size, vs, rs
  <2>2. /\ rva' >= opts.hr /\ foff' >= opts.hr
        /\ rva' >= rva + size /\ foff' = foff + rs /\ rs \in Nat
        /\ rva' >= rva /\ foff' >= foff /\ rva' \in Nat /\ foff' \in Nat
    BY <1>5, <2>1
  <2> QED BY <2>2 DEF size, rs
<1>7. /\ out'[n].rva = rva /\ out'[n].foff = foff /\ out'[n].raw = RawSize(m)
      /\ out'[n].vsize = m.vsize /\ out'[n].data = m.data
  BY <1>1, <1>4 DEF StrideWrites, Merged
<1>8. WellFlagged => m.data <= RawSize(m)
  <2>1. n \in DOMAIN out
    BY <1>1, <1>3, LenProperties DEF StrideWrites
  <2>2. CASE m.bss
    BY <1>3, <1>4, <2>1, <2>2 DEF BssInv, NoBssData, RawSize
  <2>3. CASE ~m.bss
    BY <1>1, <2>3 DEF StrideWrites
  <2> QED BY <2>2, <2>3
<1>9. \A j \in 1 .. strided :
        /\ out'[j] = out[j] /\ Behind(out[j], rva, foff) /\ j /= n
        /\ VirtualEnd(out[j]) \in Nat /\ RawEnd(out[j]) \in Nat
  <2> TAKE j \in 1 .. strided
  <2>1. j \in 1 .. Len(out) /\ j /= n
    BY <1>3
  <2>2. out[j] \in Merged
    BY <1>3, <2>1, ElementOfSeq
  <2>3. out'[j] = out[j]
    BY <1>1, <2>1 DEF StrideWrites
  <2>4. Behind(out[j], rva, foff)
    BY DEF ApartInv
  <2>5. VirtualEnd(out[j]) \in Nat /\ RawEnd(out[j]) \in Nat
    BY <2>2 DEF VirtualEnd, RawEnd, Merged
  <2> QED BY <2>1, <2>3, <2>4, <2>5
<1>10. strided' = n /\ 1 .. strided' = 1 .. strided \cup {n}
  BY <1>1, <1>3, SMTT(30) DEF StrideWrites
<1> HIDE DEF n, m
<1>11. Behind(out'[n], rva', foff')
  <2>1. /\ out'[n].rva % opts.sa = 0 /\ out'[n].foff % opts.fa = 0
        /\ WellFlagged => out'[n].data <= out'[n].raw
    BY <1>7, <1>5a, <1>8
  <2>2. /\ out'[n].rva >= opts.hr /\ out'[n].foff >= opts.hr
        /\ VirtualEnd(out'[n]) <= rva' /\ RawEnd(out'[n]) <= foff'
    BY <1>3, <1>4, <1>5, <1>6, <1>7 DEF VirtualEnd, RawEnd
  <2> QED BY <2>1, <2>2 DEF Behind
<1>12. \A j \in 1 .. strided : Behind(out'[j], rva', foff')
  <2> TAKE j \in 1 .. strided
  <2>1. /\ out'[j] = out[j] /\ Behind(out[j], rva, foff)
        /\ VirtualEnd(out[j]) \in Nat /\ RawEnd(out[j]) \in Nat
    BY <1>9
  <2>2. VirtualEnd(out[j]) <= rva /\ RawEnd(out[j]) <= foff
    BY <2>1 DEF Behind
  <2>3. VirtualEnd(out[j]) <= rva' /\ RawEnd(out[j]) <= foff'
    BY <1>3, <1>6, <2>1, <2>2
  <2> QED BY <2>1, <2>3 DEF Behind
<1>13. \A i, j \in 1 .. strided : i < j =>
         VirtualEnd(out'[i]) <= out'[j].rva /\ RawEnd(out'[i]) <= out'[j].foff
  BY <1>9 DEF ApartInv
<1>14. \A i \in 1 .. strided :
         VirtualEnd(out'[i]) <= out'[n].rva /\ RawEnd(out'[i]) <= out'[n].foff
  BY <1>7, <1>9 DEF Behind
<1>15. \A i \in 1 .. strided : ~(n < i)
  BY <1>3 DEF n
<1>16. \A i \in 1 .. strided' : Behind(out[i], rva, foff)'
  <2>1. \A i \in 1 .. strided' : Behind(out'[i], rva', foff')
    BY <1>10, <1>11, <1>12
  <2> QED BY <1>2, <2>1 DEF Behind
<1>17. \A i, j \in 1 .. strided' : i < j =>
         VirtualEnd(out'[i]) <= out'[j].rva /\ RawEnd(out'[i]) <= out'[j].foff
  BY <1>10, <1>13, <1>14, <1>15
<1> QED BY <1>2, <1>6, <1>5c, <1>16, <1>17 DEF ApartInv

LEMMA ApartStep ==
  TypeInv /\ BssInv /\ ApartInv /\ [LayoutNext \/ LayoutReturned]_layoutVars => ApartInv'
<1> SUFFICES ASSUME TypeInv, BssInv, ApartInv,
                    [LayoutNext \/ LayoutReturned]_layoutVars
             PROVE  ApartInv'
  OBVIOUS
<1>1. ASSUME UNCHANGED <<secs, opts, strided>>, strided = 0,
             pc' \in {"place", "emit", "bind"}
      PROVE  ApartInv'
  BY <1>1 DEF ApartInv
<1>2. ASSUME NEW i \in todo, Place(i) PROVE ApartInv'
  BY <1>1, <1>2 DEF Place, ApartInv
<1>3. CASE AllPlaced \/ EmitCustoms \/ \E k \in DOMAIN buckets : EmitStandard(k)
  BY <1>1, <1>3 DEF AllPlaced, EmitCustoms, EmitStandard, ApartInv
<1>4. CASE BindWhere
  <2>1. /\ opts.sa \in Nat \ {0} /\ opts.fa \in Nat \ {0} /\ opts.hr \in Nat
    BY DEF LayoutOptions, TypeInv, LayoutTypeOK
  <2>2. /\ rva' % opts.sa = 0 /\ rva' >= opts.hr /\ foff' % opts.fa = 0 /\ foff' >= opts.hr
        /\ strided = 0 /\ UNCHANGED <<secs, opts, strided>>
    BY <1>4, <2>1, AlignUpBounds DEF BindWhere, ApartInv
  <2> QED BY <1>4, <2>2 DEF ApartInv, BindWhere
<1>5. CASE Stride
  BY <1>5, ApartStride
<1>6. CASE UNCHANGED <<secs, opts, out, strided, rva, foff>> /\ (pc' = pc \/ (pc = "stride" /\ pc' = "laid"))
  <2>1. WellFlagged' <=> WellFlagged
    BY <1>6 DEF Kept, WellFlagged
  <2>2. \A i \in 1 .. strided : Behind(out[i], rva, foff)
    BY DEF ApartInv
  <2>3. \A i \in 1 .. strided' : Behind(out[i], rva, foff)'
    BY <1>6, <2>1, <2>2 DEF Behind, VirtualEnd, RawEnd
  <2>4. (\A i, j \in 1 .. strided : i < j =>
           VirtualEnd(out[i]) <= out[j].rva /\ RawEnd(out[i]) <= out[j].foff)'
    BY <1>6 DEF ApartInv, VirtualEnd, RawEnd
  <2> QED BY <1>6, <2>3, <2>4 DEF ApartInv
<1>7. CASE Laid \/ LayoutReturned \/ UNCHANGED layoutVars
  <2>1. UNCHANGED <<secs, opts, out, strided, rva, foff>>
    BY <1>7 DEF Laid, LayoutReturned, layoutVars
  <2>2. pc' = pc \/ (pc = "stride" /\ pc' = "laid")
    BY <1>7 DEF Laid, LayoutReturned, layoutVars
  <2> QED BY <1>6, <2>1, <2>2
<1> QED
  BY <1>2, <1>3, <1>4, <1>5, <1>7 DEF LayoutNext

LEMMA ApartImplies == TypeInv /\ ApartInv => SectionsApart
<1> SUFFICES ASSUME TypeInv, ApartInv PROVE SectionsApart
  OBVIOUS
<1> DEFINE placed == SubSeq(out, 1, strided)
<1>1. out \in Seq(Merged) /\ strided \in 0 .. Len(out) /\ Len(out) \in Nat
  BY LenProperties DEF TypeInv, LayoutTypeOK
<1>2. /\ placed \in Seq(Merged) /\ Len(placed) = strided
      /\ \A i \in 1 .. strided : placed[i] = out[i]
  <2>1. \A i \in 1 .. strided : out[i] \in Merged
    BY <1>1, ElementOfSeq
  <2> QED BY <1>1, <2>1, SubSeqProperties
<1>3. DOMAIN placed = 1 .. strided
  BY <1>2, LenProperties
<1> QED BY <1>2, <1>3 DEF SectionsApart, Ascending, ApartInv, Behind

\* Pass C places every output section behind the previous one, in memory and in
\* the file, aligned and clear of the header reserve, with room for its data.
THEOREM LayoutSectionsApart == LayoutSpec => []SectionsApart
<1>1. LayoutInit => TypeInv /\ BssInv /\ ApartInv
  BY TypeInit, BssInit, ApartInit
<1>2. TypeInv /\ BssInv /\ ApartInv /\ [LayoutNext \/ LayoutReturned]_layoutVars
        => TypeInv' /\ BssInv' /\ ApartInv'
  BY TypeStep, BssStep, ApartStep
<1> QED BY <1>1, <1>2, ApartImplies, PTL DEF LayoutSpec

-------------------------------------------------------------------------------
(* Bucket keys *)

StdKey   == {<<"text", ".text">>, <<"rdata", ".rdata">>, <<"data", ".data">>}
OtherKey == {<<"other", n>> : n \in Stems \ {".text", ".rdata", ".data"}}

\* A key is one of three with a fixed name, or a passthrough one with a name of
\* its own.
LEMMA KeyShape ==
  ASSUME NEW s \in InputSection
  PROVE  /\ bucketKey(s) \in StdKey \cup OtherKey
         /\ bucketKey(s) \in OtherKey => bucketKey(s)[2] = canonicalName(s.name)
<1>1. s.name.stem \in Stems
  BY DEF InputSection
<1>2. outputClass(s) \in Classes
  BY DEF outputClass, Classes
<1>3. CASE outputClass(s) = "text"
  BY <1>3 DEF bucketKey, bucketName, bucketClass, outputName, StdKey, OtherKey
<1>4. CASE outputClass(s) = "rdata"
  BY <1>4 DEF bucketKey, bucketName, bucketClass, outputName, StdKey, OtherKey
<1>5. CASE outputClass(s) \in {"data", "bss"}
  BY <1>5 DEF bucketKey, bucketName, bucketClass, outputName, StdKey, OtherKey
<1>6. CASE outputClass(s) = "other"
  <2>1. canonicalName(s.name) \notin {".text", ".rdata", ".data"}
    BY <1>6 DEF outputClass
  <2>2. bucketKey(s) = <<"other", canonicalName(s.name)>>
    BY <1>6 DEF bucketKey, bucketName, bucketClass, outputName
  <2> QED BY <1>1, <2>1, <2>2 DEF OtherKey, canonicalName
<1> QED BY <1>2, <1>3, <1>4, <1>5, <1>6 DEF Classes

\* The name determines the key, and so does the class of a standard section.
LEMMA KeyDetermined ==
  ASSUME NEW k \in StdKey \cup OtherKey, NEW l \in StdKey \cup OtherKey
  PROVE  /\ k[2] = l[2] => k = l
         /\ k[1] = l[1] /\ k[1] /= "other" => k = l
         /\ k[1] \in {"text", "rdata", "data", "other"}
         /\ k = <<k[1], k[2]>>
BY DEF StdKey, OtherKey

LEMMA Ranks ==
  /\ ClassRank("text") = 1 /\ ClassRank("rdata") = 2 /\ ClassRank("data") = 3
  /\ ToSet(classOrder) = {"text", "rdata", "data", "bss"}
<1>1. /\ DOMAIN classOrder = 1 .. 4
      /\ classOrder[1] = "text" /\ classOrder[2] = "rdata"
      /\ classOrder[3] = "data" /\ classOrder[4] = "bss"
  BY DEF classOrder
<1>2. \A i \in 1 .. 4 : i = 1 \/ i = 2 \/ i = 3 \/ i = 4
  OBVIOUS
<1>3. ToSet(classOrder) = {"text", "rdata", "data", "bss"}
  BY <1>1, <1>2 DEF ToSet
<1>4. ClassRank("text") = 1
  BY <1>1, <1>2 DEF ClassRank
<1>5. ClassRank("rdata") = 2
  BY <1>1, <1>2 DEF ClassRank
<1>6. ClassRank("data") = 3
  BY <1>1, <1>2 DEF ClassRank
<1> QED BY <1>3, <1>4, <1>5, <1>6

-------------------------------------------------------------------------------
(* What the buckets hold *)

KeyOf(i) == bucketKey(secs[i])

BucketInv ==
  /\ todo \subseteq Kept
  /\ DOMAIN offIn = Kept \ todo
  /\ \A k \in DOMAIN buckets :
       /\ buckets[k].class = k[1] /\ buckets[k].name = k[2]
       /\ buckets[k].from = {i \in Kept \ todo : KeyOf(i) = k}
       /\ buckets[k].from /= {}
  /\ \A i \in Kept \ todo : KeyOf(i) \in DOMAIN buckets
  /\ pc /= "place" => todo = {}

LEMMA BucketInit == LayoutInit => BucketInv
BY DEF LayoutInit, BucketInv, Kept

\* What a bucket is before and after an input is absorbed.
LEMMA AbsorbWrites ==
  ASSUME NEW b \in Merged, NEW s \in InputSection, NEW i \in Nat
  PROVE  LET a == Absorb(b, s, i) IN
         /\ a.class = b.class /\ a.name = b.name
         /\ a.from = b.from \cup {i}
         /\ s.bss  => a.data = b.data /\ a.vsize = b.vsize + s.vsize
         /\ ~s.bss => a.data = b.data + s.data /\ a.vsize = b.data + s.data
BY DEF Absorb, Merged, InputSection

\* The step of pass A in the terms that the proofs use: input i goes into bucket
\* b, which may be new.
PlaceWrites(i, s, k, b, a) ==
  /\ s = secs[i] /\ k = KeyOf(i)
  /\ i \in DOMAIN secs /\ i \in Nat /\ s \in InputSection
  /\ k \in Keys /\ k \in StdKey \cup OtherKey
  /\ b \in Merged /\ a = Absorb(b, s, i)
  /\ k \in DOMAIN buckets => b = buckets[k]
  /\ k \notin DOMAIN buckets =>
       b.class = k[1] /\ b.name = k[2] /\ b.from = {} /\ b.data = 0 /\ b.vsize = 0
  /\ DOMAIN buckets' = DOMAIN buckets \cup {k} /\ buckets'[k] = a
  /\ \A l \in DOMAIN buckets : l /= k => buckets'[l] = buckets[l]
  /\ DOMAIN offIn' = DOMAIN offIn \cup {i} /\ offIn'[i] = PlacedAt(b, s)
  /\ \A j \in DOMAIN offIn : j /= i => offIn'[j] = offIn[j]
  /\ todo' = todo \ {i} /\ pc = "place" /\ pc' = pc
  /\ UNCHANGED <<secs, opts, out, strided>>

LEMMA PlaceStep ==
  ASSUME TypeInv, NEW i \in todo, Place(i)
  PROVE  LET s == secs[i]
             b == BucketFor(KeyOf(i), s)
         IN  PlaceWrites(i, s, KeyOf(i), b, Absorb(b, s, i))
<1> DEFINE s == secs[i]
           k == KeyOf(i)
           b == BucketFor(k, s)
           a == Absorb(b, s, i)
<1>1. i \in DOMAIN secs /\ i \in Nat /\ s \in InputSection
  BY LenProperties, ElementOfSeq DEF TypeInv, LayoutTypeOK
<1>2. k \in Keys /\ k \in StdKey \cup OtherKey
  BY <1>1, KeyTyped, KeyShape DEF KeyOf
<1>3. b \in Merged
  <2>1. NewBucket(k, s) \in Merged
    BY <1>1, <1>2 DEF NewBucket, Merged, Keys, InputSection
  <2> QED BY <2>1 DEF BucketFor, TypeInv, LayoutTypeOK
<1>4. k \in DOMAIN buckets => b = buckets[k]
  BY DEF BucketFor
<1>5. k \notin DOMAIN buckets =>
        b.class = k[1] /\ b.name = k[2] /\ b.from = {} /\ b.data = 0 /\ b.vsize = 0
  BY DEF BucketFor, NewBucket
<1>6. /\ buckets' = Put(buckets, k, a) /\ offIn' = Put(offIn, i, PlacedAt(b, s))
      /\ todo' = todo \ {i} /\ pc = "place" /\ pc' = pc
      /\ UNCHANGED <<secs, opts, out, strided>>
  BY DEF Place, KeyOf
<1> HIDE DEF s, k, b, a
<1>7. /\ DOMAIN buckets' = DOMAIN buckets \cup {k} /\ buckets'[k] = a
      /\ \A l \in DOMAIN buckets : l /= k => buckets'[l] = buckets[l]
  BY <1>6 DEF Put
<1>8. /\ DOMAIN offIn' = DOMAIN offIn \cup {i} /\ offIn'[i] = PlacedAt(b, s)
      /\ \A j \in DOMAIN offIn : j /= i => offIn'[j] = offIn[j]
  BY <1>6 DEF Put
<1>9. s = secs[i] /\ k = KeyOf(i) /\ a = Absorb(b, s, i)
  BY DEF s, k, a
<1>10. PlaceWrites(i, s, k, b, a)
  BY <1>1, <1>2, <1>3, <1>4, <1>5, <1>6, <1>7, <1>8, <1>9 DEF PlaceWrites
<1> QED BY <1>10 DEF s, k, b, a

LEMMA BucketPlace ==
  ASSUME TypeInv, BucketInv, NEW i \in todo, Place(i)
  PROVE  BucketInv'
<1>1. PICK s, k, b, a : PlaceWrites(i, s, k, b, a)
  BY PlaceStep
<1>2. Kept' = Kept /\ i \in Kept /\ \A j : KeyOf(j)' = KeyOf(j)
  BY <1>1 DEF PlaceWrites, Kept, KeyOf, BucketInv
<1>3. /\ a.class = b.class /\ a.name = b.name /\ a.from = b.from \cup {i}
  BY <1>1, AbsorbWrites DEF PlaceWrites
<1>4. b.class = k[1] /\ b.name = k[2] /\ b.from = {j \in Kept \ todo : KeyOf(j) = k}
  <2>1. CASE k \in DOMAIN buckets
    BY <1>1, <2>1 DEF PlaceWrites, BucketInv
  <2>2. CASE k \notin DOMAIN buckets
    BY <1>1, <2>2 DEF PlaceWrites, BucketInv
  <2> QED BY <2>1, <2>2
<1>5. Kept \ todo' = (Kept \ todo) \cup {i} /\ KeyOf(i) = k
  BY <1>1, <1>2 DEF PlaceWrites
<1>6. a.from = {j \in Kept \ todo' : KeyOf(j) = k}
  BY <1>3, <1>4, <1>5
<1>7. ASSUME NEW l \in DOMAIN buckets'
      PROVE  /\ buckets'[l].class = l[1] /\ buckets'[l].name = l[2]
             /\ buckets'[l].from = {j \in Kept \ todo' : KeyOf(j) = l}
             /\ buckets'[l].from /= {}
  <2>1. CASE l = k
    BY <1>1, <1>3, <1>4, <1>6, <2>1 DEF PlaceWrites
  <2>2. CASE l /= k
    <3>1. l \in DOMAIN buckets /\ buckets'[l] = buckets[l]
      BY <1>1, <2>2 DEF PlaceWrites
    <3>2. {j \in Kept \ todo' : KeyOf(j) = l} = {j \in Kept \ todo : KeyOf(j) = l}
      BY <1>5, <2>2
    <3> QED BY <3>1, <3>2 DEF BucketInv
  <2> QED BY <2>1, <2>2
<1>8. \A j \in Kept \ todo' : KeyOf(j) \in DOMAIN buckets'
  BY <1>1, <1>5 DEF PlaceWrites, BucketInv
<1>9. todo' \subseteq Kept /\ DOMAIN offIn' = Kept \ todo' /\ pc' = "place"
  BY <1>1, <1>5 DEF PlaceWrites, BucketInv
<1> QED BY <1>2, <1>7, <1>8, <1>9 DEF BucketInv

LEMMA BucketEmit ==
  ASSUME BucketInv, UNCHANGED <<secs, todo, buckets, offIn>>,
         pc' = "place" => pc = "place", todo = {} \/ pc' = "place"
  PROVE  BucketInv'
<1>1. Kept' = Kept /\ \A j : KeyOf(j)' = KeyOf(j)
  BY DEF Kept, KeyOf
<1> QED BY <1>1 DEF BucketInv

\* All actions but Place leave the buckets alone.
LEMMA OtherActions ==
  ASSUME BucketInv, [LayoutNext \/ LayoutReturned]_layoutVars
  PROVE  \/ \E i \in todo : Place(i)
         \/ /\ UNCHANGED <<secs, opts, todo, buckets, offIn, customs>>
            /\ pc' = "place" => pc = "place"
            /\ todo = {} \/ pc' = "place"
BY DEF BucketInv, LayoutNext, LayoutReturned, layoutVars, AllPlaced, EmitStandard,
       EmitCustoms, BindWhere, Stride, Laid

LEMMA BucketStep ==
  TypeInv /\ BucketInv /\ [LayoutNext \/ LayoutReturned]_layoutVars => BucketInv'
BY BucketPlace, BucketEmit, OtherActions

-------------------------------------------------------------------------------
(* Inputs of one bucket never overlap *)

\* Pass A places the inputs in the order in which sortInputs has put them.
OrderInv == \A j \in Kept \ todo, i \in todo : Precedes(j, i)

ConcatInv == OrderInv /\ InputsApart

LEMMA RankTyped ==
  ASSUME NEW n \in Stems
  PROVE  Rank(n) \in Int
<1>1. DOMAIN NameOrder = 1 .. Len(NameOrder) /\ Len(NameOrder) \in Nat
  BY NamesAssumption, LenProperties
<1>2. \E i \in DOMAIN NameOrder : NameOrder[i] = n
  BY DEF Stems, ToSet
<1> QED BY <1>1, <1>2 DEF Rank

LEMMA OrderStep ==
  TypeInv /\ BucketInv /\ OrderInv /\ [LayoutNext \/ LayoutReturned]_layoutVars
    => OrderInv'
<1> SUFFICES ASSUME TypeInv, BucketInv, OrderInv, [LayoutNext \/ LayoutReturned]_layoutVars
             PROVE  OrderInv'
  OBVIOUS
<1>1. ASSUME secs' = secs PROVE Kept' = Kept /\ \A i, j : Precedes(i, j)' <=> Precedes(i, j)
  BY <1>1 DEF Kept, Precedes
<1>2. ASSUME NEW i \in todo, Place(i) PROVE OrderInv'
  <2>1. secs' = secs /\ todo' = todo \ {i} /\ \A j \in todo \ {i} : Precedes(i, j)
    BY <1>2 DEF Place
  <2> QED BY <1>1, <2>1 DEF OrderInv
<1>3. CASE UNCHANGED <<secs, todo>>
  BY <1>1, <1>3 DEF OrderInv
<1> QED BY <1>2, <1>3, OtherActions

\* Uninitialised inputs of a bucket come behind its initialised ones.
LEMMA BssLast ==
  ASSUME TypeInv, BucketInv, OrderInv, WellFlagged,
         NEW i \in todo, ~secs[i].bss,
         NEW j \in Kept \ todo, KeyOf(j) = KeyOf(i)
  PROVE  ~secs[j].bss
<1> SUFFICES ASSUME secs[j].bss PROVE FALSE
  OBVIOUS
<1>1. i \in Kept /\ j \in Kept
  BY DEF BucketInv
<1>2. secs[i] \in InputSection /\ secs[j] \in InputSection
  BY <1>1, LenProperties, ElementOfSeq DEF Kept, TypeInv, LayoutTypeOK
<1>3. priority(secs[i]) < priority(secs[j])
  BY <1>1 DEF WellFlagged, KeyOf
<1>4. priority(secs[i]) \in {0, 1} /\ priority(secs[j]) \in {0, 1}
  BY DEF priority
<1>5. bucketName(secs[i]) = bucketName(secs[j]) /\ bucketName(secs[i]) \in Stems
  BY <1>2, KeyTyped DEF KeyOf, Keys
<1>6. Rank(bucketName(secs[i])) \in Int
  BY <1>5, RankTyped
<1>7. Precedes(j, i)
  BY DEF OrderInv
<1> QED BY <1>3, <1>4, <1>5, <1>6, <1>7 DEF Precedes

\* An input lands behind every input that its bucket has, and within the bucket.
LEMMA Concatenates ==
  ASSUME TypeInv, BucketInv, OrderInv, WellFlagged, Concatenated,
         NEW i \in todo, NEW s, NEW k, NEW b, NEW a, PlaceWrites(i, s, k, b, a)
  PROVE  /\ offIn'[i] \in Nat /\ Bytes(i) \in Nat
         /\ Fits(a, i)'
         /\ \A j \in b.from : /\ offIn[j] \in Nat /\ Bytes(j) \in Nat
                              /\ Fits(a, j)'
                              /\ offIn[j] + Bytes(j) <= offIn'[i]
<1>1. /\ b.data \in Nat /\ b.vsize \in Nat /\ s.data \in Nat /\ s.vsize \in Nat
      /\ s = secs[i] /\ s.bss \in BOOLEAN /\ secs' = secs
      /\ offIn'[i] = IF s.bss THEN b.vsize ELSE b.data
  BY DEF PlaceWrites, Merged, InputSection, PlacedAt
<1>2. /\ s.bss  => a.data = b.data /\ a.vsize = b.vsize + s.vsize
      /\ ~s.bss => a.data = b.data + s.data /\ a.vsize = b.data + s.data
  BY AbsorbWrites DEF PlaceWrites
<1>3. Bytes(i) = IF s.bss THEN s.vsize ELSE s.data
  BY <1>1 DEF Bytes
<1>4. ASSUME NEW j \in b.from
      PROVE  /\ k \in DOMAIN buckets /\ b = buckets[k] /\ j \in Kept \ todo /\ KeyOf(j) = k
             /\ Fits(b, j)
  BY <1>4 DEF PlaceWrites, BucketInv, Concatenated
<1>5. ASSUME NEW j \in b.from
      PROVE  /\ offIn[j] \in Nat /\ Bytes(j) \in Nat
             /\ Bytes(j)' = Bytes(j) /\ offIn'[j] = offIn[j] /\ secs[j].bss \in BOOLEAN
  <2>1. j \in DOMAIN offIn /\ j /= i
    BY <1>4 DEF BucketInv
  <2>2. secs[j] \in InputSection
    BY <1>4, LenProperties, ElementOfSeq DEF Kept, TypeInv, LayoutTypeOK
  <2> QED BY <1>1, <2>1, <2>2 DEF PlaceWrites, TypeInv, LayoutTypeOK, Bytes, InputSection
<1>6. ASSUME NEW j \in b.from, ~s.bss PROVE ~secs[j].bss
  BY <1>1, <1>4, <1>6, BssLast DEF PlaceWrites
<1>7. ASSUME NEW j \in b.from
      PROVE  Fits(a, j)' /\ offIn[j] + Bytes(j) <= offIn'[i]
  <2>1. /\ offIn[j] + Bytes(j) <= b.vsize
        /\ ~secs[j].bss => offIn[j] + Bytes(j) <= b.data
    BY <1>4 DEF Fits
  <2>2. /\ offIn[j] + Bytes(j) <= offIn'[i]
        /\ offIn[j] + Bytes(j) <= a.vsize
        /\ ~secs[j].bss => offIn[j] + Bytes(j) <= a.data
    BY <1>1, <1>2, <1>5, <1>6, <2>1
  <2> QED BY <1>1, <1>5, <2>2 DEF Fits
<1>8. Fits(a, i)'
  <2>1. Bytes(i)' = Bytes(i)
    BY <1>1 DEF Bytes
  <2>2. offIn'[i] + Bytes(i) <= a.vsize /\ (~s.bss => offIn'[i] + Bytes(i) <= a.data)
    BY <1>1, <1>2, <1>3
  <2> QED BY <1>1, <2>1, <2>2 DEF Fits
<1> QED BY <1>1, <1>3, <1>5, <1>7, <1>8

LEMMA ConcatPlace ==
  ASSUME TypeInv, BucketInv, OrderInv, InputsApart, NEW i \in todo, Place(i)
  PROVE  InputsApart'
<1>1. PICK s, k, b, a : PlaceWrites(i, s, k, b, a)
  BY PlaceStep
<1>2. secs' = secs /\ Kept' = Kept /\ (WellFlagged' <=> WellFlagged)
  BY <1>1 DEF PlaceWrites, Kept, WellFlagged
<1> SUFFICES ASSUME WellFlagged PROVE Concatenated'
  BY <1>2 DEF InputsApart
<1>3. Concatenated
  BY DEF InputsApart
<1>4. /\ offIn'[i] \in Nat /\ Bytes(i) \in Nat /\ Fits(a, i)'
      /\ \A j \in b.from : /\ offIn[j] \in Nat /\ Bytes(j) \in Nat
                           /\ Fits(a, j)'
                           /\ offIn[j] + Bytes(j) <= offIn'[i]
  BY <1>1, <1>3, Concatenates
<1>5. a.from = b.from \cup {i}
  BY <1>1, AbsorbWrites DEF PlaceWrites
<1>6. ASSUME NEW j \in DOMAIN offIn
      PROVE  j /= i /\ offIn'[j] = offIn[j] /\ Bytes(j)' = Bytes(j)
  <2>1. j /= i
    BY DEF BucketInv
  <2> QED BY <1>1, <1>2, <2>1 DEF PlaceWrites, Bytes
<1>7. b.from \subseteq DOMAIN offIn
  BY <1>1, <1>3 DEF PlaceWrites, Concatenated
<1>8. ASSUME NEW j \in b.from
      PROVE  Apart(i, j)' /\ Apart(j, i)'
  BY <1>4, <1>6, <1>7 DEF Apart
<1>9. ASSUME NEW l \in DOMAIN buckets', NEW j \in buckets'[l].from
      PROVE  /\ j \in DOMAIN offIn'
             /\ Fits(buckets[l], j)'
             /\ \A m \in buckets'[l].from \ {j} : Apart(j, m)'
  <2>1. CASE l = k
    <3>1. buckets'[l] = a
      BY <1>1, <2>1 DEF PlaceWrites
    <3>2. j \in DOMAIN offIn' /\ Fits(a, j)'
      BY <1>1, <1>4, <1>5, <1>7, <3>1 DEF PlaceWrites
    <3>3. ASSUME NEW m \in a.from \ {j} PROVE Apart(j, m)'
      <4>1. CASE j = i \/ m = i
        BY <1>5, <1>8, <3>1, <3>3, <4>1
      <4>2. CASE j \in b.from /\ m \in b.from
        <5>1. Apart(j, m)
          BY <1>1, <1>3, <3>3, <4>2 DEF PlaceWrites, Concatenated
        <5> QED BY <1>6, <1>7, <4>2, <5>1 DEF Apart
      <4> QED BY <1>5, <3>1, <3>3, <4>1, <4>2
    <3>4. Fits(buckets[l], j)'
      BY <3>1, <3>2 DEF Fits
    <3> QED BY <3>1, <3>2, <3>3, <3>4
  <2>2. CASE l /= k
    <3>1. l \in DOMAIN buckets /\ buckets'[l] = buckets[l]
      BY <1>1, <2>2 DEF PlaceWrites
    <3>2. /\ buckets[l].from \subseteq DOMAIN offIn
          /\ Fits(buckets[l], j)
          /\ \A m \in buckets[l].from \ {j} : Apart(j, m)
      BY <1>3, <1>9, <3>1 DEF Concatenated
    <3>3. j \in DOMAIN offIn' /\ j \in DOMAIN offIn
      BY <1>1, <1>9, <3>1, <3>2 DEF PlaceWrites
    <3>4. Fits(buckets[l], j)'
      <4>1. offIn'[j] = offIn[j] /\ Bytes(j)' = Bytes(j) /\ secs' = secs
        BY <1>2, <1>6, <3>3
      <4> QED BY <3>1, <3>2, <4>1 DEF Fits
    <3>5. \A m \in buckets[l].from \ {j} : Apart(j, m)'
      BY <1>6, <3>2, <3>3 DEF Apart
    <3> QED BY <3>1, <3>3, <3>4, <3>5
  <2> QED BY <2>1, <2>2
<1> QED BY <1>9 DEF Concatenated

LEMMA ConcatInit == LayoutInit => ConcatInv
<1> SUFFICES ASSUME LayoutInit PROVE ConcatInv
  OBVIOUS
<1>1. DOMAIN buckets = {} /\ Kept \ todo = {}
  BY DEF LayoutInit, Kept
<1> QED BY <1>1 DEF ConcatInv, OrderInv, InputsApart, Concatenated

LEMMA ConcatStep ==
  TypeInv /\ BucketInv /\ ConcatInv /\ [LayoutNext \/ LayoutReturned]_layoutVars
    => ConcatInv'
<1> SUFFICES ASSUME TypeInv, BucketInv, ConcatInv, [LayoutNext \/ LayoutReturned]_layoutVars
             PROVE  InputsApart'
  BY OrderStep DEF ConcatInv
<1>1. CASE UNCHANGED <<secs, buckets, offIn>>
  BY <1>1 DEF ConcatInv, InputsApart, WellFlagged, Kept, Concatenated, Fits, Apart, Bytes
<1> QED BY <1>1, ConcatPlace, OtherActions DEF ConcatInv

\* Pass A: two inputs of a bucket never share a byte, and none reaches past the
\* bucket's end, whatever inputs are concatenated and however many there are.
THEOREM LayoutInputsApart == LayoutSpec => []InputsApart
<1>1. LayoutInit => TypeInv /\ BucketInv /\ ConcatInv
  BY TypeInit, BucketInit, ConcatInit
<1>2. TypeInv /\ BucketInv /\ ConcatInv /\ [LayoutNext \/ LayoutReturned]_layoutVars
        => TypeInv' /\ BucketInv' /\ ConcatInv'
  BY TypeStep, BucketStep, ConcatStep
<1>3. ConcatInv => InputsApart
  BY DEF ConcatInv
<1> QED BY <1>1, <1>2, <1>3, PTL DEF LayoutSpec

-------------------------------------------------------------------------------
(* The list of output sections *)

\* The passthrough buckets are listed once each.
CustomInv ==
  /\ \A m \in DOMAIN customs : customs[m][1] = "other"
  /\ \A l, m \in DOMAIN customs : customs[l] = customs[m] => l = m
  /\ \A k \in DOMAIN buckets : k[1] = "other" => \E m \in DOMAIN customs : customs[m] = k

LEMMA CustomInit == LayoutInit => CustomInv
BY DEF LayoutInit, CustomInv

LEMMA CustomPlace ==
  ASSUME TypeInv, BucketInv, CustomInv, NEW i \in todo, Place(i)
  PROVE  CustomInv'
<1>1. PICK s, k, b, a : PlaceWrites(i, s, k, b, a)
  BY PlaceStep
<1>2. customs' = IF k[1] = "other" /\ k \notin DOMAIN buckets THEN Append(customs, k) ELSE customs
  BY <1>1 DEF Place, PlaceWrites, KeyOf
<1>3. DOMAIN buckets' = DOMAIN buckets \cup {k}
  BY <1>1 DEF PlaceWrites
<1>4. customs \in Seq(DOMAIN buckets) /\ DOMAIN customs = 1 .. Len(customs) /\ Len(customs) \in Nat
  BY LenProperties DEF TypeInv, LayoutTypeOK
<1>5. CASE k[1] = "other" /\ k \notin DOMAIN buckets
  <2> DEFINE n == Len(customs) + 1
  <2>1. customs \in Seq(DOMAIN buckets \cup {k})
    BY <1>4, SeqMonotonic
  <2>2. /\ DOMAIN customs' = 1 .. n /\ customs'[n] = k
        /\ \A m \in 1 .. Len(customs) : customs'[m] = customs[m] /\ customs[m] \in DOMAIN buckets
    BY <1>2, <1>4, <1>5, <2>1, AppendProperties, LenProperties, ElementOfSeq
  <2>3. \A m \in 1 .. n : m = n \/ m \in 1 .. Len(customs)
    BY <1>4
  <2> HIDE DEF n
  <2>4. \A m \in DOMAIN customs' : customs'[m][1] = "other"
    BY <1>4, <1>5, <2>2, <2>3 DEF CustomInv
  <2>5. \A l, m \in DOMAIN customs' : customs'[l] = customs'[m] => l = m
    BY <1>4, <1>5, <2>2, <2>3 DEF CustomInv
  <2>6. n \in 1 .. n /\ \A m \in 1 .. Len(customs) : m \in 1 .. n
    BY <1>4 DEF n
  <2>7. \A l \in DOMAIN buckets' : l[1] = "other" => \E m \in DOMAIN customs' : customs'[m] = l
    BY <1>3, <1>4, <2>2, <2>6 DEF CustomInv
  <2> QED BY <2>4, <2>5, <2>7 DEF CustomInv
<1>6. CASE ~(k[1] = "other" /\ k \notin DOMAIN buckets)
  BY <1>2, <1>3, <1>6 DEF CustomInv
<1> QED BY <1>5, <1>6

LEMMA CustomStep ==
  TypeInv /\ BucketInv /\ CustomInv /\ [LayoutNext \/ LayoutReturned]_layoutVars => CustomInv'
<1> SUFFICES ASSUME TypeInv, BucketInv, CustomInv, [LayoutNext \/ LayoutReturned]_layoutVars
             PROVE  CustomInv'
  OBVIOUS
<1>1. CASE UNCHANGED <<customs, buckets>>
  BY <1>1 DEF CustomInv
<1> QED BY <1>1, CustomPlace, OtherActions

SectionKey(m) == <<m.class, m.name>>

\* The order of the sections, in every state.
Ordered ==
  \A i, j \in DOMAIN out : i < j =>
    /\ out[i].name /= out[j].name
    /\ out[j].class \in ToSet(classOrder) =>
         /\ out[i].class \in ToSet(classOrder)
         /\ ClassRank(out[i].class) < ClassRank(out[j].class)

\* Pass B: the sections emitted so far are buckets, in order and before those
\* that are still to come; after it, every bucket has its section.
EmitInv ==
  /\ \A n \in DOMAIN out : SectionKey(out[n]) \in DOMAIN buckets /\ out[n].from = buckets[SectionKey(out[n])].from
  /\ pc = "place" => out = << >>
  /\ pc = "emit" =>
       \A n \in DOMAIN out :
         /\ out[n].class /= "other"
         /\ \A l \in Pending : ClassRank(out[n].class) < ClassRank(l[1])
  /\ Ordered
  /\ pc \in {"bind", "stride", "laid"} =>
       \A k \in DOMAIN buckets : \E n \in DOMAIN out : SectionKey(out[n]) = k

\* A bucket's key has one of the two shapes.
LEMMA BucketShape ==
  ASSUME TypeInv, BucketInv, NEW k \in DOMAIN buckets
  PROVE  k \in StdKey \cup OtherKey /\ buckets[k].class = k[1] /\ buckets[k].name = k[2]
<1>1. PICK i \in Kept : KeyOf(i) = k
  BY DEF BucketInv
<1>2. secs[i] \in InputSection
  BY LenProperties, ElementOfSeq DEF Kept, TypeInv, LayoutTypeOK
<1> QED BY <1>1, <1>2, KeyShape DEF KeyOf, BucketInv

\* The classes of standard sections have different ranks.
LEMMA RankOfKey ==
  ASSUME NEW k \in StdKey \cup OtherKey, k[1] /= "other"
  PROVE  /\ k[1] \in ToSet(classOrder) /\ ClassRank(k[1]) \in Nat
         /\ \A l \in StdKey \cup OtherKey :
              l[1] /= "other" /\ ClassRank(l[1]) = ClassRank(k[1]) => l = k
<1>1. k[1] \in {"text", "rdata", "data"}
  BY DEF StdKey, OtherKey
<1>2. ASSUME NEW l \in StdKey \cup OtherKey, l[1] /= "other", ClassRank(l[1]) = ClassRank(k[1])
      PROVE  l = k
  <2>1. l[1] \in {"text", "rdata", "data"}
    BY <1>2 DEF StdKey, OtherKey
  <2>2. l[1] = k[1]
    BY <1>1, <1>2, <2>1, Ranks
  <2> QED BY <2>2, KeyDetermined
<1> QED BY <1>1, <1>2, Ranks

LEMMA EmitStandardStep ==
  ASSUME TypeInv, BucketInv, EmitInv, NEW k \in DOMAIN buckets, EmitStandard(k)
  PROVE  EmitInv'
<1> DEFINE n == Len(out) + 1
<1>1. /\ out \in Seq(Merged) /\ Len(out) \in Nat /\ DOMAIN out = 1 .. Len(out)
      /\ buckets[k] \in Merged
  BY LenProperties DEF TypeInv, LayoutTypeOK
<1>2. /\ out' = Append(out, buckets[k]) /\ k \in Pending /\ pc = "emit" /\ pc' = "emit"
      /\ \A l \in Pending : ClassRank(k[1]) <= ClassRank(l[1])
      /\ UNCHANGED buckets
  BY DEF EmitStandard
<1>3. /\ DOMAIN out' = 1 .. n /\ out'[n] = buckets[k]
      /\ \A m \in 1 .. Len(out) : out'[m] = out[m]
  BY <1>1, <1>2, AppendProperties, LenProperties
<1>4. \A m \in 1 .. n : m = n \/ (m \in DOMAIN out /\ m < n)
  BY <1>1
<1>5. \A m \in DOMAIN out : SectionKey(out'[m]) = SectionKey(out[m])
  BY <1>1, <1>3 DEF SectionKey
<1>6. SectionKey(out'[n]) = k
  <2>1. k = <<buckets[k].class, buckets[k].name>>
    BY BucketShape, KeyDetermined
  <2> QED BY <1>3, <2>1 DEF SectionKey
<1>7. k[1] /= "other" /\ k \in StdKey \cup OtherKey /\ buckets[k].class = k[1] /\ buckets[k].name = k[2]
  BY <1>2, BucketShape DEF Pending, StdKeys
<1>8. Pending' \subseteq Pending /\ k \notin Pending'
  <2>1. Emitted = {SectionKey(out[m]) : m \in DOMAIN out}
    BY DEF Emitted, SectionKey
  <2>2. Emitted' = {SectionKey(out'[m]) : m \in DOMAIN out'}
    BY DEF Emitted, SectionKey
  <2>3. Emitted \subseteq Emitted' /\ k \in Emitted'
    BY <1>1, <1>3, <1>5, <1>6, <2>1, <2>2
  <2> QED BY <1>2, <2>3 DEF Pending, StdKeys
<1> HIDE DEF n
<1>9. ASSUME NEW l \in Pending' PROVE ClassRank(k[1]) < ClassRank(l[1])
  <2>1. l \in Pending /\ l /= k
    BY <1>8
  <2>2. l \in StdKey \cup OtherKey /\ l[1] /= "other"
    BY <2>1, BucketShape DEF Pending, StdKeys
  <2>3. ClassRank(k[1]) <= ClassRank(l[1]) /\ ClassRank(k[1]) /= ClassRank(l[1])
    BY <1>2, <1>7, <2>1, <2>2, RankOfKey
  <2> QED BY <1>7, <2>2, <2>3, RankOfKey
<1>10. ASSUME NEW m \in DOMAIN out
       PROVE  /\ out[m].class /= "other" /\ SectionKey(out[m]) \in StdKey \cup OtherKey
              /\ ClassRank(out[m].class) < ClassRank(k[1])
              /\ \A l \in Pending' : ClassRank(out[m].class) < ClassRank(l[1])
  <2>1. SectionKey(out[m]) \in DOMAIN buckets
    BY DEF EmitInv
  <2> QED BY <1>2, <1>8, <2>1, BucketShape DEF EmitInv
<1>11. \A m \in DOMAIN out' : /\ SectionKey(out'[m]) \in DOMAIN buckets'
                              /\ out'[m].from = buckets'[SectionKey(out'[m])].from
  BY <1>2, <1>3, <1>4, <1>5, <1>6 DEF EmitInv
<1>12. \A m \in DOMAIN out' : /\ out'[m].class /= "other"
                              /\ \A l \in Pending' : ClassRank(out'[m].class) < ClassRank(l[1])
  BY <1>1, <1>3, <1>4, <1>7, <1>9, <1>10
<1>13. Ordered'
  <2> SUFFICES ASSUME NEW i \in DOMAIN out', NEW j \in DOMAIN out', i < j
               PROVE  /\ out'[i].name /= out'[j].name
                      /\ out'[j].class \in ToSet(classOrder) =>
                           /\ out'[i].class \in ToSet(classOrder)
                           /\ ClassRank(out'[i].class) < ClassRank(out'[j].class)
    BY DEF Ordered
  <2>1. i \in DOMAIN out
    <3>1. i \in 1 .. n /\ j \in 1 .. n /\ n \in Nat
      BY <1>1, <1>3 DEF n
    <3> QED BY <1>4, <3>1
  <2>2. CASE j \in DOMAIN out
    BY <1>1, <1>3, <2>1, <2>2 DEF EmitInv, Ordered
  <2>3. CASE j = n
    <3>1. SectionKey(out[i]) \in StdKey \cup OtherKey /\ out[i].class /= "other"
          /\ ClassRank(out[i].class) < ClassRank(k[1])
      BY <1>10, <2>1
    <3>2. SectionKey(out[i])[1] = out[i].class /\ SectionKey(out[i])[2] = out[i].name
      BY DEF SectionKey
    <3>3. out[i].class \in ToSet(classOrder) /\ ClassRank(out[i].class) \in Nat
      BY <3>1, <3>2, RankOfKey
    <3>4. out[i].name /= k[2]
      BY <1>7, <3>1, <3>2, <3>3, KeyDetermined
    <3> QED BY <1>1, <1>3, <1>7, <2>1, <2>3, <3>1, <3>3, <3>4
  <2> QED BY <1>3, <1>4, <2>2, <2>3
<1> QED BY <1>2, <1>11, <1>12, <1>13 DEF EmitInv

\* The sections that the passthrough buckets become.
LEMMA CustomsAppended ==
  ASSUME TypeInv, EmitCustoms
  PROVE  /\ Len(out) \in Nat /\ DOMAIN out = 1 .. Len(out)
         /\ Len(customs) \in Nat /\ DOMAIN customs = 1 .. Len(customs)
         /\ DOMAIN out' = 1 .. Len(out) + Len(customs)
         /\ \A n \in 1 .. Len(out) : out'[n] = out[n]
         /\ \A m \in 1 .. Len(customs) :
              customs[m] \in DOMAIN buckets /\ out'[Len(out) + m] = buckets[customs[m]]
<1> DEFINE tail == [i \in DOMAIN customs |-> buckets[customs[i]]]
<1>1. /\ out \in Seq(Merged) /\ Len(out) \in Nat /\ DOMAIN out = 1 .. Len(out)
      /\ Len(customs) \in Nat /\ DOMAIN customs = 1 .. Len(customs)
      /\ \A m \in 1 .. Len(customs) : customs[m] \in DOMAIN buckets
  BY LenProperties, ElementOfSeq DEF TypeInv, LayoutTypeOK
<1>2. \A m \in 1 .. Len(customs) : buckets[customs[m]] \in Merged
  BY <1>1 DEF TypeInv, LayoutTypeOK
<1>3. tail \in Seq(Merged) /\ Len(tail) = Len(customs)
  BY <1>1, <1>2, IsASeq, LenProperties
<1>4. \A m \in 1 .. Len(customs) : tail[m] = buckets[customs[m]]
  BY <1>1
<1> HIDE DEF tail
<1>5. out' = out \o tail
  BY DEF EmitCustoms, tail
<1>6. /\ out' \in Seq(Merged) /\ Len(out') = Len(out) + Len(customs)
      /\ \A n \in 1 .. Len(out) + Len(customs) :
           out'[n] = IF n <= Len(out) THEN out[n] ELSE tail[n - Len(out)]
  <2>1. out \o tail \in Seq(Merged) /\ Len(out \o tail) = Len(out) + Len(tail)
    BY <1>1, <1>3, ConcatProperties
  <2>2. \A n \in 1 .. Len(out) + Len(tail) :
          (out \o tail)[n] = IF n <= Len(out) THEN out[n] ELSE tail[n - Len(out)]
    BY <1>1, <1>3, ConcatProperties
  <2> QED BY <1>3, <1>5, <2>1, <2>2
<1>7. DOMAIN out' = 1 .. Len(out) + Len(customs)
  BY <1>6, LenProperties
<1>8. \A n \in 1 .. Len(out) : out'[n] = out[n]
  BY <1>1, <1>6
<1>9. ASSUME NEW m \in 1 .. Len(customs) PROVE out'[Len(out) + m] = buckets[customs[m]]
  <2>1. Len(out) + m \in 1 .. Len(out) + Len(customs) /\ ~(Len(out) + m <= Len(out))
        /\ (Len(out) + m) - Len(out) = m
    BY <1>1
  <2> QED BY <1>4, <1>6, <2>1
<1> QED BY <1>1, <1>7, <1>8, <1>9

LEMMA EmitCustomsStep ==
  ASSUME TypeInv, BucketInv, CustomInv, EmitInv, EmitCustoms
  PROVE  EmitInv'
<1>1. /\ Len(out) \in Nat /\ DOMAIN out = 1 .. Len(out)
      /\ Len(customs) \in Nat /\ DOMAIN customs = 1 .. Len(customs)
      /\ DOMAIN out' = 1 .. Len(out) + Len(customs)
      /\ \A n \in 1 .. Len(out) : out'[n] = out[n]
      /\ \A m \in 1 .. Len(customs) :
           customs[m] \in DOMAIN buckets /\ out'[Len(out) + m] = buckets[customs[m]]
  BY CustomsAppended
<1>2. pc = "emit" /\ pc' = "bind" /\ Pending = {} /\ UNCHANGED buckets
  BY DEF EmitCustoms
<1>3. ASSUME NEW m \in 1 .. Len(customs)
      PROVE  /\ customs[m] \in OtherKey /\ SectionKey(buckets[customs[m]]) = customs[m]
             /\ buckets[customs[m]].class = "other"
             /\ buckets[customs[m]].name = customs[m][2]
  <2>1. customs[m] \in DOMAIN buckets /\ customs[m][1] = "other"
    BY <1>1 DEF CustomInv
  <2>2. customs[m] \in StdKey \cup OtherKey /\ customs[m] \notin StdKey
    BY <2>1, BucketShape DEF StdKey
  <2> QED BY <2>1, <2>2, BucketShape, KeyDetermined DEF SectionKey
<1>4. ASSUME NEW n \in DOMAIN out
      PROVE  /\ out[n].class /= "other"
             /\ SectionKey(out[n]) \in StdKey \cup OtherKey
             /\ SectionKey(out[n])[2] = out[n].name /\ SectionKey(out[n])[1] = out[n].class
  BY <1>2, BucketShape DEF EmitInv, SectionKey
<1>5. ASSUME NEW j \in DOMAIN out'
      PROVE  j \in DOMAIN out \/ \E m \in 1 .. Len(customs) : j = Len(out) + m
  <2>1. CASE j <= Len(out)
    BY <1>1, <2>1
  <2>2. CASE ~(j <= Len(out))
    <3>1. j - Len(out) \in 1 .. Len(customs) /\ j = Len(out) + (j - Len(out))
      BY <1>1, <2>2
    <3> QED BY <3>1
  <2> QED BY <2>1, <2>2
<1>6. \A n \in DOMAIN out' : /\ SectionKey(out'[n]) \in DOMAIN buckets
                             /\ out'[n].from = buckets[SectionKey(out'[n])].from
  BY <1>1, <1>3, <1>5 DEF EmitInv
<1>7. Ordered'
  <2> SUFFICES ASSUME NEW i \in DOMAIN out', NEW j \in DOMAIN out', i < j
               PROVE  /\ out'[i].name /= out'[j].name
                      /\ out'[j].class \in ToSet(classOrder) =>
                           /\ out'[i].class \in ToSet(classOrder)
                           /\ ClassRank(out'[i].class) < ClassRank(out'[j].class)
    BY DEF Ordered
  <2>1. CASE j \in DOMAIN out
    <3>1. i \in DOMAIN out
      BY <1>1, <2>1
    <3> QED BY <1>1, <2>1, <3>1 DEF EmitInv, Ordered
  <2>2. ASSUME NEW m \in 1 .. Len(customs), j = Len(out) + m
        PROVE  /\ out'[i].name /= out'[j].name
               /\ out'[j].class \notin ToSet(classOrder)
    <3>1. out'[j].class \notin ToSet(classOrder)
      BY <1>1, <1>3, <2>2, Ranks
    <3>2. CASE i \in DOMAIN out
      <4> DEFINE k == SectionKey(out[i])
                 l == customs[m]
      <4>1. k \in StdKey \cup OtherKey /\ l \in StdKey \cup OtherKey /\ k[1] /= l[1]
        BY <1>3, <1>4, <2>2, <3>2 DEF OtherKey
      <4>2. k[2] /= l[2]
        BY <4>1, KeyDetermined
      <4>3. out'[i].name = k[2] /\ out'[j].name = l[2]
        BY <1>1, <1>3, <1>4, <2>2, <3>2
      <4> QED BY <3>1, <4>2, <4>3
    <3>3. ASSUME NEW l \in 1 .. Len(customs), i = Len(out) + l
          PROVE  out'[i].name /= out'[j].name
      <4>1. customs[l] /= customs[m]
        <5>1. l /= m
          BY <1>1, <2>2, <3>3
        <5> QED BY <1>1, <5>1 DEF CustomInv
      <4>2. customs[l][2] /= customs[m][2]
        BY <1>3, <2>2, <3>3, <4>1, KeyDetermined
      <4> QED BY <1>1, <1>3, <2>2, <3>3, <4>2
    <3> QED BY <1>5, <3>1, <3>2, <3>3
  <2> QED BY <1>5, <2>1, <2>2
<1>8. ASSUME NEW k \in DOMAIN buckets PROVE \E n \in DOMAIN out' : SectionKey(out'[n]) = k
  <2>1. CASE k[1] /= "other"
    <3>1. k \in Emitted
      BY <1>2, <2>1 DEF Pending, StdKeys
    <3>2. PICK n \in DOMAIN out : k = SectionKey(out[n])
      BY <3>1 DEF Emitted, SectionKey
    <3>3. n \in DOMAIN out' /\ out'[n] = out[n]
      BY <1>1
    <3> QED BY <3>2, <3>3
  <2>2. CASE k[1] = "other"
    <3>1. PICK m \in 1 .. Len(customs) : customs[m] = k
      BY <1>1, <2>2 DEF CustomInv
    <3>2. Len(out) + m \in DOMAIN out'
      BY <1>1
    <3> QED BY <1>1, <1>3, <3>1, <3>2
  <2> QED BY <2>1, <2>2
<1> QED BY <1>2, <1>6, <1>7, <1>8 DEF EmitInv

\* Pass C leaves names, classes and contents alone.
SameContents ==
  /\ DOMAIN out' = DOMAIN out
  /\ \A n \in DOMAIN out : /\ out'[n].class = out[n].class /\ out'[n].name = out[n].name
                           /\ out'[n].from = out[n].from /\ out'[n].data = out[n].data

LEMMA StrideContents == ASSUME TypeInv, Stride PROVE SameContents
<1> DEFINE n == strided + 1
<1>1. StrideWrites(n)
  BY StrideStep
<1>2. DOMAIN out = 1 .. Len(out) /\ DOMAIN out' = 1 .. Len(out)
  <2>1. out' \in Seq(Merged) /\ out \in Seq(Merged)
    BY StrideTyped DEF TypeInv, LayoutTypeOK
  <2> QED BY <1>1, <2>1, LenProperties DEF StrideWrites
<1> HIDE DEF n
<1>3. /\ n \in 1 .. Len(out) /\ out'[n].class = out[n].class /\ out'[n].name = out[n].name
      /\ out'[n].from = out[n].from /\ out'[n].data = out[n].data
  BY <1>1 DEF StrideWrites, Merged
<1>4. \A j \in 1 .. Len(out) : j /= n => out'[j] = out[j]
  BY <1>1 DEF StrideWrites
<1> QED BY <1>2, <1>3, <1>4 DEF SameContents

LEMMA EmitInit == LayoutInit => EmitInv
BY DEF LayoutInit, EmitInv, Ordered

LEMMA EmitSame ==
  ASSUME EmitInv, SameContents, UNCHANGED buckets, pc \in {"bind", "stride", "laid"},
         pc' \in {"bind", "stride", "laid"}
  PROVE  EmitInv'
<1>1. \A n \in DOMAIN out : SectionKey(out'[n]) = SectionKey(out[n])
  BY DEF SameContents, SectionKey
<1>2. Ordered'
  BY DEF EmitInv, Ordered, SameContents
<1>3. \A n \in DOMAIN out' : /\ SectionKey(out'[n]) \in DOMAIN buckets
                             /\ out'[n].from = buckets[SectionKey(out'[n])].from
  BY <1>1 DEF EmitInv, SameContents
<1>4. \A k \in DOMAIN buckets : \E n \in DOMAIN out' : SectionKey(out'[n]) = k
  BY <1>1 DEF EmitInv, SameContents
<1> QED BY <1>2, <1>3, <1>4 DEF EmitInv

LEMMA EmitStep ==
  TypeInv /\ BucketInv /\ CustomInv /\ EmitInv /\ [LayoutNext \/ LayoutReturned]_layoutVars
    => EmitInv'
<1> SUFFICES ASSUME TypeInv, BucketInv, CustomInv, EmitInv,
                    [LayoutNext \/ LayoutReturned]_layoutVars
             PROVE  EmitInv'
  OBVIOUS
<1>1. ASSUME NEW i \in todo, Place(i) PROVE EmitInv'
  <2>1. out = << >> /\ out' = << >> /\ pc' = "place"
    BY <1>1 DEF Place, EmitInv
  <2> QED BY <2>1 DEF EmitInv, Ordered
<1>2. CASE AllPlaced
  <2>1. out = << >> /\ out' = << >> /\ pc' = "emit"
    BY <1>2 DEF AllPlaced, EmitInv
  <2> QED BY <2>1 DEF EmitInv, Ordered
<1>3. ASSUME NEW k \in DOMAIN buckets, EmitStandard(k) PROVE EmitInv'
  BY <1>3, EmitStandardStep
<1>4. CASE EmitCustoms
  BY <1>4, EmitCustomsStep
<1>5. CASE BindWhere \/ Laid
  <2>1. UNCHANGED <<out, buckets>> /\ pc \in {"bind", "stride"} /\ pc' \in {"stride", "laid"}
    BY <1>5 DEF BindWhere, Laid
  <2> QED BY <2>1, EmitSame DEF SameContents
<1>6. CASE Stride
  <2>1. UNCHANGED <<buckets, pc>> /\ pc = "stride"
    BY <1>6 DEF Stride
  <2> QED BY <1>6, <2>1, StrideContents, EmitSame
<1>7. CASE UNCHANGED layoutVars
  <2>1. UNCHANGED <<out, buckets, pc>>
    BY <1>7 DEF layoutVars
  <2> QED BY <2>1 DEF EmitInv, Ordered, Pending, StdKeys, Emitted
<1> QED BY <1>1, <1>2, <1>3, <1>4, <1>5, <1>6, <1>7 DEF LayoutNext, LayoutReturned

ListInv == BucketInv /\ CustomInv /\ EmitInv

LEMMA ListInit == LayoutInit => ListInv
BY BucketInit, CustomInit, EmitInit DEF ListInv

LEMMA ListStep ==
  TypeInv /\ ListInv /\ [LayoutNext \/ LayoutReturned]_layoutVars => ListInv'
BY BucketStep, CustomStep, EmitStep DEF ListInv

\* Pass B: standard sections first, in classOrder, at most one of each, and no
\* name twice, in whatever order the map of buckets is ranged over.
THEOREM LayoutOutputOrder == LayoutSpec => []OutputOrder
<1>1. LayoutInit => TypeInv /\ ListInv
  BY TypeInit, ListInit
<1>2. TypeInv /\ ListInv /\ [LayoutNext \/ LayoutReturned]_layoutVars => TypeInv' /\ ListInv'
  BY TypeStep, ListStep
<1>3. ListInv => OutputOrder
  BY DEF ListInv, EmitInv, Ordered, OutputOrder
<1> QED BY <1>1, <1>2, <1>3, PTL DEF LayoutSpec

-------------------------------------------------------------------------------
(* Uninitialised inputs lie behind the bytes of their section *)

BssBehind ==
  WellFlagged =>
    /\ \A k \in DOMAIN buckets :
         /\ buckets[k].data <= buckets[k].vsize
         /\ \A i \in buckets[k].from : secs[i].bss => buckets[k].data <= offIn[i]
    /\ \A n \in DOMAIN out : \A i \in out[n].from : secs[i].bss => out[n].data <= offIn[i]

LEMMA BehindInit == LayoutInit => BssBehind
BY DEF LayoutInit, BssBehind

LEMMA BehindPlace ==
  ASSUME TypeInv, BucketInv, EmitInv, OrderInv, BssBehind, NEW i \in todo, Place(i)
  PROVE  BssBehind'
<1>1. PICK s, k, b, a : PlaceWrites(i, s, k, b, a)
  BY PlaceStep
<1>2. secs' = secs /\ out' = out /\ (WellFlagged' <=> WellFlagged) /\ out = << >>
  BY <1>1 DEF PlaceWrites, Kept, WellFlagged, EmitInv
<1> SUFFICES ASSUME WellFlagged
             PROVE  \A l \in DOMAIN buckets' :
                      /\ buckets'[l].data <= buckets'[l].vsize
                      /\ \A j \in buckets'[l].from : secs[j].bss => buckets'[l].data <= offIn'[j]
  BY <1>2 DEF BssBehind
<1>3. /\ b.data \in Nat /\ b.vsize \in Nat /\ s.data \in Nat /\ s.vsize \in Nat
      /\ s = secs[i] /\ s.bss \in BOOLEAN
      /\ offIn'[i] = IF s.bss THEN b.vsize ELSE b.data
  BY <1>1 DEF PlaceWrites, Merged, InputSection, PlacedAt
<1>4. /\ a.from = b.from \cup {i}
      /\ s.bss  => a.data = b.data /\ a.vsize = b.vsize + s.vsize
      /\ ~s.bss => a.data = b.data + s.data /\ a.vsize = b.data + s.data
  BY <1>1, AbsorbWrites DEF PlaceWrites
<1>5. b.data <= b.vsize /\ \A j \in b.from : secs[j].bss => b.data <= offIn[j]
  <2>1. CASE k \in DOMAIN buckets
    BY <1>1, <2>1 DEF PlaceWrites, BssBehind
  <2>2. CASE k \notin DOMAIN buckets
    BY <1>1, <2>2 DEF PlaceWrites
  <2> QED BY <2>1, <2>2
<1>6. ASSUME NEW l \in DOMAIN buckets, NEW j \in buckets[l].from
      PROVE  offIn'[j] = offIn[j] /\ j \in Kept \ todo /\ KeyOf(j) = l
  <2>1. j \in Kept \ todo /\ j \in DOMAIN offIn /\ KeyOf(j) = l
    BY <1>6 DEF BucketInv
  <2> QED BY <1>1, <2>1 DEF PlaceWrites
<1>7. ASSUME NEW j \in b.from PROVE offIn'[j] = offIn[j] /\ (~s.bss => ~secs[j].bss)
  <2>1. k \in DOMAIN buckets /\ b = buckets[k] /\ KeyOf(i) = k
    BY <1>1, <1>7 DEF PlaceWrites
  <2> QED BY <1>3, <1>6, <2>1, BssLast
<1>8. a.data <= a.vsize /\ \A j \in a.from : secs[j].bss => a.data <= offIn'[j]
  BY <1>3, <1>4, <1>5, <1>7
<1>9. ASSUME NEW l \in DOMAIN buckets', l /= k
      PROVE  l \in DOMAIN buckets /\ buckets'[l] = buckets[l]
  BY <1>1, <1>9 DEF PlaceWrites
<1>10. buckets'[k] = a
  BY <1>1 DEF PlaceWrites
<1> QED BY <1>6, <1>8, <1>9, <1>10 DEF BssBehind

LEMMA BehindStep ==
  TypeInv /\ ListInv /\ OrderInv /\ BssBehind /\ [LayoutNext \/ LayoutReturned]_layoutVars
    => BssBehind'
<1> SUFFICES ASSUME TypeInv, ListInv, OrderInv, BssBehind,
                    [LayoutNext \/ LayoutReturned]_layoutVars
             PROVE  BssBehind'
  OBVIOUS
<1>1. ASSUME NEW i \in todo, Place(i) PROVE BssBehind'
  BY <1>1, BehindPlace DEF ListInv
<1>2. CASE EmitCustoms \/ \E k \in DOMAIN buckets : EmitStandard(k)
  <2>1. UNCHANGED <<secs, buckets, offIn>> /\ (WellFlagged' <=> WellFlagged)
    BY <1>2 DEF EmitCustoms, EmitStandard, Kept, WellFlagged
  <2> QED BY <1>2, <2>1, EmitsBuckets DEF BssBehind
<1>3. CASE Stride
  <2>1. UNCHANGED <<secs, buckets, offIn>> /\ (WellFlagged' <=> WellFlagged)
    BY <1>3 DEF Stride, Kept, WellFlagged
  <2>2. SameContents
    BY <1>3, StrideContents
  <2> QED BY <2>1, <2>2 DEF BssBehind, SameContents
<1>4. CASE UNCHANGED <<secs, buckets, offIn, out>>
  <2>1. WellFlagged' <=> WellFlagged
    BY <1>4 DEF Kept, WellFlagged
  <2> QED BY <1>4, <2>1 DEF BssBehind
<1> QED BY <1>1, <1>2, <1>3, <1>4
        DEF LayoutNext, LayoutReturned, AllPlaced, Laid, BindWhere, layoutVars

-------------------------------------------------------------------------------
(* Every input is bound to the section with its bytes *)

\* The sections whose contents include input i.
Holders(i) == {m \in DOMAIN out : i \in out[m].from}

LEMMA BindHome ==
  ASSUME TypeInv, ListInv, BindWhere
  PROVE  WhereHome'
<1>1. /\ DOMAIN where' = DOMAIN where /\ UNCHANGED <<secs, out>> /\ todo = {} /\ Kept' = Kept
      /\ \A i \in DOMAIN where : where'[i] = FirstNamed(bucketName(secs[i]))
  BY DEF BindWhere, HomeName, ListInv, BucketInv, Kept
<1>2. DOMAIN where = Kept /\ DOMAIN out \subseteq Nat
  BY <1>1, LenProperties DEF ListInv, BucketInv, TypeInv, LayoutTypeOK
<1>3. ASSUME NEW i \in Kept PROVE Holders(i) = {where'[i]}
  <2> DEFINE k == KeyOf(i)
  <2>1. k \in DOMAIN buckets /\ secs[i] \in InputSection
    BY <1>1, LenProperties, ElementOfSeq DEF ListInv, BucketInv, Kept, TypeInv, LayoutTypeOK
  <2>2. k[2] = bucketName(secs[i])
    BY <2>1, KeyTyped DEF KeyOf
  <2>3. PICK n \in DOMAIN out : SectionKey(out[n]) = k
    BY <2>1 DEF BindWhere, ListInv, EmitInv
  <2>4. out[n].name = bucketName(secs[i])
    BY <2>2, <2>3 DEF SectionKey
  <2>5. ASSUME NEW m \in DOMAIN out, out[m].name = out[n].name PROVE m = n
    <3>1. ~(m < n) /\ ~(n < m)
      BY <2>5 DEF ListInv, EmitInv, Ordered
    <3> QED BY <1>2, <3>1
  <2>6. where'[i] = n
    <3>1. {m \in DOMAIN out : out[m].name = bucketName(secs[i])} = {n}
      BY <2>4, <2>5
    <3>2. FirstNamed(bucketName(secs[i])) = n
      BY <1>2, <3>1 DEF FirstNamed
    <3> QED BY <1>1, <1>2, <3>2
  <2>7. ASSUME NEW m \in DOMAIN out PROVE i \in out[m].from <=> m = n
    <3>1. /\ out[m].from = buckets[SectionKey(out[m])].from
          /\ SectionKey(out[m]) \in DOMAIN buckets
      BY DEF ListInv, EmitInv
    <3>2. i \in out[m].from <=> SectionKey(out[m]) = k
      BY <1>1, <3>1 DEF ListInv, BucketInv
    <3>3. SectionKey(out[m]) = k => out[m].name = out[n].name
      BY <2>3 DEF SectionKey
    <3> QED BY <2>3, <2>5, <3>2, <3>3
  <2> QED BY <2>6, <2>7 DEF Holders
<1> QED BY <1>1, <1>2, <1>3 DEF WhereHome, Holders

LEMMA HomeStep ==
  TypeInv /\ ListInv /\ WhereHome /\ [LayoutNext \/ LayoutReturned]_layoutVars => WhereHome'
<1> SUFFICES ASSUME TypeInv, ListInv, WhereHome, [LayoutNext \/ LayoutReturned]_layoutVars
             PROVE  WhereHome'
  OBVIOUS
<1>1. ASSUME SameContents, UNCHANGED <<secs, where>>, pc \in {"stride", "laid"}
      PROVE  WhereHome'
  <2>1. Kept' = Kept
    BY <1>1 DEF Kept
  <2>2. ASSUME NEW i \in Kept
        PROVE  {m \in DOMAIN out' : i \in out'[m].from} = {m \in DOMAIN out : i \in out[m].from}
    BY <1>1 DEF SameContents
  <2> QED BY <1>1, <2>1, <2>2 DEF WhereHome
<1>2. CASE BindWhere
  BY <1>2, BindHome
<1>3. CASE Stride
  BY <1>1, <1>3, StrideContents DEF Stride
<1>4. CASE Laid \/ LayoutReturned
  BY <1>1, <1>4 DEF Laid, LayoutReturned, layoutVars, SameContents
<1>5. CASE UNCHANGED layoutVars
  BY <1>5 DEF layoutVars, WhereHome, Kept
<1>6. CASE pc' \notin {"stride", "laid"}
  BY <1>6 DEF WhereHome
<1> QED BY <1>2, <1>3, <1>4, <1>5, <1>6
        DEF LayoutNext, Place, AllPlaced, EmitStandard, EmitCustoms

\* Every surviving input is bound to the one section that holds its bytes.
THEOREM LayoutWhereHome == LayoutSpec => []WhereHome
<1>1. LayoutInit => TypeInv /\ ListInv /\ WhereHome
  BY TypeInit, ListInit DEF LayoutInit, WhereHome
<1>2. TypeInv /\ ListInv /\ WhereHome /\ [LayoutNext \/ LayoutReturned]_layoutVars
        => TypeInv' /\ ListInv' /\ WhereHome'
  BY TypeStep, ListStep, HomeStep
<1> QED BY <1>1, <1>2, PTL DEF LayoutSpec

-------------------------------------------------------------------------------
(* What ComputeLayout leaves behind *)

\* Pass C starts at the header reserve, and places every section before it is done.
FrontInv ==
  /\ pc = "laid" => strided = Len(out)
  /\ pc \in {"stride", "laid"} /\ strided = 0 => foff = AlignUp(opts.hr, opts.fa)
  /\ strided > 0 => out[1].foff = AlignUp(opts.hr, opts.fa)

LEMMA FrontInit == LayoutInit => FrontInv
BY DEF LayoutInit, FrontInv

LEMMA FrontStride ==
  ASSUME TypeInv, FrontInv, Stride
  PROVE  FrontInv'
<1> DEFINE n == strided + 1
<1>1. StrideWrites(n)
  BY StrideStep
<1>2. pc = "stride" /\ UNCHANGED <<opts, pc>> /\ strided \in Nat
  BY DEF Stride, TypeInv, LayoutTypeOK
<1>3. out'[n].foff = foff /\ strided' = n /\ n \in 1 .. Len(out)
  BY <1>1 DEF StrideWrites, Merged
<1>4. \A j \in 1 .. Len(out) : j /= n => out'[j] = out[j]
  BY <1>1 DEF StrideWrites
<1>5. out'[1].foff = AlignUp(opts.hr, opts.fa)
  <2>1. CASE strided = 0
    BY <1>2, <1>3, <2>1 DEF FrontInv
  <2>2. CASE strided > 0
    <3>1. 1 /= n /\ 1 \in 1 .. Len(out)
      BY <1>2, <1>3, <2>2
    <3> QED BY <1>4, <2>2, <3>1 DEF FrontInv
  <2> QED BY <1>2, <2>1, <2>2
<1>6. strided' /= 0
  BY <1>2, <1>3
<1> QED BY <1>2, <1>5, <1>6 DEF FrontInv

LEMMA FrontStep ==
  TypeInv /\ ApartInv /\ FrontInv /\ [LayoutNext \/ LayoutReturned]_layoutVars => FrontInv'
<1> SUFFICES ASSUME TypeInv, ApartInv, FrontInv, [LayoutNext \/ LayoutReturned]_layoutVars
             PROVE  FrontInv'
  OBVIOUS
<1>1. CASE strided' = 0 /\ pc' \notin {"stride", "laid"}
  BY <1>1 DEF FrontInv
<1>2. ASSUME NEW i \in todo, Place(i) PROVE FrontInv'
  BY <1>1, <1>2 DEF Place, ApartInv
<1>3. CASE AllPlaced \/ EmitCustoms \/ \E k \in DOMAIN buckets : EmitStandard(k)
  BY <1>1, <1>3 DEF AllPlaced, EmitCustoms, EmitStandard, ApartInv
<1>4. CASE BindWhere
  BY <1>4 DEF BindWhere, ApartInv, FrontInv
<1>5. CASE Stride
  BY <1>5, FrontStride
<1>6. CASE Laid
  BY <1>6 DEF Laid, FrontInv
<1>7. CASE UNCHANGED layoutVars
  BY <1>7 DEF layoutVars, FrontInv
<1> QED BY <1>2, <1>3, <1>4, <1>5, <1>6, <1>7 DEF LayoutNext, LayoutReturned

\* Everything about ComputeLayout that its callers need.
LaidInv == ListInv /\ BssInv /\ ApartInv /\ FrontInv

LEMMA LaidInit == LayoutInit => LaidInv
BY ListInit, BssInit, ApartInit, FrontInit DEF LaidInv

LEMMA LaidStep ==
  TypeInv /\ LaidInv /\ [LayoutNext \/ LayoutReturned]_layoutVars => LaidInv'
BY ListStep, BssStep, ApartStep, FrontStep DEF LaidInv

-------------------------------------------------------------------------------
(* The section list after appendRelocSection *)

\* The sections follow each other, aligned, behind the header reserve.
TailApart ==
  /\ Ascending(out)
  /\ \A i \in DOMAIN out : /\ out[i].rva % opts.sa = 0 /\ out[i].rva >= opts.hr
                           /\ out[i].foff % opts.fa = 0 /\ out[i].foff >= opts.hr
  /\ out /= << >> => out[1].foff = AlignUp(opts.hr, opts.fa)

\* One section at most has been synthesised, and only that is called .reloc.
TailNames ==
  /\ NoInputReloc =>
       \A i \in DOMAIN out : out[i].name = ".reloc" <=> out[i].class = "reloc"
  /\ \A i, j \in DOMAIN out : out[i].class = "reloc" /\ out[j].class = "reloc" => i = j

\* No output section of ComputeLayout is of the class of .reloc, and none has its
\* name unless an input has.
LEMMA NotReloc ==
  ASSUME TypeInv, ListInv, NEW n \in DOMAIN out
  PROVE  /\ out[n].class /= "reloc"
         /\ NoInputReloc => out[n].name /= ".reloc"
<1> DEFINE k == SectionKey(out[n])
<1>1. k \in DOMAIN buckets /\ k[1] = out[n].class /\ k[2] = out[n].name
  BY DEF ListInv, EmitInv, SectionKey
<1> HIDE DEF k
<1>2. k \in StdKey \cup OtherKey
  BY <1>1, BucketShape DEF ListInv
<1>3. k[1] /= "reloc"
  BY <1>2 DEF StdKey, OtherKey
<1>4. ASSUME NoInputReloc PROVE k[2] /= ".reloc"
  <2>1. CASE k \in StdKey
    BY <2>1 DEF StdKey
  <2>2. CASE k \in OtherKey
    <3>1. PICK i \in Kept : KeyOf(i) = k
      BY <1>1 DEF ListInv, BucketInv
    <3>2. i \in DOMAIN secs /\ secs[i] \in InputSection
      BY LenProperties, ElementOfSeq DEF Kept, TypeInv, LayoutTypeOK
    <3>3. k[2] = canonicalName(secs[i].name)
      BY <2>2, <3>1, <3>2, KeyShape DEF KeyOf
    <3> QED BY <1>4, <3>2, <3>3 DEF NoInputReloc
  <2> QED BY <1>2, <2>1, <2>2
<1> QED BY <1>1, <1>3, <1>4

LEMMA LaidTail ==
  ASSUME TypeInv, LaidInv, pc = "laid"
  PROVE  TailApart /\ TailNames
<1>1. strided = Len(out) /\ DOMAIN out = 1 .. strided /\ strided \in Nat
  BY LenProperties DEF LaidInv, FrontInv, TypeInv, LayoutTypeOK
<1>2. Ascending(out)
  BY <1>1 DEF LaidInv, ApartInv, Ascending
<1>3. \A i \in DOMAIN out : /\ out[i].rva % opts.sa = 0 /\ out[i].rva >= opts.hr
                            /\ out[i].foff % opts.fa = 0 /\ out[i].foff >= opts.hr
  BY <1>1 DEF LaidInv, ApartInv, Behind
<1>4. out /= << >> => out[1].foff = AlignUp(opts.hr, opts.fa)
  <2>1. out /= << >> => Len(out) > 0
    BY EmptySeq DEF TypeInv, LayoutTypeOK
  <2> QED BY <1>1, <2>1 DEF LaidInv, FrontInv
<1>5. TailNames
  BY NotReloc DEF TailNames, LaidInv
<1> QED BY <1>2, <1>3, <1>4, <1>5 DEF TailApart

\* appendRelocSection adds one section, behind all others in memory and in the file.
LEMMA RelocPlaced ==
  ASSUME TypeInv, TailApart, NEW n \in Nat, out /= << >>
  PROVE  LET prev == out[Len(out)]
             m    == RelocSection(prev, n)
         IN  /\ m \in Merged /\ m.class = "reloc" /\ m.name = ".reloc"
             /\ m.rva % opts.sa = 0 /\ m.rva >= opts.hr
             /\ m.foff % opts.fa = 0 /\ m.foff >= opts.hr
             /\ \A i \in DOMAIN out : VirtualEnd(out[i]) <= m.rva /\ RawEnd(out[i]) <= m.foff
<1> DEFINE last == Len(out)
           prev == out[last]
           m    == RelocSection(prev, n)
<1>1. /\ opts.sa \in Nat \ {0} /\ opts.fa \in Nat \ {0} /\ opts.hr \in Nat
      /\ last \in Nat /\ DOMAIN out = 1 .. last /\ last > 0
  BY EmptySeq, LenProperties DEF LayoutOptions, TypeInv, LayoutTypeOK
<1>2. \A i \in DOMAIN out : out[i] \in Merged
  BY <1>1, ElementOfSeq DEF TypeInv, LayoutTypeOK
<1>3. \A i \in DOMAIN out : /\ out[i].rva \in Nat /\ out[i].foff \in Nat
                            /\ VirtualEnd(out[i]) \in Nat /\ RawEnd(out[i]) \in Nat
                            /\ out[i].rva <= VirtualEnd(out[i])
                            /\ out[i].foff <= RawEnd(out[i])
  BY <1>2 DEF Merged, VirtualEnd, RawEnd
<1>4. last \in DOMAIN out
  BY <1>1
<1>5. /\ RelocRVA(prev, opts) \in Nat /\ VirtualEnd(prev) <= RelocRVA(prev, opts)
      /\ RelocRVA(prev, opts) % opts.sa = 0
  BY <1>1, <1>3, <1>4, AlignUpBounds DEF RelocRVA
<1>6. /\ RelocOffset(prev, opts) \in Nat /\ RawEnd(prev) <= RelocOffset(prev, opts)
      /\ RelocOffset(prev, opts) % opts.fa = 0
  <2> DEFINE e == RawEnd(prev)
  <2>1. e \in Nat
    BY <1>3, <1>4
  <2>2. AlignUp(e, opts.fa) \in Nat /\ e <= AlignUp(e, opts.fa) /\ AlignUp(e, opts.fa) % opts.fa = 0
    BY <1>1, <2>1, AlignUpBounds
  <2> QED BY <2>1, <2>2 DEF RelocOffset
<1>7. AlignUp(n, opts.fa) \in Nat
  BY <1>1, AlignUpBounds
<1>8. /\ m.rva = RelocRVA(prev, opts) /\ m.foff = RelocOffset(prev, opts)
      /\ m.class = "reloc" /\ m.name = ".reloc"
  BY DEF RelocSection
<1>9. m \in Merged
  BY <1>5, <1>6, <1>7 DEF RelocSection, Merged
<1>10. prev.rva >= opts.hr /\ prev.foff >= opts.hr
  BY <1>4 DEF TailApart
<1>11. \A i \in DOMAIN out : VirtualEnd(out[i]) <= VirtualEnd(prev) /\ RawEnd(out[i]) <= RawEnd(prev)
  <2> TAKE i \in DOMAIN out
  <2>1. CASE i = last
    BY <1>3, <2>1
  <2>2. CASE i < last
    <3>1. VirtualEnd(out[i]) <= prev.rva /\ RawEnd(out[i]) <= prev.foff
      BY <1>4, <2>2 DEF TailApart, Ascending
    <3> QED BY <1>3, <1>4, <3>1
  <2> QED BY <1>1, <2>1, <2>2
<1>12. /\ prev.rva <= VirtualEnd(prev) /\ prev.foff <= RawEnd(prev)
       /\ prev.rva \in Nat /\ prev.foff \in Nat
       /\ VirtualEnd(prev) \in Nat /\ RawEnd(prev) \in Nat
  BY <1>3, <1>4
<1> HIDE DEF prev, m
<1>13. m.rva >= opts.hr /\ m.foff >= opts.hr
  BY <1>1, <1>5, <1>6, <1>8, <1>10, <1>12
<1>14. \A i \in DOMAIN out : VirtualEnd(out[i]) <= m.rva /\ RawEnd(out[i]) <= m.foff
  BY <1>3, <1>5, <1>6, <1>8, <1>11, <1>12
<1>15. m.rva % opts.sa = 0 /\ m.foff % opts.fa = 0
  BY <1>5, <1>6, <1>8
<1> QED BY <1>8, <1>9, <1>13, <1>14, <1>15 DEF prev, m

LEMMA AppendRelocKeeps ==
  ASSUME TypeInv, LaidInv, NEW n \in Nat, appendRelocSection(n)
  PROVE  TypeInv' /\ TailApart' /\ TailNames'
<1>1. TailApart /\ TailNames /\ pc = "laid"
  BY LaidTail DEF appendRelocSection
<1>2. \A i \in DOMAIN out : out[i].class /= "reloc"
  BY NotReloc DEF LaidInv
<1>3. /\ UNCHANGED <<secs, opts, todo, buckets, customs, offIn, where, strided, rva, foff, pc>>
      /\ (NoInputReloc' <=> NoInputReloc)
  BY DEF appendRelocSection, NoInputReloc
<1>4. CASE n = 0
  <2>1. out' = out
    BY <1>4 DEF appendRelocSection
  <2> QED BY <1>1, <1>3, <2>1
          DEF TailApart, TailNames, Ascending, TypeInv, LayoutTypeOK, KeysTyped
<1>5. CASE n /= 0
  <2> DEFINE m == RelocSection(out[Len(out)], n)
  <2>1. out /= << >> /\ out' = Append(out, m)
    BY <1>5 DEF appendRelocSection
  <2>2. /\ m \in Merged /\ m.class = "reloc" /\ m.name = ".reloc"
        /\ m.rva % opts.sa = 0 /\ m.rva >= opts.hr
        /\ m.foff % opts.fa = 0 /\ m.foff >= opts.hr
        /\ \A i \in DOMAIN out : VirtualEnd(out[i]) <= m.rva /\ RawEnd(out[i]) <= m.foff
    BY <1>1, <2>1, RelocPlaced
  <2> HIDE DEF m
  <2> DEFINE last == Len(out) + 1
  <2>3. /\ out \in Seq(Merged) /\ Len(out) \in Nat /\ DOMAIN out = 1 .. Len(out)
        /\ strided \in 0 .. Len(out)
    BY LenProperties DEF TypeInv, LayoutTypeOK
  <2>4. /\ out' \in Seq(Merged) /\ Len(out') = last /\ DOMAIN out' = 1 .. last
        /\ out'[last] = m /\ \A i \in 1 .. Len(out) : out'[i] = out[i]
    BY <2>1, <2>2, <2>3, AppendProperties, LenProperties
  <2>5. \A i \in 1 .. last : i \in 1 .. Len(out) \/ i = last
    BY <2>3
  <2>6. strided' \in 0 .. last /\ out' /= << >> /\ \A i \in 1 .. Len(out) : i < last /\ i /= last
    BY <1>3, <2>3, <2>4, EmptySeq
  <2>7. \A i \in 1 .. last : ~(last < i)
    BY <2>3
  <2>8. out[1] = out'[1] /\ 1 \in 1 .. Len(out)
    <3>1. Len(out) > 0
      BY <2>1, <2>3, EmptySeq
    <3> QED BY <2>3, <2>4, <3>1
  <2> HIDE DEF last
  <2>9. TypeInv'
    BY <1>3, <2>4, <2>6 DEF TypeInv, LayoutTypeOK, KeysTyped
  <2>10. Ascending(out')
    BY <1>1, <2>2, <2>3, <2>4, <2>5, <2>6, <2>7 DEF TailApart, Ascending
  <2>11. \A i \in DOMAIN out' : /\ out'[i].rva % opts.sa = 0 /\ out'[i].rva >= opts.hr
                                /\ out'[i].foff % opts.fa = 0 /\ out'[i].foff >= opts.hr
    BY <1>1, <2>2, <2>3, <2>4, <2>5 DEF TailApart
  <2>12. TailApart'
    BY <1>1, <1>3, <2>1, <2>8, <2>10, <2>11 DEF TailApart, Ascending
  <2>13. TailNames'
    BY <1>1, <1>2, <1>3, <2>2, <2>3, <2>4, <2>5 DEF TailNames
  <2> QED BY <2>9, <2>12, <2>13
<1> QED BY <1>4, <1>5

-------------------------------------------------------------------------------
(* The inductive invariant of Link *)

\* The record that emitPE makes of the section list.
Emission == [soh |-> SizeOfHeaders(Len(out), opts), soi |-> SizeOfImage(out, opts),
             size |-> FileSize(out, opts), relocDir |-> RelocDir(out), table |-> out]

LinkInv ==
  /\ TypeInv
  /\ stage \in {"layout", "linked", "emitted"}
  /\ stage = "layout" => LaidInv
  /\ stage /= "layout" => pc = "laid" /\ TailApart /\ TailNames
  /\ image = IF stage = "emitted" THEN Emission ELSE NoImage

LEMMA LinkInit0 == LinkInit => LinkInv
BY TypeInit, LaidInit DEF LinkInit, LinkInv

LEMMA LinkAppend ==
  ASSUME LinkInv, NEW n \in Nat, appendRelocSection(n)
  PROVE  LinkInv'
<1>1. stage = "layout" /\ stage' = "linked" /\ pc' = "laid" /\ image' = image
  BY DEF appendRelocSection
<1> QED BY <1>1, AppendRelocKeeps DEF LinkInv

LEMMA LinkStep == LinkInv /\ [LinkNext \/ LinkReturned]_linkVars => LinkInv'
<1> SUFFICES ASSUME LinkInv, [LinkNext \/ LinkReturned]_linkVars PROVE LinkInv'
  OBVIOUS
<1>1. CASE LayoutNext /\ UNCHANGED <<stage, image>>
  <2>1. pc /= "laid"
    BY <1>1 DEF LayoutNext, Place, AllPlaced, EmitStandard, EmitCustoms, BindWhere, Stride, Laid
  <2>2. stage = "layout" /\ LaidInv /\ TypeInv
    BY <2>1 DEF LinkInv
  <2>3. TypeInv' /\ LaidInv'
    BY <1>1, <2>2, TypeStep, LaidStep
  <2> QED BY <1>1, <2>2, <2>3 DEF LinkInv
<1>2. ASSUME NEW n \in RelocSizes, appendRelocSection(n) PROVE LinkInv'
  BY <1>2, LinkAppend, RelocSizesAssumption
<1>3. CASE emitPE
  BY <1>3 DEF emitPE, LinkInv, layoutVars, TypeInv, LayoutTypeOK, KeysTyped, TailApart,
       TailNames, NoInputReloc, Ascending, Emission
<1>4. CASE UNCHANGED linkVars
  <2>1. UNCHANGED layoutVars /\ UNCHANGED <<stage, image>>
    BY <1>4 DEF linkVars
  <2>2. TypeInv' /\ (LaidInv => LaidInv')
    BY <2>1, TypeStep, LaidStep DEF LinkInv
  <2>3. UNCHANGED <<secs, out, opts, pc>>
    BY <2>1 DEF layoutVars
  <2> QED BY <2>1, <2>2, <2>3
          DEF LinkInv, TailApart, TailNames, NoInputReloc, Ascending, Emission
<1> QED BY <1>1, <1>2, <1>3, <1>4 DEF LinkNext, LinkReturned

-------------------------------------------------------------------------------
(* The theorems *)

LEMMA LinkInvariant == LinkSpec => []LinkInv
BY LinkInit0, LinkStep, PTL DEF LinkSpec

LEMMA RelocDirTyped ==
  ASSUME out \in Seq(Merged)
  PROVE  RelocDir(out) \in [rva : Nat, size : Nat]
<1> DEFINE here == {i \in DOMAIN out : out[i].name = ".reloc"}
           first == CHOOSE i \in here : \A j \in here : i <= j
<1>1. CASE here = {}
  BY <1>1 DEF RelocDir, NoDir
<1>2. CASE here /= {}
  <2>1. here \in SUBSET Nat
    BY LenProperties
  <2>2. \E i \in here : \A j \in here : i <= j
    <3> HIDE DEF here
    <3> QED BY <1>2, <2>1, LeastExists
  <2>3. first \in DOMAIN out
    BY <2>2
  <2>4. out[first] \in Merged
    BY <2>3, LenProperties, ElementOfSeq
  <2>5. RelocDir(out) = [rva |-> out[first].rva, size |-> out[first].vsize]
    BY <1>2 DEF RelocDir
  <2> HIDE DEF first
  <2> QED BY <2>4, <2>5 DEF Merged
<1> QED BY <1>1, <1>2

\* The arithmetic of PEImage applies to the options and to the section list.
LEMMA LinkExtents ==
  ASSUME TypeInv
  PROVE  Alignments(opts) /\ Extents(out)
<1>1. Alignments(opts)
  BY DEF Alignments, TypeInv, LayoutTypeOK, LayoutOptions
<1>2. Len(out) \in Nat /\ DOMAIN out = 1 .. Len(out) /\ \A i \in DOMAIN out : out[i] \in Merged
  BY LenProperties, ElementOfSeq DEF TypeInv, LayoutTypeOK
<1> QED BY <1>1, <1>2 DEF Extents, Extent, Merged

LEMMA LinkTyped == LinkInv => LinkTypeOK
<1> SUFFICES ASSUME LinkInv PROVE LinkTypeOK
  OBVIOUS
<1>1. LayoutTypeOK /\ stage \in {"layout", "linked", "emitted"} /\ out \in Seq(Merged)
  BY DEF LinkInv, TypeInv, LayoutTypeOK
<1>2. CASE stage /= "emitted"
  BY <1>1, <1>2, EmptySeq DEF LinkInv, NoImage, NoDir, LinkTypeOK
<1>3. CASE stage = "emitted"
  <2>1. Alignments(opts) /\ Extents(out) /\ Ascending(out)
    BY <1>3, LinkExtents DEF LinkInv, TailApart
  <2>2. /\ SizeOfHeaders(Len(out), opts) \in Nat /\ SizeOfImage(out, opts) \in Nat
        /\ FileSize(out, opts) \in Nat
    BY <2>1, HeaderSizes, SizeOfImageCovers, FileSizeCovers DEF Extents
  <2>3. RelocDir(out) \in [rva : Nat, size : Nat]
    BY <1>1, RelocDirTyped
  <2>4. image = Emission
    BY <1>3 DEF LinkInv
  <2> QED BY <1>1, <2>2, <2>3, <2>4 DEF Emission, LinkTypeOK
<1> QED BY <1>2, <1>3

\* The variables of Link and of emitPE keep their types.
THEOREM LinkTypeCorrect == LinkSpec => []LinkTypeOK
BY LinkTyped, LinkInvariant, PTL

LEMMA LinkApart == LinkInv => LinkedApart
BY DEF LinkInv, TailApart, LinkedApart

\* With .reloc behind them, the sections still follow each other in memory and in
\* the file, each of them aligned.
THEOREM LinkSectionsApart == LinkSpec => []LinkedApart
BY LinkApart, LinkInvariant, PTL

\* The relocation directory is that of the synthesised section.
LEMMA DirOfReloc ==
  ASSUME TypeInv, TailNames, NoInputReloc
  PROVE  LET made == {i \in DOMAIN out : out[i].class = "reloc"} IN
         /\ made = {} => RelocDir(out) = NoDir
         /\ \A i \in made : RelocDir(out) = [rva |-> out[i].rva, size |-> out[i].vsize]
<1> DEFINE made == {i \in DOMAIN out : out[i].class = "reloc"}
           here == {i \in DOMAIN out : out[i].name = ".reloc"}
<1>1. made = here /\ \A i, j \in made : i = j
  BY DEF TailNames
<1>2. made = {} => RelocDir(out) = NoDir
  BY <1>1 DEF RelocDir
<1>3. ASSUME NEW i \in made PROVE RelocDir(out) = [rva |-> out[i].rva, size |-> out[i].vsize]
  <2>1. i \in Nat
    BY LenProperties DEF TypeInv, LayoutTypeOK
  <2>2. here = {i}
    BY <1>1, <1>3
  <2>3. (CHOOSE k \in here : \A j \in here : k <= j) = i
    <3> HIDE DEF here
    <3> QED BY <2>1, <2>2
  <2>4. here /= {}
    BY <2>2
  <2> QED BY <2>3, <2>4 DEF RelocDir
<1> QED BY <1>2, <1>3

\* Raw data and, if the section alignment is a multiple of the file alignment,
\* memory begin behind the headers.
LEMMA BehindHeaders ==
  ASSUME TypeInv, TailApart,
         HeaderTotal(Len(out)) <= AlignUp(opts.hr, opts.fa), NEW i \in DOMAIN out
  PROVE  /\ out[i].foff >= SizeOfHeaders(Len(out), opts)
         /\ opts.sa % opts.fa = 0 => out[i].rva >= SizeOfHeaders(Len(out), opts)
         /\ i = 1 => out[i].foff = SizeOfHeaders(Len(out), opts)
<1> DEFINE reserve == AlignUp(opts.hr, opts.fa)
<1>1. /\ opts.sa \in Nat \ {0} /\ opts.fa \in Nat \ {0} /\ opts.hr \in Nat
      /\ Len(out) \in Nat /\ Alignments(opts) /\ Extents(out)
  BY LinkExtents, LenProperties DEF Alignments, TypeInv, LayoutTypeOK
<1>2. SizeOfHeaders(Len(out), opts) = reserve
  BY <1>1, HeaderSizes
<1>3. /\ out[i].rva \in Nat /\ out[i].rva % opts.sa = 0 /\ opts.hr <= out[i].rva
      /\ out[i].foff \in Nat /\ out[i].foff % opts.fa = 0 /\ opts.hr <= out[i].foff
  BY <1>1 DEF TailApart, Extents, Extent
<1>4. reserve <= out[i].foff
  BY <1>1, <1>3, AlignUpLeast
<1>5. ASSUME opts.sa % opts.fa = 0 PROVE out[i].rva % opts.fa = 0
  BY <1>1, <1>3, <1>5, AlignedCoarser
<1>6. ASSUME opts.sa % opts.fa = 0 PROVE reserve <= out[i].rva
  BY <1>1, <1>3, <1>5, <1>6, AlignUpLeast
<1>7. i = 1 => out[i].foff = reserve
  <2>1. out /= << >>
    BY <1>1 DEF Extents
  <2> QED BY <2>1 DEF TailApart
<1>8. reserve \in Nat
  BY <1>1, AlignUpBounds
<1> QED BY <1>2, <1>3, <1>4, <1>6, <1>7, <1>8

LEMMA LinkHeaders == LinkInv => HeadersRight
<1> SUFFICES ASSUME LinkInv, stage = "emitted" PROVE HeadersRight
  BY DEF HeadersRight, ImageCovers, HeadersClear, RelocDirRight
<1>1. TypeInv /\ TailApart /\ TailNames /\ image = Emission
  BY DEF LinkInv
<1>2. Alignments(opts) /\ Extents(out) /\ Ascending(out)
  BY <1>1, LinkExtents DEF TailApart
<1>3. /\ image.soh = SizeOfHeaders(Len(out), opts) /\ image.soi = SizeOfImage(out, opts)
      /\ image.size = FileSize(out, opts) /\ image.relocDir = RelocDir(out)
      /\ image.table = out
  BY <1>1 DEF Emission
<1>4. ImageCovers
  <2>1. Len(out) \in Nat
    BY <1>2 DEF Extents
  <2>2. /\ HeaderTotal(Len(out)) <= SizeOfHeaders(Len(out), opts)
        /\ SizeOfHeaders(Len(out), opts) <= FileSize(out, opts)
    BY <1>2, <2>1, HeaderSizes, FileSizeCovers
  <2>3. HeaderTotal(Len(image.table)) <= image.soh /\ image.soh <= image.size
    BY <1>3, <2>2
  <2>4. ASSUME NEW i \in DOMAIN image.table
        PROVE  /\ VirtualEnd(image.table[i]) <= image.soi
               /\ image.table[i].raw > 0 => RawEnd(image.table[i]) <= image.size
    <3>1. i \in DOMAIN out /\ image.table[i] = out[i]
      BY <1>3
    <3>2. VirtualEnd(out[i]) <= SizeOfImage(out, opts)
      BY <1>2, <3>1, SizeOfImageCovers
    <3>3. out[i].raw > 0 => RawEnd(out[i]) <= FileSize(out, opts)
      BY <1>2, <3>1, FileSizeCovers
    <3> QED BY <1>3, <3>1, <3>2, <3>3
  <2> QED BY <2>3, <2>4 DEF ImageCovers
<1>5. HeadersClear
  BY <1>1, <1>3, BehindHeaders DEF HeadersClear
<1>6. RelocDirRight
  BY <1>1, <1>3, DirOfReloc DEF RelocDirRight
<1> QED BY <1>4, <1>5, <1>6 DEF HeadersRight

\* The sizes and the relocation directory that emitPE writes agree with the
\* sections, for every input: no copy leaves the file buffer, a loader maps every
\* section, and headers and sections do not overlap while the table fits.
THEOREM LinkHeadersRight == LinkSpec => []HeadersRight
BY LinkHeaders, LinkInvariant, PTL

-------------------------------------------------------------------------------
(* Link as a whole *)

\* The proofs about Resolve, on the variables it has here.
Resolver == INSTANCE ResolveProofs
              WITH Programs <- {j.rows : j \in Jobs},
                   rows <- job.rows, allow <- job.allow, at <- rowAt, pc <- resPc

-------------------------------------------------------------------------------
(* Each stage is the component it is modelled by *)

LEMMA SameResolve == Symbols!ResolveNext => Resolver!ResolveNext
BY DEF Symbols!ResolveNext, Resolver!ResolveNext, Symbols!Install, Resolver!Install,
   Symbols!Installed, Resolver!Installed, Symbols!Check, Resolver!Check,
   Symbols!Checked, Resolver!Checked, Symbols!Verdict, Resolver!Verdict,
   Symbols!CheckExternal, Resolver!CheckExternal, Symbols!CheckWeak, Resolver!CheckWeak,
   Symbols!Entry, Resolver!Entry, Symbols!Skipped, Resolver!Skipped,
   Symbols!Duplicate, Resolver!Duplicate, Symbols!EntryOf, Resolver!EntryOf,
   Symbols!AbsoluteZero, Resolver!AbsoluteZero, Symbols!Promise!EntryOf,
   Resolver!Promise!EntryOf, Symbols!Promise!AbsoluteZero, Resolver!Promise!AbsoluteZero

LEMMA SameDefinitions ==
  ASSUME NEW n
  PROVE  Symbols!Promise!Definitions(n) = Resolver!Definitions(n)
BY DEF Symbols!Promise!Definitions, Resolver!Definitions, Resolver!Promise!Definitions,
   Symbols!Promise!Defines, Resolver!Promise!Defines

\* The stages of ComputeLayout, appendRelocSection and emitPE are those of Link;
\* every other stage leaves their variables alone.
LEMMA LinkActs ==
  ASSUME PipelineNext \/ PipelineReturned \/ UNCHANGED pipelineVars
  PROVE  \/ LayoutNext /\ UNCHANGED <<stage, image>> /\ step = "layout"
         \/ appendRelocSection(2 * Len(buf)) /\ step = "build"
         \/ emitPE /\ step = "emit"
         \/ UNCHANGED linkVars
BY DEF PipelineNext, PipelineReturned, pipelineVars, NoObjects, ResolveSymbols, SymbolsResolved,
   LayOut, LaidOut, ApplyRelocations, RelocationsApplied, BuildRelocSection, AppendReloc,
   resolveEntryRVA, Emit, LoadImage

\* Resolve takes its steps, or nothing of it changes.
LEMMA ResolveActs ==
  ASSUME PipelineNext \/ PipelineReturned \/ UNCHANGED pipelineVars
  PROVE  /\ job' = job
         /\ \/ Resolver!ResolveNext /\ step = "resolve"
            \/ UNCHANGED resolution
BY SameResolve
   DEF PipelineNext, PipelineReturned, pipelineVars, NoObjects, ResolveSymbols, SymbolsResolved,
   LayOut, LaidOut, ApplyRelocations, RelocationsApplied, BuildRelocSection, AppendReloc,
   resolveEntryRVA, Emit, LoadImage

-------------------------------------------------------------------------------
(* The order of the stages *)

\* How far Link has come in each of its components.
StepInv ==
  /\ job \in Jobs
  /\ step \in {"resolve", "layout", "relocate", "build", "entry", "emit", "emitted", "failed",
              "panicked"}
  /\ step \in {"resolve", "layout", "relocate", "build"} => stage = "layout"
  /\ step \in {"relocate", "build"} => pc = "laid"
  /\ step \in {"entry", "emit"} => stage = "linked"
  /\ step = "emitted" => stage = "emitted"
  /\ step \notin {"resolve", "failed"} => resPc = "ok"
  /\ job.machines = << >> => resPc = "install" /\ step \in {"resolve", "failed"}

LEMMA StepInit == PipelineInit => StepInv
BY DEF PipelineInit, LinkInit, StepInv

LEMMA StepStep ==
  StepInv /\ [PipelineNext \/ PipelineReturned]_pipelineVars => StepInv'
<1> SUFFICES ASSUME StepInv, PipelineNext \/ PipelineReturned \/ UNCHANGED pipelineVars
             PROVE  StepInv'
  OBVIOUS
<1>1. CASE NoObjects \/ ResolveSymbols \/ SymbolsResolved
  BY <1>1 DEF NoObjects, ResolveSymbols, SymbolsResolved, resolution, StepInv, linkVars, layoutVars
<1>2. CASE LayOut \/ LaidOut
  BY <1>2 DEF LayOut, LaidOut, resolution, StepInv, linkVars, layoutVars
<1>3. CASE ApplyRelocations \/ RelocationsApplied \/ BuildRelocSection
  BY <1>3 DEF ApplyRelocations, RelocationsApplied, BuildRelocSection, resolution, StepInv,
     linkVars, layoutVars
<1>4. CASE AppendReloc \/ resolveEntryRVA \/ Emit
  BY <1>4 DEF AppendReloc, appendRelocSection, resolveEntryRVA, Emit, emitPE, resolution,
     StepInv, linkVars, layoutVars
<1>5. CASE LoadImage \/ PipelineReturned \/ UNCHANGED pipelineVars
  BY <1>5 DEF LoadImage, PipelineReturned, pipelineVars, resolution, StepInv, linkVars, layoutVars
<1> QED BY <1>1, <1>2, <1>3, <1>4, <1>5 DEF PipelineNext

-------------------------------------------------------------------------------
(* Resolve keeps its invariant *)

LEMMA JobTyped ==
  ASSUME StepInv
  PROVE  /\ job.rows \in Seq(Resolver!Symbol) /\ job.allow \in BOOLEAN
         /\ job.first \in Seq(Nat) /\ \A i \in DOMAIN job.rows : job.rows[i].obj \in DOMAIN job.first
         /\ job.relocs \in Seq(Reloc)
         /\ job.machines \in Seq({"amd64", "arm64", "riscv64", "loongarch64"}) /\ job.base \in Nat
         /\ \A i \in DOMAIN job.relocs : job.relocs[i].kind \in {"hi20", "lo12"} =>
              \E o \in DOMAIN job.machines : job.machines[o] = "riscv64"
BY JobsAssumption DEF StepInv, Symbols!Symbol, Symbols!Promise!Symbol,
   Resolver!Symbol, Resolver!Promise!Symbol

\* The assumption that Resolve makes of its symbols.
LEMMA RowsTyped == {j.rows : j \in Jobs} \subseteq Seq(Resolver!Symbol)
BY JobsAssumption DEF Symbols!Symbol, Symbols!Promise!Symbol,
   Resolver!Symbol, Resolver!Promise!Symbol

LEMMA ResolverInit == PipelineInit => Resolver!ResolveInv
<1> SUFFICES ASSUME PipelineInit PROVE Resolver!ResolveInv
  OBVIOUS
<1>1. job.rows \in {j.rows : j \in Jobs} /\ job.allow \in BOOLEAN
  BY StepInit, JobTyped DEF PipelineInit
<1>2. Resolver!ResolveInit
  BY <1>1 DEF PipelineInit, Resolver!ResolveInit
<1> QED BY <1>2, RowsTyped, Resolver!ResolveInvInit

LEMMA ResolverStep ==
  Resolver!ResolveInv /\ [PipelineNext \/ PipelineReturned]_pipelineVars => Resolver!ResolveInv'
<1> SUFFICES ASSUME Resolver!ResolveInv,
                    PipelineNext \/ PipelineReturned \/ UNCHANGED pipelineVars
             PROVE  Resolver!ResolveInv'
  OBVIOUS
<1>1. Resolver!ResolveNext \/ UNCHANGED Resolver!resolveVars
  BY ResolveActs DEF Resolver!resolveVars, resolution
<1> QED BY <1>1, RowsTyped, Resolver!ResolveInvStep

-------------------------------------------------------------------------------
(* ComputeLayout, appendRelocSection and emitPE keep theirs *)

\* The stages of Link, and that an input has one home with or without .reloc.
PlacedInv == LinkInv /\ WhereHome

\* .reloc holds no input section.
LEMMA HomeAppend ==
  ASSUME LinkInv, WhereHome, NEW n \in Nat, appendRelocSection(n)
  PROVE  WhereHome'
<1>1. UNCHANGED <<secs, where, pc>> /\ Kept' = Kept /\ pc = "laid"
  BY DEF appendRelocSection, Kept
<1>2. out \in Seq(Merged) /\ Len(out) \in Nat /\ DOMAIN out = 1 .. Len(out)
  BY LenProperties DEF LinkInv, TypeInv, LayoutTypeOK
<1>3. CASE n = 0
  BY <1>1, <1>3 DEF appendRelocSection, WhereHome
<1>4. CASE n /= 0
  <2> DEFINE m    == RelocSection(out[Len(out)], n)
             last == Len(out) + 1
  <2>1. out' = Append(out, m) /\ m.from = {} /\ out /= << >>
    BY <1>4 DEF appendRelocSection, RelocSection
  <2>2. out' \in Seq(Merged)
    BY LinkAppend DEF LinkInv, TypeInv, LayoutTypeOK
  <2> HIDE DEF m
  <2>3. Len(out') = last /\ out'[last] = m /\ \A i \in 1 .. Len(out) : out'[i] = out[i]
    BY <1>2, <2>1
  <2>4. DOMAIN out' = DOMAIN out \cup {last}
    BY <1>2, <2>2, <2>3, LenProperties
  <2>5. ASSUME NEW i \in Kept
        PROVE  {k \in DOMAIN out' : i \in out'[k].from} = {k \in DOMAIN out : i \in out[k].from}
    BY <1>2, <2>1, <2>3, <2>4
  <2> QED BY <1>1, <2>5 DEF WhereHome
<1> QED BY <1>3, <1>4

LEMMA PlacedInit == PipelineInit => PlacedInv
<1> SUFFICES ASSUME PipelineInit PROVE PlacedInv
  OBVIOUS
<1>1. LinkInv
  BY LinkInit0 DEF PipelineInit
<1>2. WhereHome
  BY DEF PipelineInit, LinkInit, LayoutInit, WhereHome
<1> QED BY <1>1, <1>2 DEF PlacedInv

LEMMA PlacedStep ==
  PlacedInv /\ StepInv /\ (step = "build" => Len(buf) \in Nat) /\ [PipelineNext \/ PipelineReturned]_pipelineVars
    => PlacedInv'
<1> SUFFICES ASSUME PlacedInv, StepInv, step = "build" => Len(buf) \in Nat,
                    PipelineNext \/ PipelineReturned \/ UNCHANGED pipelineVars
             PROVE  PlacedInv'
  OBVIOUS
<1>1. CASE LayoutNext /\ UNCHANGED <<stage, image>> /\ step = "layout"
  <2>1. LinkInv'
    BY <1>1, LinkStep DEF PlacedInv, LinkNext
  <2>2. TypeInv /\ ListInv
    BY <1>1 DEF PlacedInv, StepInv, LinkInv, LaidInv
  <2> QED BY <1>1, <2>1, <2>2, HomeStep DEF PlacedInv
<1>2. CASE appendRelocSection(2 * Len(buf)) /\ step = "build"
  <2>1. 2 * Len(buf) \in Nat
    BY <1>2
  <2> QED BY <1>2, <2>1, LinkAppend, HomeAppend DEF PlacedInv
<1>3. CASE emitPE
  <2>1. LinkInv'
    BY <1>3, LinkStep DEF PlacedInv, LinkNext
  <2> QED BY <1>3, <2>1 DEF emitPE, PlacedInv, layoutVars, WhereHome, Kept
<1>4. CASE UNCHANGED linkVars
  <2>1. LinkInv'
    BY <1>4, LinkStep DEF PlacedInv
  <2> QED BY <1>4, <2>1 DEF PlacedInv, linkVars, layoutVars, WhereHome, Kept
<1> QED BY <1>1, <1>2, <1>3, <1>4, LinkActs

-------------------------------------------------------------------------------
(* What ApplyRelocations and the loader are handed *)

Memories == UNION {[S -> 0 .. Wide - 1] : S \in SUBSET Nat}

\* The programs that ApplyRelocations may be handed.
Handable ==
  {p \in [machines : Seq({"amd64", "arm64", "riscv64", "loongarch64"}), base : Nat,
          mem : Memories, relocs : Seq(Patches!Reloc)] :
     \A i \in DOMAIN p.relocs :
       /\ p.relocs[i].placed => p.relocs[i].site \in DOMAIN p.mem
       /\ p.relocs[i].kind \in {"hi20", "lo12"} =>
            \E o \in DOMAIN p.machines : p.machines[o] = "riscv64"}

\* The proofs about ApplyRelocations, on such a program.
Patcher == INSTANCE RelocateProofs WITH Programs <- Handable, pc <- relPc

\* The proofs about the .reloc stream, on the list that ApplyRelocations makes.
Reader == INSTANCE BaseRelocsProofs
            WITH EntryLists <- Seq([rva : Nat, type : 1 .. 15]),
                 entries <- [i \in DOMAIN base |->
                               [rva |-> base[i].rva, type |-> TypeCode[base[i].type]]],
                 todo <- pending

LEMMA SameReloc == Patches!Reloc = Patcher!Reloc
BY DEF Patches!Reloc, Patcher!Reloc, Patches!Kinds, Patcher!Kinds, Patches!Target, Patcher!Target

\* The assumptions that ApplyRelocations makes of its input.
LEMMA HandableTyped ==
  \A p \in Handable :
    /\ p.machines \in Seq({"amd64", "arm64", "riscv64", "loongarch64"})
    /\ p.base \in Nat /\ p.relocs \in Seq(Patcher!Reloc)
    /\ \A s \in DOMAIN p.mem : p.mem[s] \in 0 .. Wide - 1
    /\ \A i \in DOMAIN p.relocs :
         LET r == p.relocs[i] IN
         /\ r.placed => r.site \in DOMAIN p.mem
         /\ r.kind \in {"hi20", "lo12"} =>
              \E o \in DOMAIN p.machines : p.machines[o] = "riscv64"
<1> TAKE p \in Handable
<1>1. \A s \in DOMAIN p.mem : p.mem[s] \in 0 .. Wide - 1
  <2>1. PICK S \in SUBSET Nat : p.mem \in [S -> 0 .. Wide - 1]
    BY DEF Handable, Memories
  <2> QED BY <2>1
<1> QED BY <1>1, SameReloc DEF Handable

LEMMA PatcherInit == Patcher!RelocateInit => Patcher!RelocateInv
BY HandableTyped, WidthsAssumption, Patcher!RelocateInvInit

LEMMA PatcherStep ==
  Patcher!RelocateInv /\ [Patcher!RelocateNext \/ Patcher!RelocateReturned]_(Patcher!relocateVars)
    => Patcher!RelocateInv'
BY HandableTyped, WidthsAssumption, Patcher!RelocateInvStep

LEMMA ListsTyped == Seq([rva : Nat, type : 1 .. 15]) \subseteq Seq(Reader!BaseReloc)
BY DEF Reader!BaseReloc, Reader!BaseRelocTypes

LEMMA ReaderInit == Reader!RelocInit => Reader!StreamInv
BY ListsTyped, Reader!InitInv

LEMMA ReaderStep ==
  Reader!StreamInv /\ [Reader!RelocNext \/ Reader!RelocFinished]_(Reader!relocVars)
    => Reader!StreamInv'
BY ListsTyped, Reader!StreamInvStep

LEMMA PatcherBegins == Patcher!RelocateInit' => Patcher!RelocateInv'
BY PatcherInit, PTL

LEMMA ReaderBegins == Reader!RelocInit' => Reader!StreamInv'
BY ReaderInit, PTL

\* What ApplyRelocations computes is what its proofs are about,
LEMMA SameAddresses ==
  /\ Patches!Relocs = Patcher!Relocs
  /\ \A r : Patches!PatchVA(r) = Patcher!PatchVA(r) /\ Patches!TargetVA(r) = Patcher!TargetVA(r)
  /\ \A r : Patches!Resolves(r) <=> Patcher!Resolves(r)
  /\ \A v, w : Patches!Signed(v, w) = Patcher!Signed(v, w)
  /\ \A m, r : Patches!AddendIn(m, r) = Patcher!AddendIn(m, r)
BY DEF Patches!Relocs, Patcher!Relocs, Patches!PatchVA, Patcher!PatchVA, Patches!TargetVA,
   Patcher!TargetVA, Patches!Resolves, Patcher!Resolves, Patches!Signed, Patcher!Signed,
   Patches!AddendIn, Patcher!AddendIn

LEMMA SameDisplacement ==
  \A r : /\ Patches!Addend(r) = Patcher!Addend(r)
         /\ Patches!Displacement(r) = Patcher!Displacement(r)
         /\ Patches!Width(r.kind) = Patcher!Width(r.kind)
         /\ Patches!InRange(Patches!Displacement(r)) <=> Patcher!InRange(Patcher!Displacement(r))
BY SameAddresses
   DEF Patches!Addend, Patcher!Addend, Patches!Displacement, Patcher!Displacement,
   Patches!Width, Patcher!Width, Patches!InRange, Patcher!InRange

LEMMA SameFails == \A r : Patches!Fails(r) <=> Patcher!Fails(r)
<1> TAKE r
<1>1. /\ Patches!Resolves(r) <=> Patcher!Resolves(r)
      /\ Patches!TargetVA(r) = Patcher!TargetVA(r)
  BY SameAddresses
<1>2. /\ Patches!Width(r.kind) = Patcher!Width(r.kind)
      /\ Patches!InRange(Patches!Displacement(r)) <=> Patcher!InRange(Patcher!Displacement(r))
  BY SameDisplacement
<1> QED BY <1>1, <1>2 DEF Patches!Fails, Patcher!Fails

LEMMA SameFixup == \A r : Patches!Fixup(r) = Patcher!Fixup(r)
<1>1. \A d : Patches!Hi20(d) = Patcher!Hi20(d)
  BY DEF Patches!Hi20, Patcher!Hi20
<1>2. \A r : Patches!Value(r) = Patcher!Value(r)
  <2> TAKE r
  <2>1. /\ Patches!TargetVA(r) = Patcher!TargetVA(r) /\ Patches!PatchVA(r) = Patcher!PatchVA(r)
        /\ Patches!Addend(r) = Patcher!Addend(r)
        /\ Patches!Displacement(r) = Patcher!Displacement(r)
    BY SameAddresses, SameDisplacement
  <2> QED BY <1>1, <2>1 DEF Patches!Value, Patcher!Value
<1>3. \A k : Patches!Span(k) = Patcher!Span(k)
  BY DEF Patches!Span, Patcher!Span
<1> QED BY <1>2, <1>3 DEF Patches!Fixup, Patcher!Fixup, Patches!Masked, Patcher!Masked

LEMMA SameTable == Patches!pcrelHITable = Patcher!pcrelHITable
<1>1. Patches!HiUsable = Patcher!HiUsable
  BY SameAddresses DEF Patches!HiUsable, Patcher!HiUsable, Patches!HiSites, Patcher!HiSites
<1>2. \A S : Patches!LastOf(S) = Patcher!LastOf(S)
  BY DEF Patches!LastOf, Patcher!LastOf
<1>3. \A va : {i \in Patches!HiUsable : Patches!PatchVA(Patches!Relocs[i]) = va}
            = {i \in Patcher!HiUsable : Patcher!PatchVA(Patcher!Relocs[i]) = va}
  BY <1>1, SameAddresses
<1>4. {Patches!PatchVA(Patches!Relocs[i]) : i \in Patches!HiUsable}
        = {Patcher!PatchVA(Patcher!Relocs[i]) : i \in Patcher!HiUsable}
  BY <1>1, SameAddresses
<1> QED BY <1>2, <1>3, <1>4, SameAddresses DEF Patches!pcrelHITable, Patcher!pcrelHITable

\* and its steps are theirs.
LEMMA SamePatches == Patches!RelocateNext => Patcher!RelocateNext
<1>1. Patches!Begin => Patcher!Begin
  <2>1. Patches!SameMachine <=> Patcher!SameMachine
    BY DEF Patches!SameMachine, Patcher!SameMachine
  <2> QED BY <2>1, SameTable DEF Patches!Begin, Patcher!Begin
<1>2. Patches!Skip => Patcher!Skip
  BY SameAddresses DEF Patches!Skip, Patcher!Skip
<1>3. Patches!applyOne => Patcher!applyOne
  <2>1. \A r : Patches!BaseRelocsOf(r) = Patcher!BaseRelocsOf(r)
    BY DEF Patches!BaseRelocsOf, Patcher!BaseRelocsOf
  <2> QED BY <2>1, SameAddresses, SameFails, SameFixup DEF Patches!applyOne, Patcher!applyOne
<1>4. Patches!Abort => Patcher!Abort
  BY SameAddresses, SameFails DEF Patches!Abort, Patcher!Abort
<1>5. Patches!Applied => Patcher!Applied
  BY SameAddresses DEF Patches!Applied, Patcher!Applied
<1> QED BY <1>1, <1>2, <1>3, <1>4, <1>5 DEF Patches!RelocateNext, Patcher!RelocateNext

\* So are those of BuildRelocSection and of the loader.
LEMMA SameBlocks ==
  /\ \A q : Stream!Block(q) = Reader!Block(q)
  /\ \A S : Stream!SortedBy(S) = Reader!SortedBy(S) /\ Stream!Lowest(S) = Reader!Lowest(S)
  /\ \A i : Stream!Window(i) = Reader!Window(i)
<1>1. \A v : Stream!PageOf(v) = Reader!PageOf(v) /\ Stream!Half(v) = Reader!Half(v)
  BY DEF Stream!PageOf, Reader!PageOf, Stream!Half, Reader!Half, Stream!PageSize, Reader!PageSize
<1>2. \A n : Stream!BlockSize(n) = Reader!BlockSize(n) /\ Stream!Padding(n) = Reader!Padding(n)
  BY DEF Stream!BlockSize, Reader!BlockSize, Stream!Padding, Reader!Padding
<1>3. \A e, v : Stream!Encode(e, v) = Reader!Encode(e, v)
  BY DEF Stream!Encode, Reader!Encode, Stream!PageSize, Reader!PageSize
<1>4. \A q : Stream!Block(q) = Reader!Block(q)
  <2> TAKE q
  <2> DEFINE E(k) == [i \in DOMAIN base |->
                       [rva |-> base[i].rva, type |-> TypeCode[base[i].type]]][q[k]]
           page == Stream!PageOf(E(1).rva)
           same == Reader!PageOf(E(1).rva)
  <2>1. Stream!Block(q) = Stream!Half(page) \o Stream!Half(Stream!BlockSize(Len(q)))
          \o [k \in DOMAIN q |-> Stream!Encode(E(k), page)] \o Stream!Padding(Len(q))
    BY DEF Stream!Block
  <2>2. Reader!Block(q) = Reader!Half(same) \o Reader!Half(Reader!BlockSize(Len(q)))
          \o [k \in DOMAIN q |-> Reader!Encode(E(k), same)] \o Reader!Padding(Len(q))
    BY DEF Reader!Block
  <2>3. same = page
    BY <1>1
  <2> HIDE DEF page, same, E
  <2>4. [k \in DOMAIN q |-> Stream!Encode(E(k), page)] = [k \in DOMAIN q |-> Reader!Encode(E(k), same)]
    BY <1>3, <2>3
  <2>5. /\ Stream!Half(page) = Reader!Half(same)
        /\ Stream!Half(Stream!BlockSize(Len(q))) = Reader!Half(Reader!BlockSize(Len(q)))
        /\ Stream!Padding(Len(q)) = Reader!Padding(Len(q))
    BY <1>1, <1>2, <2>3
  <2> QED BY <2>1, <2>2, <2>4, <2>5
<1>5. \A S : Stream!Cardinality(S) = Reader!Cardinality(S)
  BY DEF Stream!Cardinality, Reader!Cardinality
<1>6. \A S : Stream!SortedBy(S) = Reader!SortedBy(S) /\ Stream!Lowest(S) = Reader!Lowest(S)
  BY <1>5 DEF Stream!SortedBy, Reader!SortedBy, Stream!Lowest, Reader!Lowest
<1>7. \A i : Stream!Window(i) = Reader!Window(i)
  BY <1>1 DEF Stream!Window, Reader!Window, Stream!SamePage, Reader!SamePage
<1> QED BY <1>4, <1>6, <1>7

LEMMA SameStream ==
  /\ Stream!EmitBlock \/ Stream!Built => Reader!RelocNext
  /\ Stream!LoadFixup \/ Stream!NextBlock \/ Stream!LoadedAll => Reader!RelocNext
<1>1. Stream!EmitBlock => Reader!EmitBlock
  BY SameBlocks DEF Stream!EmitBlock, Reader!EmitBlock
<1>2. Stream!Built => Reader!Built
  BY DEF Stream!Built, Reader!Built
<1>3. \A h, i : Stream!Word(h, i) = Reader!Word(h, i) /\ Stream!Fixup(h, i) = Reader!Fixup(h, i)
  BY DEF Stream!Word, Reader!Word, Stream!Fixup, Reader!Fixup, Stream!PageSize, Reader!PageSize
<1>4. Stream!BlockEnd = Reader!BlockEnd /\ (Stream!BlockReadable <=> Reader!BlockReadable)
  BY <1>3 DEF Stream!BlockEnd, Reader!BlockEnd, Stream!BlockReadable, Reader!BlockReadable
<1>5. Stream!LoadFixup => Reader!LoadFixup
  BY <1>3, <1>4 DEF Stream!LoadFixup, Reader!LoadFixup
<1>6. Stream!NextBlock => Reader!NextBlock
  BY <1>4 DEF Stream!NextBlock, Reader!NextBlock
<1>7. Stream!LoadedAll => Reader!LoadedAll
  BY DEF Stream!LoadedAll, Reader!LoadedAll
<1> QED BY <1>1, <1>2, <1>5, <1>6, <1>7 DEF Reader!RelocNext

-------------------------------------------------------------------------------
(* The invariant of the patched bytes and of the stream *)

Linking   == {"relocate", "build", "entry", "emit", "emitted"}
Streaming == Linking \ {"relocate"}

\* What ApplyRelocations works on is what the layout and the table say.
Handing ==
  /\ prog.machines = job.machines /\ prog.base = job.base
  /\ prog.relocs = [i \in DOMAIN job.relocs |-> Handed(job.relocs[i])]

\* ApplyRelocations has not begun, or keeps its invariant on what it was handed;
\* nor has the stream, or it keeps its own on what ApplyRelocations has left.
StreamInv ==
  /\ step \in {"resolve", "layout"} =>
       at = 1 /\ relPc = "begin" /\ pcrelHI = << >> /\ base = << >>
  /\ step \in {"resolve", "layout", "relocate"} =>
       /\ pending = {} /\ buf = << >> /\ phase = "build"
       /\ pos = 1 /\ fix = 5 /\ applied = << >>
  /\ step \in Linking => Handing /\ Patcher!RelocateInv
  /\ step \in Streaming => relPc = "linked" /\ Reader!StreamInv
  /\ phase = "loaded" => step = "emitted"

\* The section a placed relocation patches, and its place in the image.
LEMMA HomeOf ==
  ASSUME PlacedInv, pc = "laid", NEW s \in DOMAIN where
  PROVE  /\ s \in Kept /\ where[s] \in DOMAIN out /\ s \in DOMAIN offIn /\ offIn[s] \in Nat
         /\ out[where[s]] \in Merged
<1>1. DOMAIN where = Kept /\ {m \in DOMAIN out : s \in out[m].from} = {where[s]}
  BY DEF PlacedInv, WhereHome
<1>2. s \in DOMAIN offIn /\ offIn[s] \in Nat /\ out \in Seq(Merged)
  BY DEF PlacedInv, LinkInv, TypeInv, LayoutTypeOK
<1>3. where[s] \in DOMAIN out
  BY <1>1
<1> QED BY <1>1, <1>2, <1>3, LenProperties, ElementOfSeq

\* Any reference has an address once there is a section.
LEMMA AddressTyped ==
  ASSUME PlacedInv, pc = "laid", out /= << >>, NEW ref, NEW off \in Nat
  PROVE  ResolveRVA(ref, off) \in Nat
<1>1. out \in Seq(Merged) /\ offIn \in [DOMAIN offIn -> Nat]
  BY DEF PlacedInv, LinkInv, TypeInv, LayoutTypeOK
<1>2. 1 \in DOMAIN out
  BY <1>1, EmptySeq, LenProperties
<1> DEFINE o == IF ref \in DOMAIN where THEN where[ref] ELSE 1
           d == IF ref \in DOMAIN offIn THEN offIn[ref] ELSE 0
<1>3. o \in DOMAIN out
  BY <1>2, HomeOf
<1>4. out[o] \in Merged
  BY <1>1, <1>3, LenProperties, ElementOfSeq
<1>5. out[o].rva \in Nat /\ d \in Nat
  BY <1>1, <1>4 DEF Merged
<1>6. ResolveRVA(ref, off) = out[o].rva + d + off
  BY DEF ResolveRVA, OutOf
<1> HIDE DEF o, d
<1> QED BY <1>5, <1>6

LEMMA LookupTyped ==
  ASSUME Resolver!ResolveTypeOK, NEW i
  PROVE  /\ Symbols!Lookup(i).kind \in {"defined", "absolute", "undefined", "error"}
         /\ Symbols!Lookup(i).value \in Nat
<1>1. CASE i \notin DOMAIN job.rows
  BY <1>1 DEF Symbols!Lookup, Symbols!LookupError
<1>2. CASE i \in DOMAIN job.rows /\ job.rows[i].class = "static"
  <2>1. job.rows[i] \in Resolver!Symbol
    BY <1>2, LenProperties, ElementOfSeq DEF Resolver!ResolveTypeOK
  <2>2. Symbols!Lookup(i).kind = job.rows[i].kind /\ Symbols!Lookup(i).value = job.rows[i].value
    BY <1>2 DEF Symbols!Lookup, Symbols!EntryOf, Symbols!Promise!EntryOf
  <2> QED BY <2>1, <2>2 DEF Resolver!Symbol, Resolver!Promise!Symbol
<1>3. CASE i \in DOMAIN job.rows /\ job.rows[i].class /= "static"
  <2>1. CASE job.rows[i].name \in DOMAIN tab
    <3>1. tab[job.rows[i].name] \in Resolver!Resolved
      BY <2>1 DEF Resolver!ResolveTypeOK
    <3>2. Symbols!Lookup(i) = tab[job.rows[i].name]
      BY <1>3, <2>1 DEF Symbols!Lookup
    <3> QED BY <3>1, <3>2 DEF Resolver!Resolved, Resolver!Promise!Resolved
  <2>2. CASE job.rows[i].name \notin DOMAIN tab
    BY <1>3, <2>2 DEF Symbols!Lookup, Symbols!LookupError
  <2> QED BY <2>1, <2>2
<1> QED BY <1>1, <1>2, <1>3

\* What is handed for a relocation is of its type.
LEMMA HandedTyped ==
  ASSUME PlacedInv, Resolver!ResolveTypeOK, pc = "laid", NEW r \in Reloc
  PROVE  Handed(r) \in Patches!Reloc
<1>1. r.kind \in Patches!Kinds /\ r.elf \in BOOLEAN /\ r.addend \in Int /\ r.off \in Nat
  BY DEF Reloc
<1>2. CASE IsPlaced(r)
  <2>1. /\ where[r.sec] \in DOMAIN out /\ out[where[r.sec]] \in Merged /\ offIn[r.sec] \in Nat
    BY <1>2, HomeOf DEF IsPlaced
  <2>2. out /= << >>
    BY <2>1
  <2>3. ResolveRVA(r.sec, r.off) \in Nat
    BY <1>1, <2>2, AddressTyped
  <2>4. Room(r) \in Int
    BY <1>1, <2>1 DEF Room, Merged
  <2>5. TargetOf(r) \in Patches!Target
    <3> DEFINE e == Symbols!Lookup(r.sym)
    <3>1. e.kind \in {"defined", "absolute", "undefined", "error"} /\ e.value \in Nat
      BY LookupTyped
    <3> HIDE DEF e
    <3>2. TargetRVA(e) \in Nat
      BY <2>2, <3>1, AddressTyped DEF TargetRVA
    <3>3. TargetOf(r) = [kind |-> e.kind,
                         value |-> IF e.kind = "defined" THEN TargetRVA(e) ELSE e.value]
      BY DEF TargetOf, e
    <3> QED BY <3>1, <3>2, <3>3 DEF Patches!Target
  <2>6. Handed(r) = [placed |-> TRUE, site |-> ResolveRVA(r.sec, r.off), room |-> Room(r),
                     kind |-> r.kind, target |-> TargetOf(r), elf |-> r.elf, addend |-> r.addend]
    BY <1>2 DEF Handed
  <2> QED BY <1>1, <2>3, <2>4, <2>5, <2>6 DEF Patches!Reloc
<1>3. CASE ~IsPlaced(r)
  <2>1. Handed(r) = [placed |-> FALSE, site |-> 0, room |-> 0, kind |-> r.kind,
                     target |-> [kind |-> "error", value |-> 0], elf |-> r.elf,
                     addend |-> r.addend]
    BY <1>3 DEF Handed
  <2> QED BY <1>1, <2>1 DEF Patches!Reloc, Patches!Target
<1> QED BY <1>2, <1>3

\* The slots hold what the compiler has left in them, at the sites of the relocations.
LEMMA FieldsTyped ==
  ASSUME PlacedInv, StepInv, pc = "laid"
  PROVE  /\ Fields \in Memories
         /\ \A i \in DOMAIN job.relocs : IsPlaced(job.relocs[i]) =>
              ResolveRVA(job.relocs[i].sec, job.relocs[i].off) \in DOMAIN Fields
<1> DEFINE patched == {i \in DOMAIN job.relocs : IsPlaced(job.relocs[i])}
           Site(i) == ResolveRVA(job.relocs[i].sec, job.relocs[i].off)
           Sites   == {Site(i) : i \in patched}
           At(s)   == CHOOSE i \in patched : Site(i) = s
<1>1. \A i \in DOMAIN job.relocs : job.relocs[i] \in Reloc
  BY JobTyped, LenProperties, ElementOfSeq
<1>2. Sites \in SUBSET Nat
  <2> SUFFICES ASSUME NEW i \in patched PROVE Site(i) \in Nat
    OBVIOUS
  <2>1. job.relocs[i].sec \in DOMAIN where /\ job.relocs[i].off \in Nat
    BY <1>1 DEF IsPlaced, Reloc
  <2>2. out /= << >>
    BY <2>1, HomeOf
  <2> QED BY <2>1, <2>2, AddressTyped
<1>3. \A s \in Sites : At(s) \in patched
  OBVIOUS
<1>4. Fields = [s \in Sites |-> job.relocs[At(s)].field]
  BY DEF Fields
<1>5. \A s \in Sites : job.relocs[At(s)].field \in 0 .. Wide - 1
  BY <1>1, <1>3 DEF Reloc
<1>6. Fields \in [Sites -> 0 .. Wide - 1]
  <2> HIDE DEF Sites, At
  <2> QED BY <1>4, <1>5
<1>7. \A i \in patched : Site(i) \in DOMAIN Fields
  BY <1>4
<1> QED BY <1>2, <1>6, <1>7 DEF Memories

LEMMA LaidOutBegins ==
  ASSUME PlacedInv, StepInv, Resolver!ResolveTypeOK, StreamInv, LaidOut
  PROVE  Patcher!RelocateInit'
<1>1. /\ pc = "laid" /\ mem' = Fields
      /\ prog' = [machines |-> job.machines, base |-> job.base, mem |-> Fields,
                  relocs |-> [i \in DOMAIN job.relocs |-> Handed(job.relocs[i])]]
      /\ at' = 1 /\ pcrelHI' = << >> /\ base' = << >> /\ relPc' = "begin"
  BY DEF LaidOut, StreamInv
<1>2. /\ Len(job.relocs) \in Nat /\ DOMAIN job.relocs = 1 .. Len(job.relocs)
      /\ \A i \in DOMAIN job.relocs : job.relocs[i] \in Reloc
      /\ job.machines \in Seq({"amd64", "arm64", "riscv64", "loongarch64"}) /\ job.base \in Nat
  BY JobTyped, LenProperties, ElementOfSeq
<1>3. \A i \in DOMAIN job.relocs : Handed(job.relocs[i]) \in Patches!Reloc
  BY <1>1, <1>2, HandedTyped
<1>4. [i \in DOMAIN job.relocs |-> Handed(job.relocs[i])] \in Seq(Patches!Reloc)
  BY <1>2, <1>3
<1>5. Fields \in Memories
  BY <1>1, FieldsTyped
<1>6. ASSUME NEW i \in DOMAIN job.relocs
      PROVE  LET r == Handed(job.relocs[i]) IN
             /\ r.placed => r.site \in DOMAIN Fields
             /\ r.kind \in {"hi20", "lo12"} =>
                  \E o \in DOMAIN job.machines : job.machines[o] = "riscv64"
  <2>1. Handed(job.relocs[i]).kind = job.relocs[i].kind
    BY DEF Handed
  <2>2. Handed(job.relocs[i]).placed =>
          /\ IsPlaced(job.relocs[i])
          /\ Handed(job.relocs[i]).site = ResolveRVA(job.relocs[i].sec, job.relocs[i].off)
    BY DEF Handed
  <2> QED BY <1>1, <2>1, <2>2, FieldsTyped, JobTyped
<1>7. prog' \in Handable
  <2> DEFINE p == [machines |-> job.machines, base |-> job.base, mem |-> Fields,
                   relocs |-> [i \in DOMAIN job.relocs |-> Handed(job.relocs[i])]]
  <2>1. p \in [machines : Seq({"amd64", "arm64", "riscv64", "loongarch64"}), base : Nat,
               mem : Memories, relocs : Seq(Patches!Reloc)]
    BY <1>2, <1>4, <1>5
  <2>2. \A i \in DOMAIN p.relocs : p.relocs[i] = Handed(job.relocs[i]) /\ i \in DOMAIN job.relocs
    OBVIOUS
  <2>3. p.mem = Fields /\ p.machines = job.machines
    OBVIOUS
  <2> HIDE DEF p
  <2>4. p \in Handable
    BY <1>6, <2>1, <2>2, <2>3 DEF Handable
  <2> QED BY <1>1, <2>4 DEF p
<1>8. prog'.mem = Fields
  BY <1>1
<1> QED BY <1>1, <1>7, <1>8 DEF Patcher!RelocateInit

\* .reloc takes no place that a relocation or its target already has.
LEMMA HandedKept ==
  ASSUME PlacedInv, pc = "laid", UNCHANGED <<where, offIn, job, resolution>>,
         \A k \in DOMAIN out : out'[k] = out[k]
  PROVE  \A r : Handed(r)' = Handed(r)
<1> TAKE r
<1>1. Symbols!Lookup(r.sym)' = Symbols!Lookup(r.sym)
  BY DEF Symbols!Lookup, Symbols!EntryOf, Symbols!Promise!EntryOf, Symbols!LookupError, resolution
<1>2. CASE IsPlaced(r)
  <2>1. where[r.sec] \in DOMAIN out
    BY <1>2, HomeOf DEF IsPlaced
  <2>2. out \in Seq(Merged)
    BY DEF PlacedInv, LinkInv, TypeInv, LayoutTypeOK
  <2>3. 1 \in DOMAIN out
    BY <2>1, <2>2, LenProperties
  <2>4. \A ref, off : ResolveRVA(ref, off)' = ResolveRVA(ref, off)
    <3> TAKE ref, off
    <3> DEFINE o == IF ref \in DOMAIN where THEN where[ref] ELSE 1
    <3>1. o \in DOMAIN out
      BY <2>3, HomeOf
    <3>2. out'[o] = out[o]
      BY <3>1
    <3> QED BY <3>2 DEF ResolveRVA, OutOf
  <2>5. \A e : SectionOf(e)' = SectionOf(e)
    BY DEF SectionOf
  <2>6. TargetOf(r)' = TargetOf(r)
    BY <1>1, <2>4, <2>5 DEF TargetOf, TargetRVA
  <2>7. Room(r)' = Room(r) /\ IsPlaced(r)'
    BY <1>2, <2>1 DEF Room, IsPlaced
  <2> QED BY <1>2, <2>4, <2>6, <2>7 DEF Handed
<1>3. CASE ~IsPlaced(r)
  <2>1. ~IsPlaced(r)'
    BY <1>3 DEF IsPlaced
  <2> QED BY <1>3, <2>1 DEF Handed
<1> QED BY <1>2, <1>3

LEMMA HandingKept ==
  ASSUME PlacedInv, pc = "laid", UNCHANGED <<where, offIn, job, resolution, prog>>,
         \A k \in DOMAIN out : out'[k] = out[k], Handing
  PROVE  Handing'
BY HandedKept DEF Handing

\* appendRelocSection adds one section behind the others.
LEMMA AppendKeeps ==
  ASSUME PlacedInv, NEW n \in Nat, appendRelocSection(n)
  PROVE  /\ UNCHANGED <<secs, opts, offIn, where, pc>>
         /\ DOMAIN out \subseteq DOMAIN out' /\ \A k \in DOMAIN out : out'[k] = out[k]
         /\ \A k \in DOMAIN out' \ DOMAIN out :
              out'[k].from = {} /\ out'[k].data = n /\ out'[k].raw = AlignUp(n, opts.fa)
<1>1. UNCHANGED <<secs, opts, offIn, where, pc>>
  BY DEF appendRelocSection
<1>2. out \in Seq(Merged) /\ Len(out) \in Nat /\ DOMAIN out = 1 .. Len(out)
  BY LenProperties DEF PlacedInv, LinkInv, TypeInv, LayoutTypeOK
<1>3. CASE n = 0
  BY <1>1, <1>3 DEF appendRelocSection
<1>4. CASE n /= 0
  <2> DEFINE m == RelocSection(out[Len(out)], n)
  <2>1. out' = Append(out, m) /\ m.from = {} /\ m.data = n /\ m.raw = AlignUp(n, opts.fa)
    BY <1>4 DEF appendRelocSection, RelocSection
  <2>2. LinkInv'
    BY LinkAppend DEF PlacedInv
  <2>3. out' \in Seq(Merged)
    BY <2>2 DEF LinkInv, TypeInv, LayoutTypeOK
  <2> HIDE DEF m
  <2>4. Len(out') = Len(out) + 1 /\ out'[Len(out) + 1] = m /\ \A k \in 1 .. Len(out) : out'[k] = out[k]
    BY <1>2, <2>1
  <2>5. DOMAIN out' = 1 .. Len(out) + 1
    BY <2>3, <2>4, LenProperties
  <2> QED BY <1>1, <1>2, <2>1, <2>4, <2>5
<1> QED BY <1>3, <1>4

LEMMA StreamInit == PipelineInit => StreamInv
BY DEF PipelineInit, StreamInv, Linking, Streaming

\* A base relocation as ApplyRelocations lists it.
Found == [rva : Nat, type : {"DIR64", "HIGHLOW"}]

LEMMA BaseTyped ==
  ASSUME Patcher!RelocateInv
  PROVE  /\ Len(base) \in Nat /\ DOMAIN base = 1 .. Len(base)
         /\ \A i \in DOMAIN base : base[i] \in Found
<1>1. base \in Seq(Found)
  BY DEF Patcher!RelocateInv, Patcher!TypeInv, Found
<1>2. Len(base) \in Nat /\ DOMAIN base = 1 .. Len(base)
  BY <1>1, LenProperties
<1> QED BY <1>1, <1>2, ElementOfSeq

\* The stream is made from what ApplyRelocations has found.
LEMMA AppliedBegins ==
  ASSUME StreamInv, RelocationsApplied, relPc = "linked"
  PROVE  Reader!RelocInit'
<1> DEFINE L == [i \in DOMAIN base |-> [rva |-> base[i].rva, type |-> TypeCode[base[i].type]]]
<1>1. Patcher!RelocateInv
  BY DEF StreamInv, RelocationsApplied, Linking
<1>2. /\ Len(base) \in Nat /\ DOMAIN base = 1 .. Len(base)
      /\ \A i \in DOMAIN base : base[i] \in Found
  BY <1>1, BaseTyped
<1>3. \A i \in 1 .. Len(base) :
        [rva |-> base[i].rva, type |-> TypeCode[base[i].type]] \in [rva : Nat, type : 1 .. 15]
  BY <1>2 DEF Found, TypeCode
<1>4. L \in Seq([rva : Nat, type : 1 .. 15]) /\ DOMAIN L = DOMAIN base
  BY <1>2, <1>3
<1>5. /\ base' = base /\ pending' = DOMAIN base /\ buf' = << >> /\ phase' = "build"
      /\ pos' = 1 /\ fix' = 5 /\ applied' = << >>
  BY DEF StreamInv, RelocationsApplied, relocation
<1> HIDE DEF L
<1>6. L' = L
  BY <1>5 DEF L
<1> QED BY <1>4, <1>5, <1>6 DEF Reader!RelocInit, L

\* Nothing of ApplyRelocations or of the stream changes.
LEMMA PatcherRests ==
  ASSUME Patcher!RelocateInv, UNCHANGED relocation
  PROVE  Patcher!RelocateInv'
BY PatcherStep DEF relocation, Patcher!relocateVars

LEMMA ReaderRests ==
  ASSUME Reader!StreamInv, UNCHANGED <<base, stream>>
  PROVE  Reader!StreamInv'
BY ReaderStep DEF stream, Reader!relocVars

LEMMA StreamStep ==
  StepInv /\ Resolver!ResolveInv /\ PlacedInv /\ StreamInv
    /\ [PipelineNext \/ PipelineReturned]_pipelineVars => StreamInv'
<1> SUFFICES ASSUME StepInv, Resolver!ResolveInv, PlacedInv, StreamInv,
                    PipelineNext \/ PipelineReturned \/ UNCHANGED pipelineVars
             PROVE  StreamInv'
  OBVIOUS
<1>2. ASSUME UNCHANGED <<relocation, stream>>, step \notin Linking, step' \notin Linking,
             step' \in {"resolve", "layout"} => step \in {"resolve", "layout"}
      PROVE  StreamInv'
  BY <1>2 DEF StreamInv, relocation, stream, Linking, Streaming
<1>3. CASE NoObjects \/ ResolveSymbols \/ SymbolsResolved \/ LayOut
  <2>1. /\ UNCHANGED <<relocation, stream>> /\ step \in {"resolve", "layout"}
        /\ step' \in {"resolve", "layout", "failed"}
    BY <1>3 DEF NoObjects, ResolveSymbols, SymbolsResolved, LayOut
  <2> QED BY <1>2, <2>1 DEF Linking
<1>4. CASE LaidOut
  <2>1. /\ UNCHANGED <<where, offIn, out, job, resolution, stream>>
        /\ step = "layout" /\ step' = "relocate" /\ pc = "laid"
        /\ prog'.machines = job.machines /\ prog'.base = job.base
        /\ prog'.relocs = [i \in DOMAIN job.relocs |-> Handed(job.relocs[i])]
    BY <1>4 DEF LaidOut, linkVars, layoutVars
  <2>2. \A r : Handed(r)' = Handed(r)
    BY <2>1, HandedKept
  <2>3. Handing'
    BY <2>1, <2>2 DEF Handing
  <2>4. Patcher!RelocateInv'
    <3>1. Resolver!ResolveTypeOK
      BY DEF Resolver!ResolveInv
    <3> QED BY <1>4, <3>1, LaidOutBegins, PatcherBegins
  <2> QED BY <2>1, <2>3, <2>4 DEF StreamInv, stream, Streaming, Linking
<1>5. CASE ApplyRelocations
  <2>1. /\ UNCHANGED <<where, offIn, out, job, step, resolution, stream>>
        /\ step = "relocate" /\ pc = "laid" /\ Patches!RelocateNext
    BY <1>5 DEF ApplyRelocations, StepInv, linkVars, layoutVars
  <2>2. Patcher!RelocateNext /\ Patcher!RelocateInv /\ Handing
    BY <2>1, SamePatches DEF StreamInv, Linking
  <2>3. prog' = prog
    BY <2>2 DEF Patcher!RelocateNext, Patcher!Begin, Patcher!Skip, Patcher!applyOne,
       Patcher!Abort, Patcher!Applied
  <2>4. Handing'
    BY <2>1, <2>2, <2>3, HandingKept
  <2>5. Patcher!RelocateInv'
    BY <2>2, PatcherStep
  <2> QED BY <2>1, <2>4, <2>5 DEF StreamInv, stream, Streaming, Linking
<1>6. CASE RelocationsApplied
  <2>1. /\ UNCHANGED <<where, offIn, out, job, resolution, relocation, phase>>
        /\ step = "relocate" /\ pc = "laid" /\ Patcher!RelocateInv /\ Handing
        /\ step' \in {"build", "failed"} /\ phase /= "loaded"
        /\ step' = "build" => relPc = "linked"
    BY <1>6 DEF RelocationsApplied, StepInv, linkVars, layoutVars, StreamInv, Linking
  <2>2. Handing'
    BY <2>1, HandingKept DEF relocation
  <2>3. Patcher!RelocateInv'
    BY <2>1, PatcherRests
  <2>4. step' = "build" => Reader!StreamInv'
    BY <1>6, <2>1, AppliedBegins, ReaderBegins
  <2> QED BY <2>1, <2>2, <2>3, <2>4 DEF StreamInv, relocation, Streaming, Linking
<1>7. ASSUME step \in Streaming, step' \in Streaming, UNCHANGED <<job, resolution, relocation>>,
             Handing', Reader!StreamInv', phase' = "loaded" => step' = "emitted"
      PROVE  StreamInv'
  <2>1. Patcher!RelocateInv'
    BY <1>7, PatcherRests DEF StreamInv, Streaming
  <2> QED BY <1>7, <2>1 DEF StreamInv, relocation, Streaming, Linking
<1>8. ASSUME step \in Streaming, UNCHANGED <<where, offIn, out, job, resolution, relocation>>
      PROVE  Handing'
  <2>1. pc = "laid" /\ Handing
    BY <1>8 DEF StepInv, PlacedInv, LinkInv, StreamInv, Streaming, Linking
  <2> QED BY <1>8, <2>1, HandingKept DEF relocation
<1>9. CASE BuildRelocSection
  <2>1. /\ step = "build" /\ step' = "build" /\ Reader!RelocNext
        /\ UNCHANGED <<where, offIn, out, job, resolution, relocation>>
    BY <1>9, SameStream DEF BuildRelocSection, linkVars, layoutVars
  <2>2. Handing' /\ Reader!StreamInv'
    BY <1>8, <2>1, ReaderStep DEF StreamInv, Streaming, Linking
  <2>3. phase' /= "loaded"
    BY <1>9 DEF BuildRelocSection, Stream!EmitBlock, Stream!Built, StreamInv
  <2> QED BY <1>7, <2>1, <2>2, <2>3 DEF Streaming, Linking
<1>10. CASE AppendReloc
  <2>1. /\ step = "build" /\ step' = "entry" /\ pc = "laid" /\ phase' = "load"
        /\ appendRelocSection(2 * Len(buf)) /\ UNCHANGED <<job, resolution, relocation, stream>>
    BY <1>10 DEF AppendReloc, appendRelocSection, stream
  <2>2. Reader!StreamInv /\ Handing
    BY <2>1 DEF StreamInv, Streaming, Linking
  <2>3. 2 * Len(buf) \in Nat
    <3>1. buf \in Seq(Nat)
      BY <2>2 DEF Reader!StreamInv, Reader!StreamTypes
    <3> QED BY <3>1, LenProperties
  <2>4. UNCHANGED <<where, offIn>> /\ \A k \in DOMAIN out : out'[k] = out[k]
    BY <2>1, <2>3, AppendKeeps
  <2>5. Handing'
    BY <2>1, <2>2, <2>4, HandingKept DEF relocation
  <2>6. Reader!StreamInv'
    BY <2>1, <2>2, ReaderRests DEF relocation
  <2> QED BY <1>7, <2>1, <2>5, <2>6 DEF Streaming, Linking
<1>11. CASE resolveEntryRVA \/ Emit
  <2>1. /\ step \in {"entry", "emit"} /\ step' \in {"emit", "emitted", "failed", "panicked"}
        /\ UNCHANGED <<where, offIn, out, job, resolution, relocation, stream>>
    BY <1>11 DEF resolveEntryRVA, Emit, emitPE, linkVars, layoutVars
  <2>2. phase' /= "loaded"
    BY <2>1 DEF StreamInv, stream
  <2>3. CASE step' \in {"failed", "panicked"}
    BY <2>1, <2>2, <2>3 DEF StreamInv, Streaming, Linking
  <2>4. CASE step' \in {"emit", "emitted"}
    <3>1. Handing'
      BY <1>8, <2>1 DEF Streaming, Linking
    <3>2. Reader!StreamInv'
      BY <2>1, ReaderRests DEF StreamInv, relocation, Streaming, Linking
    <3> QED BY <1>7, <2>1, <2>2, <2>4, <3>1, <3>2 DEF Streaming, Linking
  <2> QED BY <2>1, <2>3, <2>4
<1>12. CASE LoadImage
  <2>1. /\ step = "emitted" /\ step' = "emitted" /\ Reader!RelocNext
        /\ UNCHANGED <<where, offIn, out, job, resolution, relocation>>
    BY <1>12, SameStream DEF LoadImage, linkVars, layoutVars
  <2>2. Handing' /\ Reader!StreamInv'
    BY <1>8, <2>1, ReaderStep DEF StreamInv, Streaming, Linking
  <2> QED BY <1>7, <2>1, <2>2 DEF Streaming, Linking
<1>13. CASE PipelineReturned \/ UNCHANGED pipelineVars
  <2>1. UNCHANGED <<where, offIn, out, pc, job, step, resolution, relocation, stream>>
    BY <1>13 DEF PipelineReturned, pipelineVars, linkVars, layoutVars
  <2>2. CASE step \in Linking
    <3>1. pc = "laid" /\ Handing /\ Patcher!RelocateInv
      BY <2>2 DEF StepInv, PlacedInv, LinkInv, StreamInv, Linking
    <3>2. Handing' /\ Patcher!RelocateInv'
      BY <2>1, <3>1, HandingKept, PatcherRests DEF relocation
    <3>3. step \in Streaming => Reader!StreamInv'
      BY <2>1, ReaderRests DEF StreamInv, relocation
    <3> QED BY <2>1, <3>2, <3>3 DEF StreamInv, relocation, stream
  <2>3. CASE step \notin Linking
    BY <2>1, <2>3 DEF StreamInv, relocation, stream, Streaming, Linking
  <2> QED BY <2>2, <2>3
<1> QED BY <1>3, <1>4, <1>5, <1>6, <1>9, <1>10, <1>11, <1>12, <1>13 DEF PipelineNext
-------------------------------------------------------------------------------
(* The entry *)

\* The entry comes from a definition in a section, by the finished layout, which has
\* a section to look it up in.
EntryInv ==
  step \in {"emit", "emitted"} =>
    /\ job.entry \in DOMAIN tab /\ tab[job.entry].kind = "defined"
    /\ ~ResolvePanics(SectionOf(tab[job.entry]))
    /\ entryRVA = EntryAddress(tab[job.entry])

LEMMA EntryStep ==
  EntryInv /\ [PipelineNext \/ PipelineReturned]_pipelineVars => EntryInv'
<1> SUFFICES ASSUME EntryInv, PipelineNext \/ PipelineReturned \/ UNCHANGED pipelineVars
             PROVE  EntryInv'
  OBVIOUS
<1>1. CASE step' \notin {"emit", "emitted"}
  BY <1>1 DEF EntryInv
<1>2. CASE resolveEntryRVA /\ step' = "emit"
  <2>1. /\ UNCHANGED <<where, offIn, out, job, tab>>
        /\ job.entry \in DOMAIN tab /\ tab[job.entry].kind = "defined"
        /\ ~ResolvePanics(SectionOf(tab[job.entry]))
        /\ entryRVA' = EntryAddress(tab[job.entry])
    BY <1>2 DEF resolveEntryRVA, EntryUsable, linkVars, layoutVars, resolution
  <2>2. /\ EntryAddress(tab[job.entry])' = EntryAddress(tab[job.entry])
        /\ ResolvePanics(SectionOf(tab[job.entry]))' <=> ResolvePanics(SectionOf(tab[job.entry]))
    BY <2>1 DEF EntryAddress, SectionOf, ResolveRVA, ResolvePanics, OutOf
  <2> QED BY <2>1, <2>2 DEF EntryInv
<1>3. CASE Emit \/ LoadImage \/ PipelineReturned \/ UNCHANGED pipelineVars
  <2>1. /\ UNCHANGED <<where, offIn, out, job, tab, entryRVA>>
        /\ step' \in {"emit", "emitted"} => step \in {"emit", "emitted"}
    BY <1>3 DEF Emit, emitPE, LoadImage, PipelineReturned, pipelineVars, linkVars, layoutVars,
       resolution
  <2>2. /\ EntryAddress(tab[job.entry])' = EntryAddress(tab[job.entry])
        /\ ResolvePanics(SectionOf(tab[job.entry]))' <=> ResolvePanics(SectionOf(tab[job.entry]))
    BY <2>1 DEF EntryAddress, SectionOf, ResolveRVA, ResolvePanics, OutOf
  <2> QED BY <2>1, <2>2 DEF EntryInv
<1>4. CASE PipelineNext /\ step' \in {"emit", "emitted"}
  BY <1>2, <1>3, <1>4 DEF PipelineNext, NoObjects, ResolveSymbols, SymbolsResolved, LayOut,
     LaidOut, ApplyRelocations, RelocationsApplied, BuildRelocSection, AppendReloc, resolveEntryRVA
<1> QED BY <1>1, <1>3, <1>4

-------------------------------------------------------------------------------
(* What has passed every relocation *)

\* While sections are placed, and until .reloc is appended.
BehindInv == stage = "layout" => OrderInv /\ BssBehind

LEMMA BehindInvInit == PipelineInit => BehindInv
BY BehindInit, ConcatInit DEF PipelineInit, LinkInit, ConcatInv, BehindInv

LEMMA BehindInvStep ==
  PlacedInv /\ StepInv /\ BehindInv /\ [PipelineNext \/ PipelineReturned]_pipelineVars
    => BehindInv'
<1> SUFFICES ASSUME PlacedInv, StepInv, BehindInv,
                    PipelineNext \/ PipelineReturned \/ UNCHANGED pipelineVars, stage' = "layout"
             PROVE  (OrderInv /\ BssBehind)'
  BY DEF BehindInv
<1>1. stage = "layout" /\ [LayoutNext]_layoutVars
  BY LinkActs DEF appendRelocSection, emitPE, linkVars
<1>2. TypeInv /\ ListInv /\ OrderInv /\ BssBehind
  BY <1>1 DEF PlacedInv, LinkInv, LaidInv, BehindInv
<1>3. BucketInv
  BY <1>2 DEF ListInv
<1> QED BY <1>1, <1>2, <1>3, OrderStep, BehindStep

\* There is no byte to patch in an uninitialised input.
LEMMA NoBssRoom ==
  ASSUME PlacedInv, BehindInv, WellFlagged, stage = "layout", pc = "laid",
         NEW r \in Reloc, r.sec \in DOMAIN where, secs[r.sec].bss
  PROVE  Room(r) <= 0
<1> DEFINE h == where[r.sec]
<1>1. /\ r.sec \in Kept /\ h \in DOMAIN out /\ offIn[r.sec] \in Nat /\ out[h].data \in Nat
      /\ r.off \in Nat
  BY HomeOf DEF Reloc, Merged
<1>2. r.sec \in out[h].from
  BY <1>1 DEF PlacedInv, WhereHome
<1>3. out[h].data <= offIn[r.sec]
  BY <1>1, <1>2 DEF BehindInv, BssBehind
<1> HIDE DEF h
<1> QED BY <1>1, <1>3 DEF Room, h

\* A relocation that applyOne has not refused.
Passed(h) ==
  h.placed => /\ Patches!Resolves(h) /\ h.kind /= "other"
              /\ ~(h.kind /= "none" /\ h.room < Patches!Width(h.kind))

\* None of the relocations that ApplyRelocations has behind it.
ApplyInv ==
  step \in Linking => \A i \in DOMAIN prog.relocs : i < at => Passed(prog.relocs[i])

\* What the relocations of a link must be like for it to get to the .reloc section.
Cleared ==
  /\ \A o \in DOMAIN job.machines : job.machines[o] = job.machines[1]
  /\ \A i \in DOMAIN job.relocs :
       LET r == job.relocs[i] IN
       r.sec \in Kept =>
         /\ r.kind /= "other" /\ Symbols!Lookup(r.sym).kind \in {"defined", "absolute"}
         /\ WellFlagged /\ r.kind /= "none" => ~secs[r.sec].bss

ClearedInv == step \in {"build", "entry", "emit", "emitted"} => Cleared

\* Where ApplyRelocations is in the relocations of the link.
LEMMA HandedOver ==
  ASSUME StepInv, StreamInv, step \in Linking
  PROVE  /\ Len(job.relocs) \in Nat /\ DOMAIN job.relocs = 1 .. Len(job.relocs)
         /\ DOMAIN prog.relocs = DOMAIN job.relocs
         /\ \A i \in DOMAIN job.relocs : prog.relocs[i] = Handed(job.relocs[i])
         /\ at \in Nat \ {0}
         /\ relPc = "linked" => at = Len(job.relocs) + 1
         /\ relPc \in {"apply", "linked"} =>
              \A o \in DOMAIN job.machines : job.machines[o] = job.machines[1]
<1>1. Handing /\ Patcher!TypeInv
  BY DEF StreamInv, Patcher!RelocateInv
<1>2. Len(job.relocs) \in Nat /\ DOMAIN job.relocs = 1 .. Len(job.relocs)
  BY JobTyped, LenProperties
<1>3. /\ DOMAIN prog.relocs = DOMAIN job.relocs
      /\ \A i \in DOMAIN job.relocs : prog.relocs[i] = Handed(job.relocs[i])
  BY <1>1 DEF Handing
<1>4. Len(prog.relocs) = Len(job.relocs)
  <2>1. prog.relocs \in Seq(Patches!Reloc)
    BY <1>1 DEF Patcher!TypeInv, Handable
  <2>2. Len(prog.relocs) \in Nat /\ DOMAIN prog.relocs = 1 .. Len(prog.relocs)
    BY <2>1, LenProperties
  <2> QED BY <1>2, <1>3, <2>2
<1>5. at \in 1 .. Len(prog.relocs) + 1 /\ (relPc = "linked" => at = Len(prog.relocs) + 1)
  BY <1>1 DEF Patcher!TypeInv, Patcher!RelocateTypeOK, Patcher!Relocs
<1>6. relPc \in {"apply", "linked"} =>
        \A o \in DOMAIN job.machines : job.machines[o] = job.machines[1]
  BY <1>1 DEF Patcher!TypeInv, Patcher!SameMachine, Handing
<1> QED BY <1>2, <1>3, <1>4, <1>5, <1>6

LEMMA ApplyInvStep ==
  StepInv /\ StreamInv /\ ApplyInv
    /\ [PipelineNext \/ PipelineReturned]_pipelineVars => ApplyInv'
<1> SUFFICES ASSUME StepInv, StreamInv, ApplyInv,
                    PipelineNext \/ PipelineReturned \/ UNCHANGED pipelineVars
             PROVE  ApplyInv'
  OBVIOUS
<1>1. ASSUME UNCHANGED <<prog, at>>, step' \in Linking => step \in Linking
      PROVE  ApplyInv'
  BY <1>1 DEF ApplyInv, Passed, Patches!Resolves
<1>2. CASE LaidOut
  <2>1. /\ at' = 1 /\ job' = job
        /\ DOMAIN prog'.relocs = DOMAIN job.relocs
    BY <1>2 DEF LaidOut, StreamInv
  <2>2. Len(job.relocs) \in Nat /\ DOMAIN job.relocs = 1 .. Len(job.relocs)
    BY JobTyped, LenProperties
  <2>3. \A k \in DOMAIN job.relocs : ~(k < 1)
    BY <2>2
  <2> QED BY <2>1, <2>3 DEF ApplyInv
<1>3. CASE ApplyRelocations
  <2>1. Patches!RelocateNext /\ step = "relocate" /\ step' = step
    BY <1>3 DEF ApplyRelocations
  <2>2. CASE Patches!Begin \/ Patches!Abort \/ Patches!Applied
    BY <1>1, <2>1, <2>2 DEF Patches!Begin, Patches!Abort, Patches!Applied
  <2>3. CASE Patches!Skip \/ Patches!applyOne
    <3> DEFINE h == prog.relocs[at]
    <3>1. at' = at + 1 /\ prog' = prog /\ at \in DOMAIN prog.relocs
      BY <2>3 DEF Patches!Skip, Patches!applyOne, Patches!Relocs
    <3>2. Passed(h)
      <4>1. h.placed => ~Patches!Fails(h)
        BY <2>3 DEF Patches!Skip, Patches!applyOne, Patches!Relocs
      <4>2. ~Patches!Fails(h) => Patches!Resolves(h) /\ h.kind /= "other"
              /\ ~(h.kind /= "none" /\ h.room < Patches!Width(h.kind))
        BY DEF Patches!Fails
      <4> HIDE DEF h
      <4> QED BY <4>1, <4>2 DEF Passed
    <3>3. /\ at \in Nat /\ \A i \in DOMAIN prog.relocs : i \in Nat
      BY <2>1, HandedOver DEF Linking
    <3>4. \A i \in DOMAIN prog.relocs : i < at + 1 => Passed(prog.relocs[i])
      <4> TAKE i \in DOMAIN prog.relocs
      <4>1. CASE i = at
        BY <3>2, <4>1
      <4>2. CASE i /= at
        <5>1. i < at + 1 => i < at
          BY <3>3, <4>2
        <5> QED BY <2>1, <5>1 DEF ApplyInv, Linking
      <4> QED BY <4>1, <4>2
    <3> QED BY <3>1, <3>4 DEF ApplyInv, Passed, Patches!Resolves
  <2> QED BY <2>1, <2>2, <2>3 DEF Patches!RelocateNext
<1>4. CASE NoObjects \/ ResolveSymbols \/ SymbolsResolved \/ LayOut
  BY <1>1, <1>4 DEF NoObjects, ResolveSymbols, SymbolsResolved, LayOut, relocation, Linking
<1>5. CASE RelocationsApplied \/ BuildRelocSection \/ AppendReloc \/ resolveEntryRVA \/ Emit
             \/ LoadImage
  BY <1>1, <1>5 DEF RelocationsApplied, BuildRelocSection, AppendReloc, resolveEntryRVA, Emit,
     LoadImage, relocation, Linking
<1>6. CASE PipelineReturned \/ UNCHANGED pipelineVars
  BY <1>1, <1>6 DEF PipelineReturned, pipelineVars, relocation
<1> QED BY <1>2, <1>3, <1>4, <1>5, <1>6 DEF PipelineNext

LEMMA AllCleared ==
  ASSUME PlacedInv, StepInv, StreamInv, BehindInv, ApplyInv, step = "relocate", relPc = "linked"
  PROVE  Cleared
<1>1. /\ Len(job.relocs) \in Nat /\ DOMAIN job.relocs = 1 .. Len(job.relocs)
      /\ at = Len(job.relocs) + 1 /\ DOMAIN prog.relocs = DOMAIN job.relocs
      /\ \A i \in DOMAIN job.relocs : prog.relocs[i] = Handed(job.relocs[i])
  BY HandedOver DEF Linking
<1>2. \A i \in DOMAIN job.relocs : i < at
  BY <1>1
<1>3. \A o \in DOMAIN job.machines : job.machines[o] = job.machines[1]
  BY HandedOver DEF Linking
<1>4. pc = "laid" /\ stage = "layout" /\ DOMAIN where = Kept
  BY DEF StepInv, PlacedInv, WhereHome
<1>5. ASSUME NEW i \in DOMAIN job.relocs, job.relocs[i].sec \in Kept
      PROVE  LET r == job.relocs[i] IN
             /\ r.kind /= "other" /\ Symbols!Lookup(r.sym).kind \in {"defined", "absolute"}
             /\ WellFlagged /\ r.kind /= "none" => ~secs[r.sec].bss
  <2> DEFINE r == job.relocs[i]
  <2>1. r \in Reloc
    BY JobTyped, LenProperties, ElementOfSeq
  <2>2. /\ Handed(r).placed /\ Handed(r).kind = r.kind /\ Handed(r).room = Room(r)
        /\ Handed(r).target.kind = Symbols!Lookup(r.sym).kind
    BY <1>4, <1>5 DEF Handed, IsPlaced, TargetOf
  <2>3. Passed(Handed(r))
    BY <1>1, <1>2 DEF ApplyInv, Linking
  <2> HIDE DEF r
  <2>4. /\ Symbols!Lookup(r.sym).kind \in {"defined", "absolute"} /\ r.kind /= "other"
        /\ ~(r.kind /= "none" /\ Room(r) < Patches!Width(r.kind))
    BY <2>2, <2>3 DEF Passed, Patches!Resolves
  <2>5. Patches!Width(r.kind) \in {2, 4, 8}
    BY DEF Patches!Width
  <2>6. ASSUME WellFlagged, secs[r.sec].bss PROVE Room(r) <= 0 /\ Room(r) \in Int
    <3>1. r.sec \in DOMAIN where
      BY <1>4, <1>5 DEF r
    <3>2. Room(r) <= 0
      BY <1>4, <2>1, <2>6, <3>1, NoBssRoom
    <3>3. out[where[r.sec]].data \in Nat /\ offIn[r.sec] \in Nat /\ r.off \in Nat
      BY <1>4, <2>1, <3>1, HomeOf DEF Reloc, Merged
    <3> QED BY <3>2, <3>3 DEF Room
  <2>7. WellFlagged /\ r.kind /= "none" => ~secs[r.sec].bss
    BY <2>4, <2>5, <2>6
  <2> QED BY <2>4, <2>7 DEF r
<1> QED BY <1>3, <1>5 DEF Cleared

LEMMA ClearedSame ==
  ASSUME Cleared, UNCHANGED <<secs, job, tab>>
  PROVE  Cleared'
BY DEF Cleared, Kept, WellFlagged, Symbols!Lookup, Symbols!EntryOf, Symbols!Promise!EntryOf,
   Symbols!LookupError

LEMMA ClearedInvStep ==
  PlacedInv /\ StepInv /\ StreamInv /\ BehindInv /\ ApplyInv /\ ClearedInv
    /\ [PipelineNext \/ PipelineReturned]_pipelineVars => ClearedInv'
<1> SUFFICES ASSUME PlacedInv, StepInv, StreamInv, BehindInv, ApplyInv, ClearedInv,
                    PipelineNext \/ PipelineReturned \/ UNCHANGED pipelineVars,
                    step' \in {"build", "entry", "emit", "emitted"}
             PROVE  Cleared'
  BY DEF ClearedInv
<1>1. UNCHANGED <<secs, job, tab>>
  <2>1. step /= "resolve" /\ ~LayOut
    BY DEF PipelineNext, PipelineReturned, pipelineVars, NoObjects, ResolveSymbols,
       SymbolsResolved, LayOut, LaidOut, ApplyRelocations, RelocationsApplied,
       BuildRelocSection, AppendReloc, resolveEntryRVA, Emit, LoadImage
  <2>2. UNCHANGED <<job, tab>>
    BY <2>1, ResolveActs DEF resolution
  <2>3. secs' = secs
    BY LinkActs DEF appendRelocSection, emitPE, linkVars, layoutVars, LayoutNext, Place,
       AllPlaced, EmitStandard, EmitCustoms, BindWhere, Stride, Laid
  <2> QED BY <2>2, <2>3
<1>2. CASE RelocationsApplied
  BY <1>1, <1>2, AllCleared, ClearedSame DEF RelocationsApplied
<1>3. CASE step \in {"build", "entry", "emit", "emitted"}
  BY <1>1, <1>3, ClearedSame DEF ClearedInv
<1> QED BY <1>2, <1>3
        DEF PipelineNext, PipelineReturned, pipelineVars, NoObjects, ResolveSymbols,
        SymbolsResolved, LayOut, LaidOut, ApplyRelocations, BuildRelocSection, AppendReloc,
        resolveEntryRVA, Emit, LoadImage

-------------------------------------------------------------------------------
(* What the output sections hold *)

\* Output sections are made of kept inputs, and the file has all of their bytes.
Held ==
  \A m \in DOMAIN out : out[m].from \subseteq Kept /\ (WellFlagged => out[m].data <= out[m].raw)

HeldInv == stage /= "layout" => Held

LEMMA HeldLaid ==
  ASSUME LinkInv, stage = "layout", pc = "laid"
  PROVE  Held
<1>1. TypeInv /\ BucketInv /\ EmitInv /\ ApartInv /\ strided = Len(out)
  BY DEF LinkInv, LaidInv, ListInv, FrontInv
<1>2. out \in Seq(Merged) /\ Len(out) \in Nat /\ DOMAIN out = 1 .. Len(out)
  BY <1>1, LenProperties DEF TypeInv, LayoutTypeOK
<1>3. ASSUME NEW m \in DOMAIN out
      PROVE  out[m].from \subseteq Kept /\ (WellFlagged => out[m].data <= out[m].raw)
  <2>1. SectionKey(out[m]) \in DOMAIN buckets /\ out[m].from = buckets[SectionKey(out[m])].from
    BY <1>1 DEF EmitInv
  <2>2. buckets[SectionKey(out[m])].from \subseteq Kept
    BY <1>1, <2>1 DEF BucketInv
  <2>3. WellFlagged => out[m].data <= out[m].raw
    BY <1>1, <1>2 DEF ApartInv, Behind
  <2> QED BY <2>1, <2>2, <2>3
<1> QED BY <1>3 DEF Held

LEMMA HeldAppend ==
  ASSUME PlacedInv, NEW n \in Nat, appendRelocSection(n)
  PROVE  Held'
<1>1. Held
  BY HeldLaid DEF PlacedInv, appendRelocSection
<1>2. Kept' = Kept /\ (WellFlagged' <=> WellFlagged)
  BY DEF appendRelocSection, Kept, WellFlagged
<1>3. n <= AlignUp(n, opts.fa)
  <2>1. opts.fa \in Nat \ {0}
    BY DEF PlacedInv, LinkInv, TypeInv, LayoutTypeOK, LayoutOptions
  <2> QED BY <2>1, AlignUpBounds
<1> QED BY <1>1, <1>2, <1>3, AppendKeeps DEF Held

LEMMA HeldInvInit == PipelineInit => HeldInv
BY DEF PipelineInit, LinkInit, HeldInv

LEMMA HeldInvStep ==
  StepInv /\ PlacedInv /\ HeldInv /\ (step = "build" => Len(buf) \in Nat)
    /\ [PipelineNext \/ PipelineReturned]_pipelineVars => HeldInv'
<1> SUFFICES ASSUME StepInv, PlacedInv, HeldInv, step = "build" => Len(buf) \in Nat,
                    PipelineNext \/ PipelineReturned \/ UNCHANGED pipelineVars
             PROVE  HeldInv'
  OBVIOUS
<1>1. CASE LayoutNext /\ UNCHANGED <<stage, image>> /\ step = "layout"
  BY <1>1 DEF StepInv, HeldInv
<1>2. CASE appendRelocSection(2 * Len(buf)) /\ step = "build"
  BY <1>2, HeldAppend DEF HeldInv
<1>3. CASE emitPE \/ UNCHANGED linkVars
  <2>1. UNCHANGED <<secs, out>> /\ (stage = "layout" => stage' = "layout")
    BY <1>3 DEF emitPE, linkVars, layoutVars
  <2>2. Held => Held'
    BY <2>1 DEF Held, Kept, WellFlagged
  <2> QED BY <1>3, <2>1, <2>2 DEF HeldInv, emitPE, linkVars
<1> QED BY <1>1, <1>2, <1>3, LinkActs

-------------------------------------------------------------------------------
(* Links without a section *)

\* What the filter leaves nothing of has no bucket and no output section.
BareInv ==
  Kept = {} => todo = {} /\ buckets = << >> /\ customs = << >> /\ out = << >>

LEMMA BareInvInit == PipelineInit => BareInv
BY EmptySeq DEF PipelineInit, LinkInit, LayoutInit, BareInv, Kept

LEMMA BareInvStep ==
  PlacedInv /\ BareInv /\ [PipelineNext \/ PipelineReturned]_pipelineVars => BareInv'
<1> SUFFICES ASSUME PlacedInv, BareInv, PipelineNext \/ PipelineReturned \/ UNCHANGED pipelineVars,
                    Kept' = {}
             PROVE  (todo = {} /\ buckets = << >> /\ customs = << >> /\ out = << >>)'
  BY DEF BareInv
<1>1. secs' = secs
  BY LinkActs DEF appendRelocSection, emitPE, linkVars, layoutVars, LayoutNext, Place,
     AllPlaced, EmitStandard, EmitCustoms, BindWhere, Stride, Laid
<1>2. todo = {} /\ buckets = << >> /\ customs = << >> /\ out = << >>
  BY <1>1 DEF BareInv, Kept
<1>3. DOMAIN buckets = {} /\ DOMAIN out = {} /\ Len(out) = 0 /\ DOMAIN customs = {}
  BY <1>2, EmptySeq
<1>4. CASE LayoutNext
  <2>1. ~\E i \in todo : Place(i)
    BY <1>2
  <2>2. ~\E k \in DOMAIN buckets : EmitStandard(k)
    BY <1>3
  <2>3. ~Stride
    BY <1>3 DEF Stride, PlacedInv, LinkInv, TypeInv, LayoutTypeOK
  <2>4. CASE AllPlaced \/ BindWhere \/ Laid
    BY <1>2, <2>4 DEF AllPlaced, BindWhere, Laid
  <2>5. CASE EmitCustoms
    <3>1. /\ UNCHANGED <<todo, buckets, customs>>
          /\ out' = out \o [i \in DOMAIN customs |-> buckets[customs[i]]]
      BY <2>5 DEF EmitCustoms
    <3>2. [i \in DOMAIN customs |-> buckets[customs[i]]] = << >>
      BY <1>3, EmptySeq
    <3>3. << >> \o << >> = << >>
      OBVIOUS
    <3> QED BY <1>2, <3>1, <3>2, <3>3
  <2> QED BY <1>4, <2>1, <2>2, <2>3, <2>4, <2>5 DEF LayoutNext
<1>5. CASE appendRelocSection(2 * Len(buf))
  BY <1>2, <1>5 DEF appendRelocSection
<1>6. CASE emitPE \/ UNCHANGED linkVars
  BY <1>2, <1>6 DEF emitPE, linkVars, layoutVars
<1> QED BY <1>4, <1>5, <1>6, LinkActs

-------------------------------------------------------------------------------
(* The invariant of Link as a whole *)

PipelineInv ==
  /\ StepInv /\ Resolver!ResolveInv /\ PlacedInv /\ StreamInv
  /\ BehindInv /\ ApplyInv /\ ClearedInv /\ HeldInv /\ EntryInv /\ BareInv

LEMMA PipelineInvInit == PipelineInit => PipelineInv
<1>1. PipelineInit => ApplyInv /\ ClearedInv /\ EntryInv
  BY DEF PipelineInit, ApplyInv, ClearedInv, EntryInv
<1> QED BY <1>1, StepInit, ResolverInit, PlacedInit, StreamInit, BehindInvInit,
           HeldInvInit, BareInvInit
        DEF PipelineInv

LEMMA PipelineInvStep ==
  PipelineInv /\ [PipelineNext \/ PipelineReturned]_pipelineVars => PipelineInv'
<1>1. StreamInv /\ step = "build" => Len(buf) \in Nat
  BY LenProperties DEF StreamInv, Linking, Streaming, Reader!StreamInv, Reader!StreamTypes
<1> QED BY <1>1, StepStep, ResolverStep, PlacedStep, StreamStep, BehindInvStep, ApplyInvStep,
           ClearedInvStep, HeldInvStep, EntryStep, BareInvStep
        DEF PipelineInv

LEMMA PipelineInvariant == PipelineSpec => []PipelineInv
BY PipelineInvInit, PipelineInvStep, PTL DEF PipelineSpec

\* In a link from end to end the sections, with .reloc behind them, are as far
\* apart as in Link alone: no other stage and no length of .reloc moves them.
THEOREM PipelineSectionsApart == PipelineSpec => []LinkedApart
<1>1. PipelineInv => LinkedApart
  BY LinkApart DEF PipelineInv, PlacedInv
<1> QED BY <1>1, PipelineInvariant, PTL

\* The headers of an image from end to end agree with its sections, with the
\* .reloc that the relocations of this link need.
THEOREM PipelineHeadersRight == PipelineSpec => []HeadersRight
<1>1. PipelineInv => HeadersRight
  BY LinkHeaders DEF PipelineInv, PlacedInv
<1> QED BY <1>1, PipelineInvariant, PTL

\* The table in use while relocations and entry are resolved knows every global name.
LEMMA TableInUse ==
  ASSUME PipelineInv, step \notin {"resolve", "failed"}
  PROVE  /\ Resolver!CheckInv /\ missing = {} /\ resPc = "ok"
         /\ DOMAIN tab = Resolver!Promise!GlobalNames
<1>1. resPc = "ok" /\ Resolver!ResolveInv
  BY DEF PipelineInv, StepInv
<1>2. Resolver!CheckInv /\ rowAt = Len(job.rows) + 1 /\ resPc = Resolver!Verdict /\ Resolver!ResolveTypeOK
  BY <1>1 DEF Resolver!ResolveInv
<1>3. missing = {}
  BY <1>1, <1>2 DEF Resolver!Verdict
<1> QED BY <1>1, <1>2, <1>3, RowsTyped, Resolver!NamesKept

LEMMA EntryFound ==
  ASSUME PipelineInv, step = "emitted", NEW j \in Symbols!Promise!Definitions(job.entry),
         job.rows[j].kind = "defined", Input(job.rows[j]) \in Kept
  PROVE  ImageAddresses(job.rows[j]) = {entryRVA}
<1> DEFINE row == job.rows[j]
           i   == Input(row)
<1>1. /\ j \in DOMAIN job.rows /\ Resolver!Defines(j) /\ row.name = job.entry
  BY SameDefinitions DEF Resolver!Definitions, Resolver!Promise!Definitions, Resolver!Defines
<1>2. tab[job.entry] = Resolver!EntryOf(row)
  BY <1>1, TableInUse DEF Resolver!CheckInv
<1>3. row.obj /= 0
  <2>1. job.first \in Seq(Nat) /\ row.obj \in DOMAIN job.first
    BY <1>1, JobTyped DEF PipelineInv
  <2> QED BY <2>1, LenProperties
<1>4. SectionOf(tab[job.entry]) = i /\ tab[job.entry].value = row.value
  BY <1>2, <1>3 DEF Resolver!EntryOf, Resolver!Promise!EntryOf, SectionOf, Input
<1>5. entryRVA = ResolveRVA(i, row.value)
  BY <1>4 DEF PipelineInv, EntryInv, EntryAddress
<1>6. pc = "laid" /\ image.table = out
  BY DEF PipelineInv, StepInv, PlacedInv, LinkInv, Emission
<1>7. DOMAIN where = Kept /\ {m \in DOMAIN out : i \in out[m].from} = {where[i]}
  BY <1>6 DEF PipelineInv, PlacedInv, WhereHome
<1>8. i \in DOMAIN where /\ i \in DOMAIN offIn
  BY <1>6, <1>7, HomeOf DEF PipelineInv
<1>9. ResolveRVA(i, row.value) = out[where[i]].rva + offIn[i] + row.value
  BY <1>8 DEF ResolveRVA, OutOf
<1> HIDE DEF i, row
<1>10. ImageAddresses(row) = {out[m].rva + offIn[i] + row.value : m \in {where[i]}}
  BY <1>6, <1>7 DEF ImageAddresses, i, row
<1> QED BY <1>5, <1>9, <1>10 DEF row

\* For every link: the entry point of an image is the address at which its section
\* table has the byte that the one definition of the entry symbol names.
THEOREM PipelineEntryMeant == PipelineSpec => []EntryMeant
<1>1. PipelineInv => EntryMeant
  BY EntryFound DEF EntryMeant
<1> QED BY <1>1, PipelineInvariant, PTL

-------------------------------------------------------------------------------
(* When Link refuses, and what an image that is written cannot contain *)

\* No two relocations that ApplyRelocations has tried patch the same field.
SlotsApart == relPc \in {"linked", "error"} => Patcher!FieldsApart

LEMMA SameMisfit == \A r : Patches!Misfit(r) <=> Patcher!Misfit(r)
<1>1. \A k : Patches!Placed(k) = Patcher!Placed(k)
  BY SameAddresses DEF Patches!Placed, Patcher!Placed
<1>2. \A r : Patches!OrigAddend(r) = Patcher!OrigAddend(r)
  BY SameAddresses DEF Patches!OrigAddend, Patcher!OrigAddend
<1>3. \A r : Patches!Width(r.kind) = Patcher!Width(r.kind)
  BY SameDisplacement
<1>4. \A d : Patches!InRange(d) <=> Patcher!InRange(d)
  BY DEF Patches!InRange, Patcher!InRange
<1> TAKE r
<1>5. Patches!OrigAddend(r) = Patcher!OrigAddend(r) /\ Patches!Width(r.kind) = Patcher!Width(r.kind)
  BY <1>2, <1>3
<1>6. /\ Patches!PatchVA(r) = Patcher!PatchVA(r) /\ Patches!TargetVA(r) = Patcher!TargetVA(r)
  BY SameAddresses
<1>7. (\A h \in Patches!Placed({"hi20"}) :
         Patches!Resolves(Patches!Relocs[h]) =>
           Patches!PatchVA(Patches!Relocs[h]) /= Patches!TargetVA(r))
        <=> (\A h \in Patcher!Placed({"hi20"}) :
               Patcher!Resolves(Patcher!Relocs[h]) =>
                 Patcher!PatchVA(Patcher!Relocs[h]) /= Patcher!TargetVA(r))
  BY <1>1, SameAddresses
<1> QED BY <1>4, <1>5, <1>6, <1>7 DEF Patches!Misfit, Patcher!Misfit

\* Where the objects themselves say that a symbol resolves.
LEMMA ResolvableFound ==
  ASSUME PipelineInv, step \notin {"resolve", "failed"}, NEW s
  PROVE  Symbols!Lookup(s).kind \in {"defined", "absolute"} <=> Resolvable(s)
<1>1. CASE s \notin DOMAIN job.rows
  BY <1>1 DEF Symbols!Lookup, Symbols!LookupError, Resolvable
<1>2. CASE s \in DOMAIN job.rows /\ job.rows[s].class = "static"
  <2>1. job.rows[s] \in Resolver!Symbol
    BY <1>2, LenProperties, ElementOfSeq DEF PipelineInv, Resolver!ResolveInv, Resolver!ResolveTypeOK
  <2>2. Symbols!Lookup(s).kind = job.rows[s].kind
    BY <1>2 DEF Symbols!Lookup, Symbols!EntryOf, Symbols!Promise!EntryOf
  <2>3. job.rows[s].kind \in {"undefined", "defined", "absolute"}
    BY <2>1 DEF Resolver!Symbol, Resolver!Promise!Symbol
  <2> QED BY <1>2, <2>2, <2>3 DEF Resolvable
<1>3. CASE s \in DOMAIN job.rows /\ job.rows[s].class /= "static"
  <2> DEFINE n == job.rows[s].name
  <2>1. DOMAIN tab = Symbols!Promise!GlobalNames
    BY TableInUse DEF Resolver!Promise!GlobalNames, Symbols!Promise!GlobalNames
  <2>2. n \in DOMAIN tab => tab[n].kind \in {"defined", "absolute"}
    <3>1. n \in DOMAIN tab => tab[n] \in Resolver!Resolved
      BY DEF PipelineInv, Resolver!ResolveInv, Resolver!ResolveTypeOK
    <3> QED BY <3>1 DEF Resolver!Resolved, Resolver!Promise!Resolved
  <2>3. Symbols!Lookup(s) = IF n \in DOMAIN tab THEN tab[n] ELSE Symbols!LookupError
    BY <1>3 DEF Symbols!Lookup
  <2>4. Resolvable(s) <=> n \in Symbols!Promise!GlobalNames
    BY <1>3 DEF Resolvable
  <2> HIDE DEF n
  <2> QED BY <2>1, <2>2, <2>3, <2>4 DEF Symbols!LookupError
<1> QED BY <1>1, <1>2, <1>3

\* Resolve refuses only objects that deserve it; it accepts no others unless a weak
\* symbol hides a reference.
LEMMA SymbolsAgree ==
  ASSUME Resolver!ResolveInv, resPc \in Symbols!Outcomes
  PROVE  /\ resPc /= "ok" => Symbols!Promise!Verdict = resPc
         /\ Symbols!Promise!WeakApart => Symbols!Promise!Verdict = resPc
<1>1. Symbols!Promise!Ambiguous <=> Resolver!Promise!Ambiguous
  BY DEF Symbols!Promise!Ambiguous, Resolver!Promise!Ambiguous, Symbols!Promise!Defines,
     Resolver!Promise!Defines
<1>2. Symbols!Promise!Unsupplied = Resolver!Promise!Unsupplied
  BY DEF Symbols!Promise!Unsupplied, Resolver!Promise!Unsupplied, Symbols!Promise!References,
     Resolver!Promise!References, Symbols!Promise!Supplied, Resolver!Promise!Supplied,
     Symbols!Promise!Definitions, Resolver!Promise!Definitions, Symbols!Promise!Defines,
     Resolver!Promise!Defines
<1>3. Symbols!Promise!Verdict = Resolver!Promise!Verdict
  BY <1>1, <1>2 DEF Symbols!Promise!Verdict, Resolver!Promise!Verdict
<1>4. Symbols!Promise!WeakApart <=> Resolver!Promise!WeakApart
  BY <1>2 DEF Symbols!Promise!WeakApart, Resolver!Promise!WeakApart, Symbols!Promise!WeakName,
     Resolver!Promise!WeakName, Symbols!Promise!Weak, Resolver!Promise!Weak
<1>5. CASE resPc = "duplicate"
  <2>1. Resolver!Promise!Ambiguous
    BY <1>5 DEF Resolver!ResolveInv
  <2> QED BY <1>3, <1>5, <2>1 DEF Resolver!Promise!Verdict
<1>6. CASE resPc \in {"ok", "unresolved"}
  <2>1. /\ Resolver!CheckInv /\ rowAt = Len(job.rows) + 1 /\ Resolver!Verdict = resPc
        /\ Resolver!ResolveTypeOK
    BY <1>6 DEF Resolver!ResolveInv
  <2>2. /\ resPc /= "ok" => Resolver!Promise!Verdict = resPc
        /\ Resolver!Promise!WeakApart => Resolver!Promise!Verdict = resPc
    BY <2>1, RowsTyped, Resolver!VerdictKept
  <2> QED BY <1>3, <1>4, <2>2
<1> QED BY <1>5, <1>6 DEF Symbols!Outcomes

\* The entry can be used exactly if it has a definition in a section of the objects.
LEMMA EntryDefined ==
  ASSUME PipelineInv, step \notin {"resolve", "failed"}
  PROVE  EntryUsable(job.entry) <=>
           \E j \in Symbols!Promise!Definitions(job.entry) : job.rows[j].kind = "defined"
<1>1. Resolver!CheckInv
  BY TableInUse
<1>2. \A j \in Resolver!Definitions(job.entry) :
        /\ j \in DOMAIN job.rows /\ Resolver!Defines(j) /\ job.rows[j].name = job.entry
  BY DEF Resolver!Definitions, Resolver!Promise!Definitions, Resolver!Defines
<1>3. \A j \in Resolver!Definitions(job.entry) :
        job.entry \in DOMAIN tab /\ tab[job.entry].kind = job.rows[j].kind
  <2> TAKE j \in Resolver!Definitions(job.entry)
  <2>1. job.entry \in DOMAIN tab /\ tab[job.entry] = Resolver!EntryOf(job.rows[j])
    BY <1>1, <1>2 DEF Resolver!CheckInv
  <2> QED BY <2>1 DEF Resolver!EntryOf, Resolver!Promise!EntryOf
<1>4. ASSUME EntryUsable(job.entry)
      PROVE  Resolver!Definitions(job.entry) /= {}
  BY <1>1, <1>4
     DEF EntryUsable, Resolver!CheckInv, Resolver!AbsoluteZero, Resolver!Promise!AbsoluteZero
<1> QED BY <1>3, <1>4, SameDefinitions DEF EntryUsable

\* A link that has failed was to be refused.
FailInv == step = "failed" /\ SlotsApart => Refusable

\* One that has panicked had nothing to lay out, and nothing else was wrong with it.
PanicInv == step = "panicked" => Kept = {} /\ (Symbols!Promise!WeakApart => ~Refusable)

LEMMA RefusableSame ==
  ASSUME UNCHANGED <<job, secs, pc, prog>>
  PROVE  /\ Refusable' <=> Refusable
         /\ Symbols!Promise!WeakApart' <=> Symbols!Promise!WeakApart
<1>1. Symbols!Promise!Unsupplied' = Symbols!Promise!Unsupplied
  BY DEF Symbols!Promise!Unsupplied, Symbols!Promise!References, Symbols!Promise!Supplied,
     Symbols!Promise!Definitions, Symbols!Promise!Defines
<1>2. Symbols!Promise!Verdict' = Symbols!Promise!Verdict
  BY <1>1 DEF Symbols!Promise!Verdict, Symbols!Promise!Ambiguous, Symbols!Promise!Defines
<1>3. \A n : Symbols!Promise!Definitions(n)' = Symbols!Promise!Definitions(n)
  BY DEF Symbols!Promise!Definitions, Symbols!Promise!Defines
<1>4. \A s : Resolvable(s)' <=> Resolvable(s)
  BY DEF Resolvable, Symbols!Promise!GlobalNames
<1>5. \A r : Patches!Misfit(r)' <=> Patches!Misfit(r)
  BY DEF Patches!Misfit, Patches!Placed, Patches!Relocs, Patches!Resolves, Patches!TargetVA,
     Patches!PatchVA, Patches!OrigAddend, Patches!AddendIn
<1>6. Kept' = Kept
  BY DEF Kept
<1>7. Refusable' <=> Refusable
  BY <1>2, <1>3, <1>4, <1>5, <1>6 DEF Refusable
<1>8. Symbols!Promise!WeakApart' <=> Symbols!Promise!WeakApart
  BY <1>1 DEF Symbols!Promise!WeakApart, Symbols!Promise!WeakName, Symbols!Promise!Weak
<1> QED BY <1>7, <1>8

\* ApplyRelocations stops at a relocation that was to be refused.
LEMMA ErrorRefusable ==
  ASSUME PipelineInv, step = "relocate", relPc = "error", Patcher!FieldsApart
  PROVE  Refusable
<1>1. StepInv /\ StreamInv /\ PlacedInv /\ Handing /\ Patcher!RelocateInv /\ step \in Linking
  BY DEF PipelineInv, StreamInv, Linking
<1>2. Patcher!Refused
  BY <1>1 DEF Patcher!RelocateInv, Patcher!CauseInv
<1>3. CASE \E i, j \in DOMAIN prog.machines : prog.machines[i] /= prog.machines[j]
  <2>1. \E o \in DOMAIN job.machines : job.machines[o] /= job.machines[1]
    BY <1>1, <1>3 DEF Handing
  <2> QED BY <2>1 DEF Refusable
<1>4. ASSUME NEW i \in Patcher!Placed(Patcher!Kinds),
             \/ ~Patcher!Resolves(Patcher!Relocs[i]) \/ Patcher!Relocs[i].kind = "other"
             \/ Patcher!Misfit(Patcher!Relocs[i])
      PROVE  Refusable
  <2> DEFINE r == job.relocs[i]
             h == prog.relocs[i]
  <2>1. i \in DOMAIN job.relocs /\ h = Handed(r) /\ h.placed /\ Patcher!Relocs[i] = h
    BY <1>1, <1>4, HandedOver DEF Patcher!Placed, Patcher!Relocs
  <2>2. IsPlaced(r) /\ h.kind = r.kind /\ h.target.kind = Symbols!Lookup(r.sym).kind
    BY <2>1 DEF Handed, TargetOf
  <2>3. pc = "laid" /\ r.sec \in Kept
    BY <1>1, <2>2 DEF StepInv, PlacedInv, WhereHome, IsPlaced
  <2> HIDE DEF r, h
  <2>4. ~Patcher!Resolves(h) => ~Resolvable(r.sym)
    BY <2>2, ResolvableFound DEF Patcher!Resolves
  <2>5. Patcher!Misfit(h) => Patches!Misfit(h)
    BY SameMisfit
  <2>6. r.kind = "other" \/ ~Resolvable(r.sym) \/ (pc = "laid" /\ Patches!Misfit(h))
    BY <1>4, <2>1, <2>2, <2>3, <2>4, <2>5
  <2> QED BY <2>1, <2>3, <2>6 DEF Refusable, r, h
<1> QED BY <1>2, <1>3, <1>4 DEF Patcher!Refused

LEMMA FailInvStep ==
  PipelineInv /\ FailInv /\ [PipelineNext \/ PipelineReturned]_pipelineVars => FailInv'
<1> SUFFICES ASSUME PipelineInv, FailInv,
                    PipelineNext \/ PipelineReturned \/ UNCHANGED pipelineVars,
                    step' = "failed", SlotsApart'
             PROVE  Refusable'
  BY DEF FailInv
<1>1. CASE NoObjects
  BY <1>1 DEF NoObjects, Refusable
<1>2. CASE SymbolsResolved
  <2>1. /\ resPc \in Symbols!Outcomes /\ resPc /= "ok"
        /\ UNCHANGED <<job, secs, pc, prog>>
    BY <1>2 DEF SymbolsResolved, linkVars, layoutVars, relocation
  <2>2. Refusable
    BY <2>1, SymbolsAgree DEF PipelineInv, Refusable
  <2> QED BY <2>1, <2>2, RefusableSame
<1>3. CASE RelocationsApplied
  <2>1. /\ step = "relocate" /\ relPc = "error" /\ relPc' = relPc
        /\ UNCHANGED <<job, secs, pc, prog>>
    BY <1>3 DEF RelocationsApplied, linkVars, layoutVars, relocation
  <2>2. Patcher!FieldsApart
    BY <2>1
       DEF SlotsApart, Patcher!FieldsApart, Patcher!Writes, Patcher!Relocs
  <2> QED BY <2>1, <2>2, ErrorRefusable, RefusableSame
<1>4. CASE resolveEntryRVA
  <2>1. step = "entry" /\ ~EntryUsable(job.entry) /\ UNCHANGED <<job, secs, pc, prog>>
    BY <1>4 DEF resolveEntryRVA, linkVars, layoutVars, relocation
  <2>2. Refusable
    BY <2>1, EntryDefined DEF Refusable
  <2> QED BY <2>1, <2>2, RefusableSame
<1>5. CASE PipelineReturned \/ UNCHANGED pipelineVars
  <2>1. UNCHANGED <<job, secs, pc, prog, relPc, step>>
    BY <1>5 DEF PipelineReturned, pipelineVars, linkVars, layoutVars, relocation
  <2>2. SlotsApart
    BY <2>1 DEF SlotsApart, Patcher!FieldsApart, Patcher!Writes, Patcher!Relocs
  <2> QED BY <2>1, <2>2, RefusableSame DEF FailInv
<1> QED BY <1>1, <1>2, <1>3, <1>4, <1>5
        DEF PipelineNext, ResolveSymbols, LayOut, LaidOut, ApplyRelocations, BuildRelocSection,
        AppendReloc, Emit, LoadImage

\* A relocation of a kept section, as ApplyRelocations has it.
LEMMA SlotHanded ==
  ASSUME PipelineInv, step = "emitted", NEW i \in DOMAIN job.relocs, job.relocs[i].sec \in Kept
  PROVE  LET r == job.relocs[i]
             h == prog.relocs[i]
         IN  /\ i \in DOMAIN Patcher!Relocs /\ Patcher!Relocs[i] = h
             /\ h.placed /\ h.kind = r.kind /\ h.elf = r.elf /\ h.addend = r.addend
             /\ h.site = ResolveRVA(r.sec, r.off) /\ h.room = Room(r) /\ h.target = TargetOf(r)
             /\ Passed(h) /\ r \in Reloc /\ r.sec \in DOMAIN where
             /\ Symbols!Lookup(r.sym).kind \in {"defined", "absolute"}
<1> DEFINE r == job.relocs[i]
           h == prog.relocs[i]
<1>1. StepInv /\ StreamInv /\ PlacedInv /\ ApplyInv /\ Cleared /\ step \in Linking /\ step \in Streaming
  BY DEF PipelineInv, ClearedInv, Linking, Streaming
<1>2. relPc = "linked" /\ pc = "laid"
  BY <1>1 DEF StreamInv, StepInv, PlacedInv, LinkInv
<1>3. /\ DOMAIN prog.relocs = DOMAIN job.relocs /\ h = Handed(r) /\ i < at
  <2>1. /\ Len(job.relocs) \in Nat /\ DOMAIN job.relocs = 1 .. Len(job.relocs)
        /\ DOMAIN prog.relocs = DOMAIN job.relocs /\ h = Handed(r)
        /\ at = Len(job.relocs) + 1
    BY <1>1, <1>2, HandedOver
  <2> QED BY <2>1
<1>4. r.sec \in DOMAIN where
  BY <1>1, <1>2 DEF PlacedInv, WhereHome
<1>5. h = [placed |-> TRUE, site |-> ResolveRVA(r.sec, r.off), room |-> Room(r), kind |-> r.kind,
           target |-> TargetOf(r), elf |-> r.elf, addend |-> r.addend]
  BY <1>3, <1>4 DEF Handed, IsPlaced
<1>6. Passed(h)
  BY <1>1, <1>3 DEF ApplyInv
<1>7. r \in Reloc
  BY <1>1, JobTyped, LenProperties, ElementOfSeq
<1>8. Symbols!Lookup(r.sym).kind \in {"defined", "absolute"}
  BY <1>1 DEF Cleared
<1>9. i \in DOMAIN Patcher!Relocs /\ Patcher!Relocs[i] = h
  BY <1>3 DEF Patcher!Relocs
<1> HIDE DEF h, r
<1>10. /\ h.placed /\ h.kind = r.kind /\ h.elf = r.elf /\ h.addend = r.addend
       /\ h.site = ResolveRVA(r.sec, r.off) /\ h.room = Room(r) /\ h.target = TargetOf(r)
  BY <1>5
<1> QED BY <1>4, <1>6, <1>7, <1>8, <1>9, <1>10 DEF h, r

LEMMA NothingRefusable ==
  ASSUME PipelineInv, SlotsApart, WellFlagged, Symbols!Promise!WeakApart, step = "emitted"
  PROVE  ~Refusable
<1>1. /\ Cleared /\ StepInv /\ StreamInv /\ PlacedInv /\ step \in Linking
      /\ relPc = "linked" /\ resPc = "ok" /\ Resolver!ResolveInv
      /\ Handing /\ Patcher!RelocateInv
  BY DEF PipelineInv, ClearedInv, StepInv, StreamInv, Linking, Streaming
<1>2. job.machines /= << >> /\ \A o \in DOMAIN job.machines : job.machines[o] = job.machines[1]
  BY <1>1 DEF StepInv, Cleared
<1>3. Symbols!Promise!Verdict = "ok"
  BY <1>1, SymbolsAgree DEF Symbols!Outcomes
<1>4. \E j \in Symbols!Promise!Definitions(job.entry) : job.rows[j].kind = "defined"
  BY EntryDefined DEF PipelineInv, EntryInv, EntryUsable
<1>5. ~Patcher!Refused
  BY <1>1, HandableTyped, WidthsAssumption, Patcher!LinkedFits DEF SlotsApart
<1>6. ASSUME NEW i \in DOMAIN job.relocs, job.relocs[i].sec \in Kept
      PROVE  LET r == job.relocs[i] IN
             /\ r.kind /= "other"
             /\ r.kind /= "none" => ~secs[r.sec].bss
             /\ Resolvable(r.sym)
             /\ ~Patches!Misfit(prog.relocs[i])
  <2> DEFINE r == job.relocs[i]
  <2>1. /\ r.kind /= "other" /\ Symbols!Lookup(r.sym).kind \in {"defined", "absolute"}
        /\ r.kind /= "none" => ~secs[r.sec].bss
    BY <1>1, <1>6 DEF Cleared
  <2>2. /\ i \in DOMAIN Patcher!Relocs /\ Patcher!Relocs[i] = prog.relocs[i]
        /\ prog.relocs[i].placed /\ prog.relocs[i].kind = r.kind /\ r \in Reloc
    BY <1>6, SlotHanded
  <2> HIDE DEF r
  <2>3. i \in Patcher!Placed(Patcher!Kinds)
    BY <2>2 DEF Patcher!Placed, Patcher!Kinds, Patches!Kinds, Reloc
  <2>4. ~Patcher!Misfit(prog.relocs[i])
    BY <1>5, <2>2, <2>3 DEF Patcher!Refused
  <2> QED BY <2>1, <2>4, ResolvableFound, SameMisfit DEF r
<1> QED BY <1>2, <1>3, <1>4, <1>6 DEF Refusable

\* Where the entry panics: any section that was kept would have been an output section.
LEMMA NothingLaid ==
  ASSUME PipelineInv, step = "entry", NEW ref, ResolvePanics(ref)
  PROVE  Kept = {}
<1> SUFFICES ASSUME NEW i \in Kept PROVE FALSE
  OBVIOUS
<1>1. pc = "laid" /\ DOMAIN where = Kept
  BY DEF PipelineInv, StepInv, PlacedInv, LinkInv, WhereHome
<1>2. where[i] \in DOMAIN out /\ out \in Seq(Merged)
  BY <1>1, HomeOf DEF PipelineInv, PlacedInv, LinkInv, TypeInv, LayoutTypeOK
<1>3. 1 \in DOMAIN out
  BY <1>2, LenProperties
<1>4. CASE ref \in DOMAIN where
  BY <1>1, <1>4, HomeOf DEF PipelineInv, ResolvePanics, OutOf
<1>5. CASE ref \notin DOMAIN where
  BY <1>3, <1>5 DEF ResolvePanics, OutOf
<1> QED BY <1>4, <1>5

LEMMA NothingWrong ==
  ASSUME PipelineInv, step = "entry", EntryUsable(job.entry), Kept = {},
         Symbols!Promise!WeakApart
  PROVE  ~Refusable
<1>1. Cleared /\ resPc = "ok" /\ job.machines /= << >> /\ Resolver!ResolveInv
  BY DEF PipelineInv, ClearedInv, StepInv
<1>2. \A o \in DOMAIN job.machines : job.machines[o] = job.machines[1]
  BY <1>1 DEF Cleared
<1>3. Symbols!Promise!Verdict = "ok"
  BY <1>1, SymbolsAgree DEF Symbols!Outcomes
<1>4. \E j \in Symbols!Promise!Definitions(job.entry) : job.rows[j].kind = "defined"
  BY EntryDefined
<1> QED BY <1>1, <1>2, <1>3, <1>4 DEF Refusable

LEMMA PanicInvStep ==
  PipelineInv /\ PanicInv /\ [PipelineNext \/ PipelineReturned]_pipelineVars => PanicInv'
<1> SUFFICES ASSUME PipelineInv, PanicInv,
                    PipelineNext \/ PipelineReturned \/ UNCHANGED pipelineVars,
                    step' = "panicked"
             PROVE  (Kept = {} /\ (Symbols!Promise!WeakApart => ~Refusable))'
  BY DEF PanicInv
<1>1. CASE resolveEntryRVA
  <2>1. /\ step = "entry" /\ EntryUsable(job.entry) /\ ResolvePanics(SectionOf(tab[job.entry]))
        /\ UNCHANGED <<job, secs, pc, prog>>
    BY <1>1 DEF resolveEntryRVA, linkVars, layoutVars, relocation
  <2>2. Kept = {} /\ (Symbols!Promise!WeakApart => ~Refusable)
    BY <2>1, NothingLaid, NothingWrong
  <2>3. Kept' = Kept
    BY <2>1 DEF Kept
  <2> QED BY <2>1, <2>2, <2>3, RefusableSame
<1>2. CASE PipelineReturned \/ UNCHANGED pipelineVars
  <2>1. UNCHANGED <<job, secs, pc, prog, step>>
    BY <1>2 DEF PipelineReturned, pipelineVars, linkVars, layoutVars, relocation
  <2>2. Kept' = Kept
    BY <2>1 DEF Kept
  <2> QED BY <2>1, <2>2, RefusableSame DEF PanicInv
<1> QED BY <1>1, <1>2
        DEF PipelineNext, NoObjects, ResolveSymbols, SymbolsResolved, LayOut, LaidOut,
        ApplyRelocations, RelocationsApplied, BuildRelocSection, AppendReloc, Emit, LoadImage,
        PipelineInv, StepInv

LEMMA VerdictInvariant == PipelineSpec => [](PipelineInv /\ FailInv /\ PanicInv)
<1>1. PipelineInit => FailInv /\ PanicInv
  BY DEF PipelineInit, FailInv, PanicInv
<1> QED BY <1>1, PipelineInvInit, PipelineInvStep, FailInvStep, PanicInvStep, PTL
        DEF PipelineSpec

\* An image that is written has a section to hold the entry.
LEMMA EmittedKept ==
  ASSUME PipelineInv, step \in {"emit", "emitted"}
  PROVE  out /= << >> /\ Kept /= {}
<1>1. OutOf(SectionOf(tab[job.entry])) \in DOMAIN out
  BY DEF PipelineInv, EntryInv, ResolvePanics
<1>2. out /= << >>
  BY <1>1, EmptySeq
<1> QED BY <1>2 DEF PipelineInv, BareInv

\* For every link whose relocations patch different fields, judged by the documented
\* rules, which know no order of objects or symbols: whatever Link refuses forbids an
\* image, and unless a weak symbol shares the name of a reference that must be refused
\* (WeakApart) whatever forbids one is refused.  No foreign machine, no duplicate or unresolved symbol, no entry without a
\* definition, no relocation of an unknown kind, of an uninitialised section, against
\* an unknown symbol or out of range gets past all of the stages, and no stage refuses
\* anything else; what it does not refuse becomes an image if it has a byte to lay out.
THEOREM PipelineVerdictRight == PipelineSpec => [](SlotsApart /\ WellFlagged => VerdictRight)
<1>1. PipelineInv /\ FailInv /\ PanicInv => (SlotsApart /\ WellFlagged => VerdictRight)
  BY NothingRefusable, EmittedKept
     DEF FailInv, PanicInv, VerdictRight, FailsRightly, EmitsRightly, PanicsRightly
<1> QED BY <1>1, VerdictInvariant, PTL

-------------------------------------------------------------------------------
(* What the slots of a loaded image say *)

\* The symbol that a relocation finds is the row that the object file meant.
LEMMA MeantLookup ==
  ASSUME PipelineInv, step = "emitted", NEW s, NEW row \in Meant(s),
         Symbols!Lookup(s).kind \in {"defined", "absolute"}
  PROVE  Symbols!Lookup(s) = Symbols!EntryOf(row) /\ row.obj /= 0
<1>1. s \in DOMAIN job.rows
  BY DEF Symbols!Lookup, Symbols!LookupError
<1>2. \A j \in DOMAIN job.rows : job.rows[j].obj /= 0
  <2> TAKE j \in DOMAIN job.rows
  <2>1. job.first \in Seq(Nat) /\ job.rows[j].obj \in DOMAIN job.first
    BY JobTyped DEF PipelineInv
  <2> QED BY <2>1, LenProperties
<1>3. CASE job.rows[s].class = "static"
  BY <1>1, <1>2, <1>3 DEF Meant, Symbols!Lookup
<1>4. CASE job.rows[s].class /= "static"
  <2> DEFINE n == job.rows[s].name
  <2>1. PICK j \in Resolver!Definitions(n) : row = job.rows[j]
    BY <1>4, SameDefinitions DEF Meant
  <2>2. j \in DOMAIN job.rows /\ Resolver!Defines(j) /\ job.rows[j].name = n
    BY <2>1 DEF Resolver!Definitions, Resolver!Promise!Definitions, Resolver!Defines
  <2>3. tab[n] = Resolver!EntryOf(row)
    BY <2>1, <2>2, TableInUse DEF Resolver!CheckInv
  <2>4. Symbols!Lookup(s) = tab[n]
    BY <1>1, <1>4 DEF Symbols!Lookup, Symbols!LookupError
  <2>5. Resolver!EntryOf(row) = Symbols!EntryOf(row)
    BY DEF Resolver!EntryOf, Resolver!Promise!EntryOf, Symbols!EntryOf, Symbols!Promise!EntryOf
  <2> QED BY <1>2, <2>1, <2>2, <2>3, <2>4, <2>5
<1> QED BY <1>3, <1>4

\* An address of a row in the image is the one that ResolveRVA has for it.
LEMMA RowAddress ==
  ASSUME PipelineInv, step = "emitted", NEW row, NEW a \in ImageAddresses(row)
  PROVE  row.kind = "defined" /\ a = ResolveRVA(Input(row), row.value)
<1> DEFINE i == Input(row)
<1>1. image.table = out /\ pc = "laid" /\ Held
  BY DEF PipelineInv, StepInv, PlacedInv, LinkInv, Emission, HeldInv
<1>2. PICK m \in DOMAIN out : /\ row.kind = "defined" /\ i \in out[m].from
                              /\ a = out[m].rva + offIn[i] + row.value
  BY <1>1 DEF ImageAddresses
<1>3. i \in Kept
  BY <1>1, <1>2 DEF Held
<1>4. DOMAIN where = Kept /\ {k \in DOMAIN out : i \in out[k].from} = {where[i]}
  BY <1>1, <1>3 DEF PipelineInv, PlacedInv, WhereHome
<1>5. where[i] = m /\ i \in DOMAIN where /\ i \in DOMAIN offIn
  BY <1>1, <1>2, <1>3, <1>4, HomeOf DEF PipelineInv
<1> HIDE DEF i
<1>6. ResolveRVA(i, row.value) = out[m].rva + offIn[i] + row.value
  BY <1>5 DEF ResolveRVA, OutOf
<1> QED BY <1>2, <1>6 DEF i

\* What it refers to is where the image has the row that was meant.
LEMMA TargetMeant ==
  ASSUME PipelineInv, step = "emitted", NEW i \in DOMAIN job.relocs, job.relocs[i].sec \in Kept,
         NEW row \in Meant(job.relocs[i].sym), NEW a \in ImageAddresses(row)
  PROVE  prog.relocs[i].target = [kind |-> "defined", value |-> a]
<1> DEFINE r == job.relocs[i]
           e == Symbols!Lookup(r.sym)
<1>1. prog.relocs[i].target = TargetOf(r) /\ e.kind \in {"defined", "absolute"}
  BY SlotHanded
<1>2. e = Symbols!EntryOf(row) /\ row.obj /= 0
  BY <1>1, MeantLookup
<1>3. row.kind = "defined" /\ a = ResolveRVA(Input(row), row.value)
  BY RowAddress
<1>4. e.kind = "defined" /\ e.obj = row.obj /\ e.sec = row.sec /\ e.value = row.value
  BY <1>2, <1>3 DEF Symbols!EntryOf, Symbols!Promise!EntryOf
<1> HIDE DEF e
<1>5. SectionOf(e) = Input(row)
  BY <1>2, <1>4 DEF SectionOf, Input
<1>6. TargetRVA(e) = a
  BY <1>3, <1>4, <1>5 DEF TargetRVA
<1>7. TargetOf(r) = [kind |-> e.kind, value |-> TargetRVA(e)]
  BY <1>4 DEF TargetOf, e
<1> QED BY <1>1, <1>4, <1>6, <1>7

\* A slot that is patched is in the file.
LEMMA SlotOnDisk ==
  ASSUME PipelineInv, WellFlagged, step = "emitted", NEW i \in DOMAIN job.relocs,
         job.relocs[i].sec \in Kept, job.relocs[i].kind /= "none"
  PROVE  OnDisk(prog.relocs[i].site, Patches!Width(job.relocs[i].kind))
<1> DEFINE r == job.relocs[i]
           m == out[where[r.sec]]
           n == Patches!Width(r.kind)
<1>1. /\ prog.relocs[i].site = ResolveRVA(r.sec, r.off) /\ r.sec \in DOMAIN where /\ r \in Reloc
      /\ ~(Room(r) < n)
  BY SlotHanded DEF Passed
<1>2. pc = "laid" /\ image.table = out /\ Held
  BY DEF PipelineInv, StepInv, PlacedInv, LinkInv, Emission, HeldInv
<1>3. where[r.sec] \in DOMAIN out /\ r.sec \in DOMAIN offIn /\ offIn[r.sec] \in Nat /\ m \in Merged
  BY <1>1, <1>2, HomeOf DEF PipelineInv
<1>4. m.rva \in Nat /\ m.raw \in Nat /\ m.data \in Nat /\ r.off \in Nat /\ n \in {2, 4, 8}
  BY <1>1, <1>3 DEF Merged, Reloc, Patches!Width
<1>5. m.data <= m.raw
  BY <1>2, <1>3 DEF Held
<1>6. ResolveRVA(r.sec, r.off) = m.rva + offIn[r.sec] + r.off /\ Room(r) = m.data - (offIn[r.sec] + r.off)
  BY <1>1, <1>3 DEF ResolveRVA, OutOf, Room
<1> DEFINE site == prog.relocs[i].site
<1> HIDE DEF m, n, site
<1>7. m.rva <= site /\ site + n <= m.rva + m.raw /\ site + n <= m.rva + m.data
  BY <1>1, <1>3, <1>4, <1>5, <1>6 DEF site
<1> QED BY <1>2, <1>3, <1>7 DEF OnDisk, m, n, site

\* The loader applies to a slot what ApplyRelocations has listed for it.
LEMMA TimesApplied ==
  ASSUME PipelineInv, phase = "loaded", NEW site
  PROVE  /\ Times(site, 10) = Patcher!Times(site, "DIR64")
         /\ Times(site, 3) = Patcher!Times(site, "HIGHLOW")
<1> DEFINE L == [i \in DOMAIN base |-> [rva |-> base[i].rva, type |-> TypeCode[base[i].type]]]
<1>1. step = "emitted" /\ Reader!StreamInv /\ Patcher!RelocateInv
  BY DEF PipelineInv, StreamInv, Linking, Streaming
<1>2. \A x : Reader!Count(x, applied) = Reader!Count(x, L)
  BY <1>1, ListsTyped, Reader!LoadedInOrder
<1>3. \A i \in DOMAIN base : base[i] \in Found
  BY <1>1, BaseTyped
<1>4. {i \in DOMAIN L : L[i] = [rva |-> site, type |-> 10]}
        = {i \in DOMAIN base : base[i] = [rva |-> site, type |-> "DIR64"]}
  BY <1>3 DEF Found, TypeCode
<1>5. {i \in DOMAIN L : L[i] = [rva |-> site, type |-> 3]}
        = {i \in DOMAIN base : base[i] = [rva |-> site, type |-> "HIGHLOW"]}
  BY <1>3 DEF Found, TypeCode
<1> HIDE DEF L
<1>6. \A x, f : Reader!Count(x, f) = Cardinality({i \in DOMAIN f : f[i] = x})
  BY DEF Reader!Count, Reader!Cardinality, Cardinality
<1>7. \A t : Patcher!Times(site, t)
        = Cardinality({i \in DOMAIN base : base[i] = [rva |-> site, type |-> t]})
  BY DEF Patcher!Times, Patcher!Cardinality, Cardinality
<1>8. ASSUME NEW k, NEW t, {i \in DOMAIN L : L[i] = [rva |-> site, type |-> k]}
                           = {i \in DOMAIN base : base[i] = [rva |-> site, type |-> t]}
      PROVE  Times(site, k) = Patcher!Times(site, t)
  <2>1. Times(site, k) = Reader!Count([rva |-> site, type |-> k], applied)
    BY <1>6 DEF Times
  <2>2. Reader!Count([rva |-> site, type |-> k], L)
          = Cardinality({i \in DOMAIN L : L[i] = [rva |-> site, type |-> k]})
    BY <1>6
  <2> QED BY <1>2, <1>7, <1>8, <2>1, <2>2
<1> QED BY <1>4, <1>5, <1>8

\* What a patched slot holds is what the proofs about ApplyRelocations say of it.
LEMMA SlotLoaded ==
  ASSUME PipelineInv, Patcher!FieldsApart, phase = "loaded", NEW i \in DOMAIN job.relocs,
         job.relocs[i].sec \in Kept, job.relocs[i].kind /= "none", NEW d \in Nat
  PROVE  SlotAt(prog.relocs[i].site, d) = Patcher!Loaded(prog.relocs[i].site, d)
<1> DEFINE h == prog.relocs[i]
           t == Patcher!Times(h.site, "DIR64")
           u == Patcher!Times(h.site, "HIGHLOW")
<1>1. /\ step = "emitted" /\ relPc = "linked" /\ Patcher!RelocateInv
  BY DEF PipelineInv, StreamInv, Linking, Streaming
<1>2. /\ i \in DOMAIN Patcher!Relocs /\ Patcher!Relocs[i] = h /\ Patcher!Writes(h)
  BY <1>1, SlotHanded DEF Patcher!Writes
<1>3. Times(h.site, 10) = t /\ Times(h.site, 3) = u
  BY TimesApplied
<1>4. /\ Patcher!IsSlot(h) => Patcher!Times(h.site, Patcher!Listed(h).type) = 1
      /\ \A k : ~(Patcher!IsSlot(h) /\ k = Patcher!Listed(h).type) => Patcher!Times(h.site, k) = 0
  BY <1>1, <1>2, HandableTyped, WidthsAssumption, Patcher!TimesOwn, Patcher!TimesOther
<1>5. \/ t = 0 /\ u = 0
      \/ t = 1 /\ u = 0
      \/ t = 0 /\ u = 1
  BY <1>4 DEF Patcher!Listed
<1>6. /\ SlotAt(h.site, d) = (mem[h.site] + d * (t + u)) % Wide
      /\ Patcher!Loaded(h.site, d) = IF t > 0 THEN (mem[h.site] + d * t) % Wide
                                     ELSE (mem[h.site] + d * u) % Wide
  BY <1>3 DEF SlotAt, Patcher!Loaded
<1> HIDE DEF t, u, h
<1> QED BY <1>5, <1>6 DEF h

\* A slot as wide as a pointer is right in whole.
LEMMA LoadedWhole ==
  ASSUME Patcher!RelocateInv, NEW i \in DOMAIN Patcher!Relocs, Patcher!Relocs[i].placed,
         NEW d \in Nat
  PROVE  /\ Patcher!Loaded(Patcher!Relocs[i].site, d) \in 0 .. Wide - 1
         /\ Patcher!Loaded(Patcher!Relocs[i].site, d) % Wide
              = Patcher!Loaded(Patcher!Relocs[i].site, d)
<1> DEFINE s == Patcher!Relocs[i].site
<1>1. Wide \in Nat \ {0}
  BY WidthsAssumption
<1>2. s \in DOMAIN prog.mem /\ DOMAIN mem = DOMAIN prog.mem
  BY HandableTyped DEF Patcher!RelocateInv, Patcher!TypeInv, Patcher!Relocs
<1>3. mem[s] \in Int
  <2>1. mem[s] \in 0 .. Wide - 1
    BY <1>2 DEF Patcher!RelocateInv, Patcher!TypeInv, Patcher!RelocateTypeOK
  <2> QED BY <2>1
<1>4. Len(base) \in Nat /\ DOMAIN base = 1 .. Len(base)
  BY BaseTyped
<1>5. \A t : Patcher!Times(s, t) \in Nat
  <2> TAKE t
  <2>1. IsFiniteSet(DOMAIN base)
    BY <1>4, FS_Interval
  <2>2. IsFiniteSet({k \in DOMAIN base : base[k] = [rva |-> s, type |-> t]})
    BY <2>1, FS_Subset
  <2>3. Cardinality({k \in DOMAIN base : base[k] = [rva |-> s, type |-> t]}) \in Nat
    BY <2>2, FS_CardinalityType
  <2> QED BY <2>3 DEF Patcher!Times, Patcher!Cardinality, Cardinality
<1> HIDE DEF s
<1>6. \A v \in Int : v % Wide \in 0 .. Wide - 1
  BY <1>1
<1>7. mem[s] + d * Patcher!Times(s, "DIR64") \in Int /\ mem[s] + d * Patcher!Times(s, "HIGHLOW") \in Int
  BY <1>3, <1>5
<1>8. Patcher!Loaded(s, d) \in 0 .. Wide - 1
  BY <1>6, <1>7 DEF Patcher!Loaded
<1>9. \A v \in 0 .. Wide - 1 : v % Wide = v
  BY <1>1
<1> QED BY <1>8, <1>9 DEF s

LEMMA SlotMeant ==
  ASSUME PipelineInv, Patcher!FieldsApart, WellFlagged, phase = "loaded",
         NEW i \in DOMAIN job.relocs, job.relocs[i].sec \in Kept,
         NEW row \in Meant(job.relocs[i].sym), NEW a \in ImageAddresses(row), NEW d \in Deltas
  PROVE  LET r    == job.relocs[i]
             site == prog.relocs[i].site
             add  == Patches!AddendIn(prog.mem, prog.relocs[i])
         IN  /\ r.kind = "abs64" =>
                  OnDisk(site, 8) /\ SlotAt(site, d) = (job.base + d + a + add) % Wide
             /\ r.kind = "abs32" =>
                  OnDisk(site, 4) /\ SlotAt(site, d) % Narrow = (job.base + d + a + add) % Narrow
             /\ r.kind = "rva32" =>
                  OnDisk(site, 4) /\ SlotAt(site, d) % Narrow = (a + add) % Narrow
             /\ r.kind = "pc32" =>
                  OnDisk(site, 4) /\ site + (IF r.elf THEN 0 ELSE 4)
                                       + Patches!Signed(SlotAt(site, d), Narrow) = a + add
<1> DEFINE r    == job.relocs[i]
           h    == prog.relocs[i]
           site == h.site
           add  == Patches!AddendIn(prog.mem, h)
           held == Patcher!Loaded(site, d)
<1>1. /\ step = "emitted" /\ relPc = "linked" /\ Patcher!RelocateInv /\ Handing
  BY DEF PipelineInv, StreamInv, Linking, Streaming
<1>2. /\ i \in DOMAIN Patcher!Relocs /\ Patcher!Relocs[i] = h
      /\ h.placed /\ h.kind = r.kind /\ h.elf = r.elf
  BY <1>1, SlotHanded
<1>3. h.target = [kind |-> "defined", value |-> a]
  BY <1>1, TargetMeant
<1>4. d \in Nat /\ Narrow \in Nat \ {0} /\ prog.base = job.base
  BY <1>1, WidthsAssumption DEF Handing
<1>5. /\ a \in Nat /\ site \in Nat /\ job.base \in Nat /\ h.elf \in BOOLEAN
  <2>1. prog \in Handable
    BY <1>1 DEF Patcher!RelocateInv, Patcher!TypeInv
  <2>2. h \in Patcher!Reloc /\ prog.base \in Nat
    BY <1>2, <2>1, HandableTyped, WidthsAssumption, Patcher!ProgTyped
  <2> QED BY <1>3, <1>4, <2>2 DEF Patcher!Reloc, Patcher!Target
<1>6. add = Patcher!OrigAddend(h) /\ add \in Int
  <2>1. add = Patcher!OrigAddend(h)
    BY SameAddresses DEF Patcher!OrigAddend
  <2>2. prog \in Handable
    BY <1>1 DEF Patcher!RelocateInv, Patcher!TypeInv
  <2>3. Patcher!OrigAddend(Patcher!Relocs[i]) \in Int
    BY <1>2, <2>2, HandableTyped, WidthsAssumption, Patcher!OrigAddendType
  <2> QED BY <1>2, <2>1, <2>3
<1>7. /\ held \in Int /\ held % Wide = held
      /\ r.kind /= "none" => SlotAt(site, d) = held
  BY <1>1, <1>2, <1>4, LoadedWhole, SlotLoaded
<1>8. /\ r.kind = "abs64" => OnDisk(site, 8)
      /\ r.kind \in {"abs32", "rva32", "pc32"} => OnDisk(site, 4)
  BY <1>1, SlotOnDisk DEF Patches!Width
<1>9. Patcher!Expected(h, d) = job.base + a + d /\ Patcher!PatchVA(h) = job.base + site
  BY <1>3, <1>4 DEF Patcher!Expected, Patcher!TargetVA, Patcher!PatchVA
<1>10. ASSUME r.kind \in {"abs64", "abs32"}
       PROVE  LET w == IF r.kind = "abs64" THEN Wide ELSE Narrow
              IN  held % w = (job.base + d + a + add) % w
  <2>1. i \in Patcher!Placed({"abs64", "abs32"})
    BY <1>2, <1>10 DEF Patcher!Placed
  <2>2. LET w == IF h.kind = "abs64" THEN Wide ELSE Narrow
        IN  held % w = (Patcher!Expected(h, d) + Patcher!OrigAddend(h)) % w
    BY <1>1, <1>2, <1>3, <2>1, HandableTyped, WidthsAssumption, Patcher!MoveRight
  <2>3. Patcher!Expected(h, d) + Patcher!OrigAddend(h) = job.base + d + a + add
    BY <1>4, <1>5, <1>6, <1>9
  <2> HIDE DEF held, add, h, r
  <2> QED BY <1>2, <2>2, <2>3
<1>11. ASSUME r.kind \in {"rva32", "pc32"}
       PROVE  /\ r.kind = "rva32" => held % Narrow = (a + add) % Narrow
              /\ r.kind = "pc32" =>
                   site + (IF r.elf THEN 0 ELSE 4) + Patches!Signed(held, Narrow) = a + add
  <2>1. i \in Patcher!Placed({"pc64", "pc32", "prel32", "prel16", "rva32"})
    BY <1>2, <1>11 DEF Patcher!Placed
  <2> DEFINE next == Patcher!PatchVA(h) + d + (IF h.elf THEN 0 ELSE 4)
             goal == Patcher!Expected(h, d) + Patcher!OrigAddend(h)
  <2>2. (CASE h.kind = "pc32" -> next + Patcher!Signed(held, Narrow) = goal
           [] h.kind = "rva32" ->
                held % Narrow = (h.target.value + Patcher!OrigAddend(h)) % Narrow
           [] OTHER -> (next + held) % Patcher!Span(h.kind) = goal % Patcher!Span(h.kind))
    BY <1>1, <1>2, <1>3, <2>1, HandableTyped, WidthsAssumption, Patcher!StayRight
  <2>3. h.kind = "rva32" => held % Narrow = (a + add) % Narrow
    BY <1>3, <1>6, <2>2
  <2>4. h.kind = "pc32" => next + Patcher!Signed(held, Narrow) = goal
    BY <2>2
  <2>5. Patcher!Signed(held, Narrow) = Patches!Signed(held, Narrow)
    BY SameAddresses
  <2>6. Patcher!Signed(held, Narrow) \in Int
    BY <1>4, <1>7, HandableTyped, WidthsAssumption, Patcher!SignedType
  <2> DEFINE x == Patcher!Signed(held, Narrow)
             e == IF h.elf THEN 0 ELSE 4
  <2>7. goal = job.base + a + d + add /\ next = job.base + site + d + e /\ e \in Int
    BY <1>5, <1>6, <1>9
  <2> HIDE DEF x, e, next, goal, site, add, held, h, r
  <2>8. x \in Int
    BY <2>6 DEF x
  <2>9. next + x = goal => site + e + x = a + add
    BY <1>4, <1>5, <1>6, <2>7, <2>8
  <2>10. h.kind = "pc32" => site + e + Patches!Signed(held, Narrow) = a + add
    BY <2>4, <2>5, <2>9 DEF x
  <2> QED BY <1>2, <2>3, <2>10 DEF e
<1> HIDE DEF held, add, site, h, r
<1>12. r.kind = "abs64" => SlotAt(site, d) = (job.base + d + a + add) % Wide
  BY <1>7, <1>10
<1>13. r.kind = "abs32" => SlotAt(site, d) % Narrow = (job.base + d + a + add) % Narrow
  BY <1>7, <1>10
<1>14. r.kind = "rva32" => SlotAt(site, d) % Narrow = (a + add) % Narrow
  BY <1>7, <1>11
<1>15. r.kind = "pc32" =>
         site + (IF r.elf THEN 0 ELSE 4) + Patches!Signed(SlotAt(site, d), Narrow) = a + add
  BY <1>7, <1>11
<1> QED BY <1>8, <1>12, <1>13, <1>14, <1>15 DEF r, site, add, h

\* For every link, every image base and every distance: once the loader has applied
\* the stream it finds through the directory, each slot of a kept section that no
\* other relocation patches too says where the section table has the byte that the
\* object file meant, and the slot is in the file.
THEOREM PipelineAddressesMeant ==
  PipelineSpec => [](Patcher!FieldsApart /\ WellFlagged => AddressesMeant)
<1>1. PipelineInv => (Patcher!FieldsApart /\ WellFlagged => AddressesMeant)
  BY SlotMeant DEF AddressesMeant
<1> QED BY <1>1, PipelineInvariant, PTL
-------------------------------------------------------------------------------
(* The components' types when they feed each other *)

LEMMA ListTyped ==
  Patcher!RelocateInv =>
    /\ [i \in DOMAIN base |-> [rva |-> base[i].rva, type |-> TypeCode[base[i].type]]]
         \in Seq(Reader!BaseReloc)
    /\ DOMAIN [i \in DOMAIN base |-> [rva |-> base[i].rva, type |-> TypeCode[base[i].type]]]
         = DOMAIN base
<1> SUFFICES ASSUME Patcher!RelocateInv
             PROVE  [i \in DOMAIN base |-> [rva |-> base[i].rva, type |-> TypeCode[base[i].type]]]
                      \in Seq([rva : Nat, type : 1 .. 15])
  BY ListsTyped
<1>1. /\ Len(base) \in Nat /\ DOMAIN base = 1 .. Len(base)
      /\ \A i \in DOMAIN base : base[i] \in Found
  BY BaseTyped
<1>2. \A i \in 1 .. Len(base) :
        [rva |-> base[i].rva, type |-> TypeCode[base[i].type]] \in [rva : Nat, type : 1 .. 15]
  BY <1>1 DEF Found, TypeCode
<1> QED BY <1>1, <1>2

LEMMA ListTypedNext ==
  Patcher!RelocateInv' =>
    /\ [i \in DOMAIN base' |-> [rva |-> base'[i].rva, type |-> TypeCode[base'[i].type]]]
         \in Seq(Reader!BaseReloc)
    /\ DOMAIN [i \in DOMAIN base' |-> [rva |-> base'[i].rva, type |-> TypeCode[base'[i].type]]]
         = DOMAIN base'
<1> SUFFICES ASSUME Patcher!RelocateInv'
             PROVE  [i \in DOMAIN base' |-> [rva |-> base'[i].rva, type |-> TypeCode[base'[i].type]]]
                      \in Seq([rva : Nat, type : 1 .. 15])
  BY ListsTyped
<1>1. base' \in Seq(Found)
  BY DEF Patcher!RelocateInv, Patcher!TypeInv, Found
<1>2. Len(base') \in Nat /\ DOMAIN base' = 1 .. Len(base')
  BY <1>1, LenProperties
<1>3. \A i \in DOMAIN base' : base'[i] \in Found
  BY <1>1, <1>2, ElementOfSeq
<1>4. \A i \in 1 .. Len(base') :
        [rva |-> base'[i].rva, type |-> TypeCode[base'[i].type]] \in [rva : Nat, type : 1 .. 15]
  BY <1>2, <1>3 DEF Found, TypeCode
<1> QED BY <1>2, <1>4

\* The entry is zero until it is resolved; the stream keeps its types and its
\* bounds also while other stages run, and after one of them has failed.
TypedInv ==
  /\ step \notin {"emit", "emitted"} => entryRVA = 0
  /\ Reader!StreamTypes /\ Reader!BoundsInv

LEMMA TypedInit == PipelineInit => TypedInv
<1> SUFFICES ASSUME PipelineInit PROVE TypedInv
  OBVIOUS
<1>1. /\ base = << >> /\ pending = {} /\ buf = << >> /\ phase = "build" /\ pos = 1 /\ fix = 5
      /\ applied = << >> /\ entryRVA = 0
  BY DEF PipelineInit
<1>2. Reader!BoundsInv
  BY <1>1, Reader!BoundsInit, ListsTyped
<1> QED BY <1>1, <1>2 DEF TypedInv, Reader!StreamTypes

\* Before the stream is begun its types only hang on the list it is made from.
LEMMA UnbegunTyped ==
  ASSUME Patcher!RelocateInv', pending' \subseteq DOMAIN base', buf' = << >>,
         phase' = "build", pos' = 1, fix' = 5, applied' = << >>
  PROVE  Reader!StreamTypes' /\ Reader!BoundsInv'
<1>1. Reader!StreamTypes'
  BY ListTypedNext DEF Reader!StreamTypes
<1>2. Reader!BoundsInv'
  BY DEF Reader!BoundsInv
<1> QED BY <1>1, <1>2

LEMMA TypedStep ==
  PipelineInv /\ TypedInv /\ [PipelineNext \/ PipelineReturned]_pipelineVars => TypedInv'
<1> SUFFICES ASSUME PipelineInv, TypedInv,
                    PipelineNext \/ PipelineReturned \/ UNCHANGED pipelineVars
             PROVE  TypedInv'
  OBVIOUS
<1>1. step' \notin {"emit", "emitted"} => entryRVA' = 0
  BY DEF TypedInv, PipelineNext, PipelineReturned, pipelineVars, NoObjects, ResolveSymbols,
     SymbolsResolved, LayOut, LaidOut, ApplyRelocations, RelocationsApplied, BuildRelocSection,
     AppendReloc, resolveEntryRVA, Emit, LoadImage
<1>2. ASSUME UNCHANGED <<base, stream>>
      PROVE  Reader!StreamTypes' /\ Reader!BoundsInv'
  <2>1. UNCHANGED <<base, pending, buf, phase, pos, fix, applied>>
    BY <1>2 DEF stream
  <2>2. Reader!StreamTypes' /\ (Reader!StreamSmall' <=> Reader!StreamSmall)
    BY <2>1 DEF TypedInv, Reader!StreamTypes, Reader!StreamSmall
  <2>3. Reader!BoundsInv'
    BY <2>1, <2>2 DEF TypedInv, Reader!BoundsInv
  <2> QED BY <2>2, <2>3
<1>3. CASE ApplyRelocations \/ RelocationsApplied
  <2>1. step = "relocate" /\ Patcher!RelocateInv
    BY <1>3 DEF ApplyRelocations, RelocationsApplied, PipelineInv, StreamInv, Linking
  <2>2. /\ pending = {} /\ buf = << >> /\ phase = "build" /\ pos = 1 /\ fix = 5 /\ applied = << >>
    BY <2>1 DEF PipelineInv, StreamInv
  <2>3. /\ pending' \subseteq DOMAIN base' /\ buf' = << >> /\ phase' = "build"
        /\ pos' = 1 /\ fix' = 5 /\ applied' = << >>
    BY <1>3, <2>2 DEF ApplyRelocations, RelocationsApplied, stream, relocation
  <2>4. Patcher!RelocateInv'
    <3>1. CASE ApplyRelocations
      BY <2>1, <3>1, SamePatches, PatcherStep DEF ApplyRelocations
    <3>2. CASE RelocationsApplied
      BY <2>1, <3>2, PatcherRests DEF RelocationsApplied
    <3> QED BY <1>3, <3>1, <3>2
  <2> QED BY <1>1, <2>3, <2>4, UnbegunTyped DEF TypedInv
<1>4. CASE BuildRelocSection \/ LoadImage
  <2>1. step \in Streaming /\ Reader!RelocNext
    BY <1>4, SameStream DEF BuildRelocSection, LoadImage, Streaming, Linking
  <2>2. Reader!StreamInv
    BY <2>1 DEF PipelineInv, StreamInv
  <2>3. Reader!StreamInv' /\ Reader!BoundsInv'
    BY <2>1, <2>2, ReaderStep, ListsTyped, Reader!BoundsStep DEF TypedInv
  <2>4. Reader!StreamTypes'
    BY <2>3 DEF Reader!StreamInv
  <2> QED BY <1>1, <2>3, <2>4 DEF TypedInv
<1>5. CASE NoObjects \/ ResolveSymbols \/ SymbolsResolved \/ LayOut \/ LaidOut \/ AppendReloc
             \/ resolveEntryRVA \/ Emit \/ PipelineReturned \/ UNCHANGED pipelineVars
  <2>1. UNCHANGED <<base, stream>>
    BY <1>5 DEF NoObjects, ResolveSymbols, SymbolsResolved, LayOut, LaidOut, AppendReloc,
       resolveEntryRVA, Emit, PipelineReturned, pipelineVars, relocation
  <2> QED BY <1>1, <1>2, <2>1 DEF TypedInv
<1> QED BY <1>3, <1>4, <1>5 DEF PipelineNext

LEMMA EntryTyped ==
  ASSUME PipelineInv, TypedInv
  PROVE  entryRVA \in Nat
<1>1. CASE step \notin {"emit", "emitted"}
  BY <1>1 DEF TypedInv
<1>2. CASE step \in {"emit", "emitted"}
  <2>1. pc = "laid" /\ out /= << >>
    BY <1>2, EmittedKept DEF PipelineInv, StepInv, PlacedInv, LinkInv
  <2>2. job.entry \in DOMAIN tab /\ entryRVA = EntryAddress(tab[job.entry])
    BY <1>2 DEF PipelineInv, EntryInv
  <2>3. tab[job.entry] \in Resolver!Resolved
    BY <2>2 DEF PipelineInv, Resolver!ResolveInv, Resolver!ResolveTypeOK
  <2>4. tab[job.entry].value \in Nat
    BY <2>3 DEF Resolver!Resolved, Resolver!Promise!Resolved
  <2> QED BY <2>1, <2>2, <2>4, AddressTyped DEF PipelineInv, EntryAddress
<1> QED BY <1>1, <1>2

\* For every link whose addresses end below 4 GiB:
\* what each stage hands over is what the next one takes, also after a failure.
THEOREM PipelineTypeCorrect ==
  PipelineSpec => [](Reader!StreamSmall => PipelineTypeOK)
<1>1. PipelineInv /\ TypedInv => (Reader!StreamSmall => PipelineTypeOK)
  <2> SUFFICES ASSUME PipelineInv, TypedInv, Reader!StreamSmall
               PROVE  PipelineTypeOK
    OBVIOUS
  <2>1. step \in {"resolve", "layout", "relocate", "build", "entry", "emit", "emitted", "failed",
                    "panicked"}
    BY DEF PipelineInv, StepInv
  <2>2. Symbols!ResolveTypeOK
    <3>1. Resolver!ResolveTypeOK
      BY DEF PipelineInv, Resolver!ResolveInv
    <3> QED BY <3>1 DEF Resolver!ResolveTypeOK, Symbols!ResolveTypeOK, Resolver!Symbol,
               Symbols!Symbol, Resolver!Promise!Symbol, Symbols!Promise!Symbol,
               Resolver!Resolved, Symbols!Resolved, Resolver!Promise!Resolved,
               Symbols!Promise!Resolved, Resolver!Outcomes, Symbols!Outcomes
  <2>3. LinkTypeOK
    BY LinkTyped DEF PipelineInv, PlacedInv
  <2>4. ASSUME step \in Linking PROVE Patches!RelocateTypeOK
    <3>1. Patcher!RelocateTypeOK
      BY <2>4 DEF PipelineInv, StreamInv, Patcher!RelocateInv, Patcher!TypeInv
    <3> QED BY <3>1, SameAddresses DEF Patcher!RelocateTypeOK, Patches!RelocateTypeOK
  <2>5. Stream!RelocTypeOK
    <3>1. Reader!RelocTypeOK
      BY Reader!StreamTyped, ListsTyped DEF TypedInv
    <3> QED BY <3>1 DEF Reader!RelocTypeOK, Stream!RelocTypeOK, Reader!BaseReloc,
               Stream!BaseReloc, Reader!BaseRelocTypes, Stream!BaseRelocTypes
  <2>6. entryRVA \in Nat
    BY EntryTyped
  <2> QED BY <2>1, <2>2, <2>3, <2>4, <2>5, <2>6 DEF PipelineTypeOK, Linking
<1>2. TypedInv /\ PipelineInv /\ [PipelineNext \/ PipelineReturned]_pipelineVars => TypedInv'
  BY TypedStep
<1> QED BY <1>1, <1>2, TypedInit, PipelineInvariant, PTL DEF PipelineSpec
===============================================================================
